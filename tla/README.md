# postfga in TLA+

A TLA+ development kept beside postfga, the PostgreSQL extension that asks an
OpenFGA server for authorization decisions. It models the request channel
between PostgreSQL backends and the background worker, the life of the worker
through reloads, failures and restarts, the client's batching, and the
two-level cache of verdicts; it checks them with TLC on small instances and
proves their main properties with TLAPS for every size.

## The system

    SQL function ──acquire──► slot pool          (shared memory, pool_lock)
         │  fill, enqueue ──► ring of indices    (shared memory, queue_lock)
         │  SetLatch(bgw) ──► background worker ── drain, PENDING→PROCESSING
         │                          │  gRPC client ──► OpenFGA server
         │                          ◄── callback threads: response, completed_queue_
         ◄── SetLatch(pid) ── DONE ─┘
      read response, release

Inventory: component, state, operations, what is hard, what makes it correct.

| component | state | operations | hard part | correct when |
|---|---|---|---|---|
| request channel (`channel.c`, `channel.h`) | slot: state word, pid, payload; free list; id counter | acquire, release, execute (enqueue, wake, wait), drain, wake backend | several processes, unlocked stores to a slot, cancellation in the middle of a wait | a slot has one owner, the answer is the owner's, every wait ends |
| slot queue (`channel_slot.h`) | ring, uint16 head and tail | enqueue, dequeue, drain, peek | wrap of the counters | it is a bounded FIFO |
| sizing (`channel_shmem.c`) | slot count, capacity, mask | size, init | 32 to 16 bit narrowing, clamps | ring fits, all backends fit |
| processor (`bgw/processor.cpp`) | completion queue | execute, begin, complete, drain completed, handle response | worker against callback threads and against cancelling backends | every drained request is answered once |
| worker (`bgw/worker.cpp`, `bgw/bgw.c`) | latch, reload and shutdown flags, optional Processor | wait loop, reload, exit, restart | restart and reload while requests are open | nobody waits for ever |
| SQL functions (`func_fga.c`) | - | fga_check, write and delete tuple, create and delete store | error paths that release | a slot is released exactly once |
| gRPC client (`client/`) | channel, stub | process, process_batch, callbacks | answers in any order, batches | answers reach their request |
| ACL cache (`cache*.{c,h}`) | L1 per backend, L2 shared, generation | lookup, store, eviction, invalidation | shared-lock writes, expiry, stale generation | a hit is a verdict for that key, not expired |
| in-flight counter (`util/counter.*`) | semaphore | acquire, try_acquire, guard | limit | never above the limit |
| FDW (`fdw/`) | scan state, options | validate, plan, iterate | sequential | options are validated, scan ends |
| GUC (`guc.c`, `config*`) | settings | check hooks, reload | what a reload compares | invalid settings are refused |
| start-up (`state.c`, `init.c`) | hooks, shared state | request, startup | runs once | - |
| statistics, relation bitmap | counters, table | increment, read | no control depends on it | - |

`PROJECT.json` lists the same components with their status, the hazards at the
lines where they bite, and the code lines of every definition.

## Modules

| module | what it is |
|---|---|
| `Channel` | the channel: backends, worker, gRPC threads; properties; small mutants of its actions |
| `ChannelInv` | the inductive invariant `IInv` and the two assumptions `Calm` and `Room` |
| `CallService` | the abstract service: a call is opened, answered at most once, and returns |
| `ChannelService` | the mapping from `Channel` to `CallService` |
| `MCChannel` | TLC instance (symmetry of backends) |
| `ChannelProofs` | proofs that need no assumption on the environment |
| `ChannelSafety` | proof that `IInv` is inductive, and what follows |
| `ChannelFreeList` | proofs about the pool: the free list is exactly the EMPTY slots, how a slot can be lost, when the pool is exhausted |
| `ChannelRefinement` | proof that `Channel` implements `CallService` |
| `SlotQueue`, `BoundedFifo` | the ring with wrapping counters, and the queue it implements |
| `SlotQueueProofs` | proof that the ring implements the queue, with the lemmas on remainders it needs, and that its computed size fits |
| `ChannelShmem` | from max_connections to slot count, ring length and mask; `pow2_ceil` works on the set of the bits of a word |
| `MCSlotQueue` | TLC instance of the ring together with the sizes it is created with |
| `GrpcClient` | operators: which RPCs a round of requests becomes, how an RPC may end, what the callbacks write |
| `Worker` | the life of the worker process around `GrpcClient`: start, registration, loop, signals, reload, exception, crash, exit |
| `WorkerProofs` | proofs about `Worker` |
| `VerdictCache` | the abstract cache: verdicts with an end of validity, any of which a look-up may return, or none |
| `AclCache` | L1 and L2 with index, ways, usage counts, clock sweep and lock |
| `MCAclCache` | TLC instance (low words of the hashes, symmetry) |
| `AclCacheProofs` | proofs about `AclCache`, its refinement of `VerdictCache` included |
| `AclCacheBounds` | proofs by counting: how high usage counts rise, how long a sweep lasts |

### How `Channel` corresponds to the code

One step is one access to shared memory: an atomic on the state word, one
critical section (pool_lock, queue_lock, completed_mu_), a latch operation, or
the unlocked stores of the owner, with the local computation around it. `pc[b]`
says where backend b is in `fga_channel_acquire_slot` and
`fga_channel_execute_slot`, `bpc` where the worker is in `Processor::execute`.

- `Acquire`, `AcquireFail`, `Prepare`, `Fill`, `FillError`: from the pop under
  pool_lock to the filled payload. The request id is drawn with the pop; ids
  are only compared for equality. pid, zeroed payload and id are one step: no
  other process reads a slot in this window unless it holds a stale index, in
  which case it looks at the state word and at type and id, which `Prepare`
  and `Fill` write at different times.
- `Enqueue`, `EnqueueFull`, `Rollback`, `WakeBgw`: `fga_channel_execute_slot`.
- `Check`, `Wake`, `Cancel`, `CatchRead`, `CatchCancel`, `CatchDone`,
  `CatchPid`, `CanceledRelease`: `wait_response` with its PG_CATCH, where the
  state is read and overwritten in two steps.
- `Respond`, `CatchRelease`: the rest of the SQL functions. `fga_check` has no
  PG_CATCH (`HasCatch`) and returns an unassigned variable when the RPC failed:
  `Returned` then allows both values. `CallService` promises neither for a
  failed check, so `ImplementsService` does not judge the unassigned variable.
  Reading the response and releasing the slot are one step where nothing comes
  between them; in a check that failed, ereport(INFO) does (`Reporting`): it
  processes interrupts before the release, and a cancel (`CancelReport`) or a
  FATAL (`Die`) there leaves the DONE slot with nobody.
- `Die`, `Exit`, `OtherSignal`: FATAL in CHECK_FOR_INTERRUPTS, in the wait or in
  that report, a disconnect of an idle session, a latch set by another part of
  the server.
- `BgwWake` to `HandleEnd`: one round of the worker. The CAS of
  beginProcessing, the release of canceled slots, the split between single
  calls and BatchCheck, the swap of the completion queue, DONE, the look-up of
  the pid and the wake-up are separate steps.
- `RpcComplete`, `RpcSignal`: a callback thread writes the response and pushes
  the slot, then sets the latch. `inflight` counts the RPCs the library has
  been given. The items of one BatchCheck may complete at different times and
  with different outcomes: more behaviours than the code has, so what holds
  here holds there. A late batch item looks its answer up by the id now in the
  slot (`Correlated`).

Left out of `Channel`: payload strings, statistics, the cache look-up of
`fga_check` (nothing fills the cache at this commit, so it always misses),
out-of-memory errors, and the exception stack that `PG_RETURN_BOOL` inside
PG_TRY leaves behind (`func_fga.c:187`), whose effect is undefined behaviour of
the server. The RPC statuses other than OK are one value.

`Ops`, `Answers` and `Env` choose which functions are called, how RPCs may end
and what the environment does: "nostore" (store_id unset), "signal", "cancel",
"die", "exit". Bounds: `MaxRequests` (requests started in a behaviour),
`SlotCount`, `QueueCapacity`, `MaxBatch` (50 in the code), `MaxDrain`,
`Modulus`, `MaxConnections`.

### How `Worker` corresponds to the code

`Channel` has one worker that lives as long as the behaviour. `Worker` is the
other view: what a call is made of is coarse (one request per backend, queued,
drained, sent, answered), and the process is not.

- `Start`, `Run`: the postmaster forks (`bgw.c`), `Worker::run` stores MyLatch
  into `FgaState.bgw_latch`, `process()` loads the settings and builds a
  Processor unless the endpoint is empty.
- `WaitLatch`, `HandleReload`, `Execute` or `Skip`, `Complete`: one turn of the
  loop. `config` keeps the value process() began with: the code never assigns
  the new settings to it, so later reloads are compared with the old ones.
- `Leave`: the orderly end after SIGTERM clears bgw_latch; exit code 0 means the
  postmaster does not start the worker again. `ErrorExit(n, m)`: an exception
  out of `run()`, possibly in the middle of a round; bgw_latch keeps pointing
  to the latch of the process that has gone ("stale") until the next one
  registers.
- `WorkerCrash`, `WakeCrash`: the end of any process by a signal (SetLatch(NULL)
  for instance) makes the postmaster reset shared memory (`Reset`).
- `Sighup`, `Sigterm`: the handlers; they may come between any two steps.
- `RpcEnd`, `RpcEndNowhere`: callbacks on library threads. A reload rebuilds
  the Processor in place, so a late callback reaches the new one; with no
  Processor the push goes to a destroyed object, and the outcome is either
  lost work or a crash.

`GrpcClient` turns a round into RPCs as `process_batch` does: a single request
by itself, of several the checks as one BatchCheck in the store of the first.
A callback writes CLIENT_ERROR, SERVER_ERROR or OK; a zeroed response reads as
OK and "denied", which is why `OkIsDecided` matters. `completed_queue_` and the
items of an RPC are sets: the first is emptied as a whole, the answers of the
second are found by id.

Bounds: `MaxCalls`, `MaxFaults`, `MaxReloads`; `Env` chooses among exceptions,
reloads, SIGTERM and crashes.

### How `AclCache` corresponds to the code

One step is a critical section of the L2 lock, or an access inside one that
others can observe, with the private L1 work around it.

- `LookupDisabled`, `L1Hit`, `L1Miss`: `fga_cache_lookup` up to the lock. An
  expired way is invalidated when it is met.
- `L2Miss`, `L2Hit`, `Bump`: `l2_lookup` under the shared lock. The usage count
  is tested and incremented in two steps, since other look-ups may be there.
- `Store`, `L2Update`, `L2BeginSweep`, `SweepPast`, `SweepStop`: `fga_cache_store`
  writes L1, then L2 under the exclusive lock: an entry of the key is
  overwritten, or the clock hand looks for a victim, one step per entry.
- `Keys` have a part that `fga_cache_key` does not set (`Garbage`): the L2 index
  compares it, L1 does not.

Tuples are assumed to have distinct 128-bit hashes (`Hashes`); `Low` gives
their low words, which may collide. The generation is 0 throughout: nothing
increments it at this commit. A usage count is a byte (`UsageModulus`, 2^8) that
concurrent look-ups may lift above `UsageMax`, or lift only once, since the
increment is not atomic. `Install` has no counterpart of the ERROR for a full
hash (`cache_l2.h:229-233`): the victim's key is removed first, and the hash is
created with room for an entry per slot. Bounds: `MaxTime`, `MaxStores`.

`ChannelShmem.compute_slot_size` leaves out `cfg->max_slots`: no GUC sets it, and
the configuration is zero-initialised.

## What TLC checks

| run | instance | shows | distinct states |
|---|---|---|---|
| `service` | 2 backends, 2 slots, batches of 2, 3 requests, check and write, unset store | `SlotExclusive`, `FreeListExact`, `RequestInOnePlace`, `NoOrphan`, `AnswerIsMine`, `NoLostWakeup`, `LostOnlyByCheck`, `ExhaustedOnlyByLoss`, `RpcWritesOwnRequest`, `ImplementsService` | 486,469 |
| `full_queue` | 3 backends, 2 slots, ring of one element, check | `TypeOK`, `SlotExclusive`, `FreeListExact` when pool and queue are exhausted; `IInv`, the invariant of the proofs | 369,650 |
| `interrupts` | 2 backends, 1 slot, checks that fail, 3 requests, cancel, die and exit | `NoLostCompletion` | 1,609,946 |
| `liveness` | 2 backends, rounds of one slot, check and write, denied and failing, stray latches, fair | `NoStrandedRequest`, `CallReturns`, `ImplementsService` | 153,187 |
| `ring` | capacity 4, counters modulo 16; max_connections 1..17000 | `ImplementsFifo`, `RingFits`, `RoomForAll` | 40,183 |
| `cache` | 2 backends, 3 tuples in one L1 set, 2 L2 entries, 3 stores, expiry | `TypeOK`, `IndexExact`, `L1Unique`, `UsageBounded`, `SweepBounded`, `SweepUndisturbed`, `ImplementsPromise` | 108,844 |
| `lifecycle` | 2 backends, check and write, one fault, one reload with or without a change, an empty endpoint, SIGTERM, fair | `TypeOK`, `OkIsDecided`, `SighupHarmless`, `NoLatchOnlyOutsideService`, `QueuedServed` | 407,687 |

The bounds are small but reach the cases that matter: a third request reuses a
slot while another is under way, batches of one and of two, more queued than a
round drains, pool and queue exhausted, stale latches. `ring` wraps its
counters many times; only the quotient Modulus / Capacity differs from the
code; its sizes cover every setting up to and past the clamp. In `cache` three
tuples compete for two ways and two entries, so that both levels evict, and two
look-ups can pass the usage test together; with both verdicts, or with two
values of the unset key bytes, the same properties hold (727,000 and 930,000
states), and the proofs cover all of it. A usage count would wrap only after some
250 look-ups of one entry at once, which no instance reaches; the proofs hold
for every `UsageModulus` above `UsageMax`. In `lifecycle` a fault meets every
position of the worker with both calls open; with a third setting the same
properties hold (1,118,695 states). `interrupts` has three
requests, the least with which a call finds its slot CANCELED by another
(`CanceledRelease`), and RPCs that fail, so that interrupts come in the report of
a failed check as well; `NoLostCompletion` also holds with checks and writes and
two requests (316,396 states), and its theorem covers all of them. `interrupts`
and `cancel_leak` switch
deadlock off: a behaviour may end with a backend asleep on a slot that was
taken from it, which is what those runs are about.

Runs that TLC must refute, each for a line of the repository that says otherwise:

| run | says | what happens |
|---|---|---|
| `exit_race` | `channel.c:62` Assert(slot->backend_pid == MyProcPid) | the worker looks up the pid after DONE; a backend that returned and disconnected makes it release the slot a second time |
| `cancel_release` | `channel.c:95` not put on the free list, the BGW does that | the PG_CATCH of the caller does it at once |
| `cancel_leak` | `processor.cpp:136-139` the BGW returns the slot | CANCELED written over DONE is seen by nobody |
| `batch_store` | `guc.c:110` store_id can be set per session | checks of several sessions drained in one round are decided in the store of the first |
| `reload` | `worker.cpp:40` "SIGHUP handler: request config reload" | the settings change and change back; the second reload is compared with the settings of the start and ignored |

`WaitAssert`, the assertion of `exit_race`, fails in two more ways, for which
`exit_race.cfg` only needs other constants:

- a canceled backend clears backend_pid (`channel.c:94`) after the worker has
  returned the CANCELED slot and a second call has stored its pid there (two
  backends, two slots, `Env = {"cancel"}`);
- on a full queue `fga_channel_execute_slot` releases the slot (`channel.c:178`)
  and the PG_CATCH of a write or delete releases it again, so that two calls
  share it (three backends, two slots, `QueueCapacity = 2`, four requests,
  `Ops = {"write"}`, `Env = {}`). The queue can be full from 16384 connections on.

`guc.c:42` says "postfga.endpoint must not be empty", but the check hook accepts
an empty one; a reload then destroys the Processor under RPCs that will report to
it. `lifecycle` has this case (`Unset`, `RpcEndNowhere`).

Fairness (`FairSpec`): weak fairness of each backend's own steps, of the
worker, of each RPC's completion (every RPC is given a deadline,
e.g. `openfga_client_check.cpp:71`) and of the latch set by a callback. All are
processes or threads the operating system schedules. Nothing is assumed of
calls, errors, signals or interrupts. `Worker` has the same kind of fairness: of
the worker's steps, its restart by the postmaster after bgw_restart_time
included, of the callbacks (deadlines) and of each backend; none of calls,
signals, exceptions and crashes. `QueuedServed` is stated for behaviours in
which there is a Processor in the end: with an empty endpoint, or after an
orderly exit, queued calls do wait.

## What is proved

TLAPS checks every proof to the last leaf. The assumptions on constants are the
named ASSUMEs of the modules, which TLC evaluates in every run; each is what the
code guarantees (a capacity that is a power of two divides the range of the
counters, FGA_L2_USAGE_MAX is less than 2^8, backends are finitely many).

*Without restriction on the environment* (`ChannelProofs`):

- `TypeCorrect`: `TypeOK`, including `Len(queue) < QueueCapacity`. The
  invariant adds that a backend inside a call holds a slot and that the worker
  has one in hand where it uses it.
- `CompletionNotLost`: `NoLostCompletion`, inductive as it stands.

*For Calm systems with Room* (`ChannelSafety`, `ChannelFreeList`,
`ChannelRefinement`). `Calm`: no
cancel, FATAL or disconnect during a behaviour. `Room`: the queue has room for
every backend, or only `fga_check` is called. Without them the properties are
false, as the violation runs show. `RoomAlways` (below) proves that the sizes
the code computes satisfy `Room` up to 16383 connections (parallel workers count
as backends).

- `InvariantHolds`: `IInv`. The properties are not inductive alone: that a
  callback writes into its own request needs that the slot is still
  PROCESSING, which needs that its owner still waits (`NoOrphan`), which needs
  that the worker refers to each slot at most once (`RequestInOnePlace`), which
  needs that a slot popped from the free list is EMPTY and unreferenced
  (`FreeList`, `StateOfRefs`), which needs that releases come from the owner
  alone (`SlotExclusive`, `Holding`). `Identity` ties pid, id, type and answer
  to the request, `Served` extends `NoStrandedRequest` to every position of the
  worker.
- From it: `SlotsAreExclusive`, `RequestsAreHandledOnce`,
  `NoRequestIsOrphaned`, `AnswersAreMine`, `WakeupIsNotLost`,
  `RequestIsNotStranded`, `CallbackWritesItsRequest`.
- `FullOnlyForCheck` is the counting argument behind `Room`: a full queue
  holds the indices of as many other waiting backends.
- `FreeListStaysExact`: `FreeListExact` follows one pointer after the other, and
  no step can be argued about that way, since it may cut or extend the list at
  its head only because of what the whole of it looks like. `Linked` says there
  is a sequence of all EMPTY slots, each once, from head to NULL along `next`:
  acquire takes its first element off, a release puts one in front, and that
  the released slot is not on it yet is `IInv` (its owner holds it, so it is not
  EMPTY). `LinkedIsExact` returns to the pointers: a list of different slots is
  no longer than the pool (a pigeonhole argument), so following it ends in time.
- `SlotsAreConserved`: `LostOnlyByCheck`. A slot that is not EMPTY and that no
  call holds is lost for good. `LossInv` says of each lost slot that store_id
  could be unset, that it is PENDING and that its request is a check; it is
  inductive together with `IInv`, which excludes that the worker or a callback
  still writes to it (`NoOrphan`). The only step that adds to `Lost` is the
  ERROR of `fill_request` in `fga_check`, which has no PG_CATCH: every other
  error path gives its slot back, once.
- `PoolIsLargeEnough`: `ExhaustedOnlyByLoss`. By `Linked` an empty list means no
  EMPTY slot, so every slot is lost or held; an idle backend holds none, so at
  most `Cardinality(Backends) - 1` are held. With a slot for every backend, which
  `RoomAlways` gives, "channel slot pool exhausted" (`channel.c:117`) is only met
  after as many leaks as there are slots to spare: the "slot leaks" of its hint
  are, in a calm system, checks without a store_id.
- `ChannelImplementsService`: every step is a step of `CallService` or a
  stutter, for any number of backends, slots and requests.

*The cache* (`AclCacheProofs`), for any number of backends, tuples, sets, entries
and unset key bytes:

- `CacheTypes`, `IndexStaysExact`: inductive only together and with `Locked`
  (`L2Inv`): a look-up that is about to bump an entry holds the shared lock, so
  its key stays indexed; a store that sweeps is alone and its key is not indexed,
  so that installing it makes no second entry.
- `SweepIsUndisturbed` (an action property) follows from `Locked`.
- `L1StaysUnique`: a store updates the way that has the tuple before it takes
  another.
- `CacheKeepsPromise`: `AclCache` implements `VerdictCache`. Beside `L2Inv` it
  needs that every valid entry of either level is a verdict that was stored
  (`Facts`) and that the entry a look-up has found has not expired since
  (`Fresh`).

- `UsageStaysBounded` (`AclCacheBounds`): a count at its bound with one more
  look-up on its way would break `UsageBounded`, so the invariant (`Admission`)
  counts the look-ups that passed the test of an entry and have not bumped it
  yet: usage and these together stay below UsageMax plus the number of backends.
  An increment that is lost, or that wraps the byte, only lowers the sum.
- `SweepStaysBounded`: `Progress` adds the turns a sweep has taken to the units
  that all usage counts still hold. Each turn takes one of these, nobody adds
  any while the exclusive lock is held (`SweepUndisturbed`), and the sum starts
  below the bound by `UsageStaysBounded`. This is a bound, not liveness: that a
  sweep takes its steps is up to the scheduler.

*The ring* (`SlotQueueProofs`), for every capacity, every range of the counters
that the capacity divides, and any values:

- `RingImplementsFifo`: `SlotQueue` implements `BoundedFifo`. The invariant
  (`RingInv`) says that the distance of the counters, taken modulo their range,
  is at most capacity - 1; from that follows that the masked difference is the
  length of the contents, that no two queued elements share a place of the
  array through any wrap, and that full and empty are told apart. That the
  capacity divides the range is needed: otherwise masking a wrapped counter
  would jump.

*The sizes* (`SlotQueueProofs`), for every max_connections:

- `RingAlwaysFits`: `RingFits`. The heart of it is `FillStep`: if the top m bits
  below and at the highest one are ones, x |= x >> m makes it 2m, so that after
  shifts by 1, 2, 4, 8 and 16 all are (`FillBelow`), and adding one gives the next
  power of two. `LeastPower` has the five lengths the clamp of the slot count
  leaves, 1024 to 16384, all below 2^16.
- `RoomAlways`: `RoomForAll`, up to 16383 connections.
- `RingIsAdmissible`: the length satisfies what `RingImplementsFifo` assumes of
  `Capacity`, with `Modulus` 2^16. Ring, pool and channel thus rest on the sizes
  the code computes, not on sizes that were picked for them.

*The worker* (`WorkerProofs`), for any number of backends, calls, reloads and
faults and any batch size:

- `RequestsHaveOnePlace`, and from it `WorkerTypes`: `WorkerInv` says that a
  request is in the queue once, or in one RPC, or completed, and that its state
  word fits. It rests on `RoundRpcs`: a round of requests of different backends
  becomes RPCs in which each of them is, and is once.
- `OkMeansDecided`: `OkIsDecided` is not inductive, since responses are written
  before DONE; `AnswerInv` says it of completed requests as well.
- `SighupLosesNothing`: with `LifeInv`, which says that the settings of the
  process are those of the postmaster until they change, and that what is
  under way has a Processor to return to.
- `LatchMissingOnlyOutsideService`: from `LatchInv`, inductive by itself.

Only model-checked:

- `CallReturns` and `QueuedServed`: liveness under fairness, which TLAPS does not
  reach.
- What happens under cancellation, but for `TypeOK` and `NoLostCompletion`: most
  properties are false there, as the violation runs show.

## Limits

- Memory is sequentially consistent. The code has the barriers around DONE
  (`processor.cpp:146`, `channel.c:197`) that the hand-over needs.
- In `Channel` the worker lives as long as the behaviour and has an endpoint; in
  `Worker` it does not, but calls are not canceled.
- In `Worker` each backend has a slot of its own and the queue does not fill.
- In a system with cancellation two items of one batch could carry the same
  slot under two ids; `Correlated` then gives the earlier one CLIENT_ERROR where
  the code would copy the other's answer. No property checked under
  cancellation reads responses.
- `Calm` excludes query cancel, which is ordinary use: for it the project
  has the violation runs, and the hazards say what is not covered.

## Not modelled

- The generated protobuf and gRPC code under `src/api` (some 238,000 of the
  repository's lines, against about 6,000 hand-written ones under `src/src`):
  external, it appears as the ways an RPC may end. Whatever share of all lines
  is modelled, it stays small for this reason.
- In-flight counter: `Counter` objects exist, but no code acquires one.
- Foreign data wrapper: a sequential demonstration scan of generated rows that
  shares no state with channel or cache.
- Relation bitmap: its look-ups are commented out.
- Statistics: counters on which no control depends.
- GUC definitions, hook chains and the byte layout of shared memory: run once
  in the postmaster. What the worker and the cache read of the settings is
  modelled. The RPC timeout, which `config.cpp:17` takes from cache_ttl_ms (at
  least 1000 by its GUC), is not a time in the model: any RPC may fail.
- Invalidation of the cache: `generation` is never incremented and the
  invalidate functions have no caller; `fga_cache_store` has none either, so
  the look-up of `fga_check` always misses and `Channel` leaves it out.
- `l2_slot_table` after a crash restart: the process-local pointer survives the
  segment it points into, and what it then leads to is up to the allocator.
- `is_healthy` of the client and `handleException` of the processor: no caller.
  `shutdown` of the client, run by its destructor, sets a flag and waits for
  nothing, which is why callbacks outlive a Processor (`RpcEndNowhere`).

## What could follow

- `Channel` and `Worker` in one model: cancellation while the worker restarts.
- A bound on the slots that interrupts can leak. Under "cancel", "die" and "exit"
  `SlotExclusive` and what rests on it fail, with checks alone too, since a slot
  can be released twice (`exit_race`); a repaired hand-over would be the model to
  prove this about.

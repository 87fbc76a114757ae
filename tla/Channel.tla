------------------------------ MODULE Channel ------------------------------
(***************************************************************************)
(* The request channel of postfga: PostgreSQL backends that run one of the *)
(* SQL functions (fga_check, fga_write_tuple, ...) take a slot from a      *)
(* shared-memory pool, fill it, queue its index and wait on their latch;   *)
(* one background worker (BGW) drains the queue, hands the requests to an  *)
(* asynchronous gRPC client, and hands the answers back through the slot's *)
(* state word.                                                             *)
(*                                                                         *)
(* One step is one access to shared memory (an atomic on the state word,   *)
(* a critical section of pool_lock, queue_lock or completed_mu_, a latch   *)
(* operation, an unlocked store to the slot) together with the local       *)
(* computation around it.  Payload strings are abstracted away: a request  *)
(* is its id and its type, an answer its status, the allow bit and the id  *)
(* of the request it answers.                                              *)
(***************************************************************************)
EXTENDS Naturals, Sequences, FiniteSets

CONSTANTS
  Backends,       \* the PostgreSQL backends; a backend is its own pid
  SlotCount,      \* number of slots in the pool
  QueueCapacity,  \* length of the ring; it holds one index less
  MaxBatch,       \* the most slots one Processor::execute drains
  MaxRequests,    \* bound: how many requests a behaviour may start
  Ops,            \* the SQL functions the backends call
  Answers,        \* the ways an RPC may end
  Env,            \* what the environment may do to a backend
  NULL            \* null pointer of the slist, and InvalidPid

AllOps == {"check", "write", "delete", "createStore", "deleteStore"}
AllAnswers == {"allow", "deny", "ok", "fail"}
AllEnv == {"cancel", "die", "exit", "nostore", "signal"}

Slots == 0 .. (SlotCount - 1)
Ids == 0 .. MaxRequests     \* 0 is the id of a zeroed payload

InvalidPid == NULL

ASSUME SlotCountAssumption == SlotCount \in Nat \ {0}
ASSUME QueueCapacityAssumption == QueueCapacity \in Nat \ {0}
ASSUME MaxBatchAssumption == MaxBatch \in Nat \ {0}
ASSUME MaxRequestsAssumption == MaxRequests \in Nat
ASSUME OpsAssumption == Ops \subseteq AllOps
ASSUME AnswersAssumption == Answers \subseteq AllAnswers
ASSUME EnvAssumption == Env \subseteq AllEnv
ASSUME NullAssumption == NULL \notin Slots /\ NULL \notin Backends

VARIABLES
  state, backend_pid,   \* FgaChannelSlot.state, .backend_pid
  request, response,    \* FgaChannelSlot.payload
  head, next,           \* the intrusive free list of the pool
  queue,                \* indices in the ring, oldest first
  request_id,           \* FgaChannel.request_id
  latch, bgw_latch,     \* the procLatch of each backend, the BGW's MyLatch
  pc, op, slot, rid,    \* a backend: position, function, slot, request id
  result,               \* what its last call returned
  bpc, batch, items, batched, local, bslot,  \* the BGW main loop
  completed, signals,   \* completed_queue_, callbacks about to SetLatch
  inflight              \* how many of each RPC are handed to gRPC, unanswered

slotVars == <<state, backend_pid, request, response, head, next>>
backendVars == <<pc, op, slot, rid, result>>
bgwVars == <<bpc, batch, items, batched, local, bslot>>
grpcVars == <<completed, signals, inflight>>
vars == <<slotVars, queue, request_id, latch, bgw_latch, backendVars,
          bgwVars, grpcVars>>

SlotStates == {"EMPTY", "CANCELED", "PENDING", "PROCESSING", "DONE"}
Request == [id : Ids, type : Ops \cup {"none"}]

\* Every status but OK is treated alike: CLIENT_ERROR stands for them all.
Response == [status : {"OK", "CLIENT_ERROR"}, allow : BOOLEAN, of : Ids]

\* MemSet(payload, 0): type 0 is no request, status 0 is FGA_RESPONSE_OK.
ZeroResponse == [status |-> "OK", allow |-> FALSE, of |-> 0]

\* A call of the gRPC client: the slot its callback captured and the id and
\* type it read when it was issued; "batchCheck" is one item of a BatchCheck.
Kinds == Ops \cup {"batchCheck"}
Rpc == [slot : Slots, id : Ids, kind : Kinds]

BackendPC == {"idle", "prepare", "fill", "enqueue", "rollback", "wakebgw",
              "check", "sleep", "respond", "canceledRelease", "catchRead",
              "catchCancel", "catchDone", "catchPid", "catchRelease", "gone"}
BgwPC == {"wait", "drain", "begin", "beginRelease", "issue", "swap",
          "handle", "handleRelease", "done", "wake"}

\* Mutant: the loop of pool_init leaves the first slot out.
PoolLinksShort == [s \in Slots |-> IF s <= 1 THEN NULL ELSE s - 1]

\* pool_init pushes one slot after the other.
PoolLinks == [s \in Slots |-> IF s = 0 THEN NULL ELSE s - 1]

Init ==
  /\ state = [s \in Slots |-> "EMPTY"]
  /\ backend_pid = [s \in Slots |-> InvalidPid]
  /\ request = [s \in Slots |-> [id |-> 0, type |-> "none"]]
  /\ response = [s \in Slots |-> ZeroResponse]
  /\ head = SlotCount - 1
  /\ next = PoolLinks
  /\ queue = << >>
  /\ request_id = 0
  /\ latch = [b \in Backends |-> FALSE]
  /\ bgw_latch = FALSE
  /\ pc = [b \in Backends |-> "idle"]
  /\ op = [b \in Backends |-> "none"]
  /\ slot = [b \in Backends |-> NULL]
  /\ rid = [b \in Backends |-> 0]
  /\ result = [b \in Backends |-> "none"]
  /\ bpc = "wait"
  /\ batch = << >>
  /\ items = << >>
  /\ batched = FALSE
  /\ local = << >>
  /\ bslot = NULL
  /\ completed = << >>
  /\ signals = 0
  /\ inflight = [r \in Rpc |-> 0]

----------------------------------------------------------------------------
(***************************************************************************)
(* Helpers shared by the backends and the BGW.                             *)
(***************************************************************************)

\* Mutant: slist_push_head forgets to link the node to the old head.
ReleaseNoLink(s) ==
  /\ state' = [state EXCEPT ![s] = "EMPTY"]
  /\ head' = s
  /\ UNCHANGED <<backend_pid, request, response, next>>

\* fga_channel_release_slot: whoever calls it, whatever state the slot is in.
Release(s) ==
  /\ state' = [state EXCEPT ![s] = "EMPTY"]
  /\ next' = [next EXCEPT ![s] = head]
  /\ head' = s
  /\ UNCHANGED <<backend_pid, request, response>>

\* pg_atomic_write_u32(&slot->state, st)
WriteState(s, st) ==
  /\ state' = [state EXCEPT ![s] = st]
  /\ UNCHANGED <<backend_pid, request, response, head, next>>

\* Control moves from one place of a backend's code to the next.
Goto(b, from, to) ==
  /\ pc[b] = from
  /\ pc' = [pc EXCEPT ![b] = to]

\* The SQL function is over: it returned r or raised an error.
End(b, r) ==
  /\ pc' = [pc EXCEPT ![b] = "idle"]
  /\ slot' = [slot EXCEPT ![b] = NULL]
  /\ op' = [op EXCEPT ![b] = "none"]
  /\ result' = [result EXCEPT ![b] = r]
  /\ UNCHANGED rid

\* Mutant: fga_check gets a PG_CATCH that releases, like the other functions.
HasCatchAlways(o) == TRUE

\* Mutant: the functions on tuples have no PG_CATCH, as fga_check has none.
HasCatchStores(o) == o \in {"createStore", "deleteStore"}

\* All SQL functions but fga_check wrap the call in PG_TRY and release the
\* slot in PG_CATCH.
HasCatch(o) == o # "check"

\* ereport(ERROR) or PG_RE_THROW out of the channel code.
Raise(b) ==
  IF HasCatch(op[b])
  THEN /\ pc' = [pc EXCEPT ![b] = "catchRelease"]
       /\ UNCHANGED <<op, slot, rid, result>>
  ELSE End(b, "error")

----------------------------------------------------------------------------
(***************************************************************************)
(* A backend.                                                              *)
(***************************************************************************)

\* Mutant: the head of the free list is read and not removed.
AcquirePeek(b, o) ==
  /\ head # NULL
  /\ request_id < MaxRequests
  /\ Goto(b, "idle", "prepare")
  /\ op' = [op EXCEPT ![b] = o]
  /\ slot' = [slot EXCEPT ![b] = head]
  /\ request_id' = request_id + 1
  /\ rid' = [rid EXCEPT ![b] = request_id + 1]
  /\ result' = [result EXCEPT ![b] = "none"]
  /\ state' = [state EXCEPT ![head] = "PENDING"]
  /\ UNCHANGED <<backend_pid, request, response, head, next, queue, latch,
                 bgw_latch, bgwVars, grpcVars>>

\* fga_channel_acquire_slot pops a slot.  The id that Prepare stores is drawn
\* here: ids are only compared for equality, so the order of drawing is moot.
Acquire(b, o) ==
  /\ head # NULL
  /\ request_id < MaxRequests
  /\ Goto(b, "idle", "prepare")
  /\ op' = [op EXCEPT ![b] = o]
  /\ slot' = [slot EXCEPT ![b] = head]
  /\ request_id' = request_id + 1
  /\ rid' = [rid EXCEPT ![b] = request_id + 1]
  /\ result' = [result EXCEPT ![b] = "none"]
  /\ state' = [state EXCEPT ![head] = "PENDING"]
  /\ head' = next[head]
  /\ UNCHANGED <<backend_pid, request, response, next, queue, latch,
                 bgw_latch, bgwVars, grpcVars>>

\* "channel slot pool exhausted", raised before any PG_TRY.
AcquireFail(b) ==
  /\ pc[b] = "idle"
  /\ head = NULL
  /\ End(b, "error")
  /\ UNCHANGED <<slotVars, queue, request_id, latch, bgw_latch, bgwVars,
                 grpcVars>>

\* Mutant: the pid of the slot's previous user is left in place.
PrepareNoPid(b) ==
  /\ Goto(b, "prepare", "fill")
  /\ request' = [request EXCEPT
                   ![slot[b]] = [id |-> rid[b], type |-> "none"]]
  /\ response' = [response EXCEPT ![slot[b]] = ZeroResponse]
  /\ UNCHANGED <<state, backend_pid, head, next, queue, request_id, latch,
                 bgw_latch, op, slot, rid, result, bgwVars, grpcVars>>

\* The owner's stores to the slot it popped: pid, zeroed payload, id.
Prepare(b) ==
  /\ Goto(b, "prepare", "fill")
  /\ backend_pid' = [backend_pid EXCEPT ![slot[b]] = b]
  /\ request' = [request EXCEPT
                   ![slot[b]] = [id |-> rid[b], type |-> "none"]]
  /\ response' = [response EXCEPT ![slot[b]] = ZeroResponse]
  /\ UNCHANGED <<state, head, next, queue, request_id, latch, bgw_latch, op,
                 slot, rid, result, bgwVars, grpcVars>>

\* request->type = ...; fill_request; fill_tuple
Fill(b) ==
  /\ Goto(b, "fill", "enqueue")
  /\ request' = [request EXCEPT ![slot[b]].type = op[b]]
  /\ UNCHANGED <<state, backend_pid, response, head, next, queue, request_id,
                 latch, bgw_latch, op, slot, rid, result, bgwVars, grpcVars>>

\* fill_request finds postfga.store_id unset: the type is stored already.
NeedsStore(o) == o \in {"check", "write", "delete"}
FillError(b) ==
  /\ "nostore" \in Env
  /\ pc[b] = "fill"
  /\ NeedsStore(op[b])
  /\ request' = [request EXCEPT ![slot[b]].type = op[b]]
  /\ Raise(b)
  /\ UNCHANGED <<state, backend_pid, response, head, next, queue, request_id,
                 latch, bgw_latch, bgwVars, grpcVars>>

\* Mutant: the ring is taken to hold capacity elements.
EnqueueOneMore(b) ==
  /\ Len(queue) < QueueCapacity
  /\ Goto(b, "enqueue", "wakebgw")
  /\ queue' = Append(queue, slot[b])
  /\ UNCHANGED <<slotVars, request_id, latch, bgw_latch, op, slot, rid,
                 result, bgwVars, grpcVars>>

\* queue_enqueue under queue_lock.
Enqueue(b) ==
  /\ Len(queue) < QueueCapacity - 1
  /\ Goto(b, "enqueue", "wakebgw")
  /\ queue' = Append(queue, slot[b])
  /\ UNCHANGED <<slotVars, request_id, latch, bgw_latch, op, slot, rid,
                 result, bgwVars, grpcVars>>

EnqueueFull(b) ==
  /\ Len(queue) >= QueueCapacity - 1
  /\ Goto(b, "enqueue", "rollback")
  /\ UNCHANGED <<slotVars, queue, request_id, latch, bgw_latch, op, slot, rid,
                 result, bgwVars, grpcVars>>

\* "failed to enqueue channel slot": release, then ERROR.
Rollback(b) ==
  /\ pc[b] = "rollback"
  /\ Release(slot[b])
  /\ Raise(b)
  /\ UNCHANGED <<queue, request_id, latch, bgw_latch, bgwVars, grpcVars>>

\* Mutant: the worker is woken before the index is queued, so not after.
WakeBgwEarly(b) ==
  /\ Goto(b, "wakebgw", "check")
  /\ UNCHANGED <<slotVars, queue, request_id, latch, bgw_latch, op, slot, rid,
                 result, bgwVars, grpcVars>>

\* fga_wake_bgw
WakeBgw(b) ==
  /\ Goto(b, "wakebgw", "check")
  /\ bgw_latch' = TRUE
  /\ UNCHANGED <<slotVars, queue, request_id, latch, op, slot, rid, result,
                 bgwVars, grpcVars>>

\* Mutant: the wait ends as soon as the request is no longer PENDING.
CheckNotPending(b) ==
  /\ Goto(b, "check", CASE state[slot[b]] \in {"PROCESSING", "DONE"} -> "respond"
                        [] state[slot[b]] = "CANCELED" -> "canceledRelease"
                        [] OTHER -> "sleep")
  /\ UNCHANGED <<slotVars, queue, request_id, latch, bgw_latch, op, slot, rid,
                 result, bgwVars, grpcVars>>

\* wait_response reads the state word.
Check(b) ==
  /\ Goto(b, "check", CASE state[slot[b]] = "DONE" -> "respond"
                        [] state[slot[b]] = "CANCELED" -> "canceledRelease"
                        [] OTHER -> "sleep")
  /\ UNCHANGED <<slotVars, queue, request_id, latch, bgw_latch, op, slot, rid,
                 result, bgwVars, grpcVars>>

\* WaitLatch returns, ResetLatch, no interrupt is pending.
Wake(b) ==
  /\ latch[b]
  /\ Goto(b, "sleep", "check")
  /\ latch' = [latch EXCEPT ![b] = FALSE]
  /\ UNCHANGED <<slotVars, queue, request_id, bgw_latch, op, slot, rid,
                 result, bgwVars, grpcVars>>

\* The request is over: copy what the answer says, release the slot; between the
\* two only an interrupt can intervene (CancelReport, Die).  When
\* fga_check is not OK it returns `allowed', which nothing has assigned.
Returned(b) ==
  LET ok == response[slot[b]].status = "OK"
  IN  CASE op[b] = "check" /\ ok ->
             {IF response[slot[b]].allow THEN "true" ELSE "false"}
        [] op[b] = "check" /\ ~ok -> {"true", "false"}
        [] op[b] # "check" -> {IF ok THEN "true" ELSE "error"}

Respond(b) ==
  /\ pc[b] = "respond"
  /\ \E r \in Returned(b) : End(b, r)
  /\ Release(slot[b])
  /\ UNCHANGED <<queue, request_id, latch, bgw_latch, bgwVars, grpcVars>>

\* The defensive branch of fga_channel_execute_slot.
CanceledRelease(b) ==
  /\ pc[b] = "canceledRelease"
  /\ Release(slot[b])
  /\ Raise(b)
  /\ UNCHANGED <<queue, request_id, latch, bgw_latch, bgwVars, grpcVars>>

\* CHECK_FOR_INTERRUPTS raises an ERROR: query cancel, statement_timeout.
\* The signal handler sets the latch, so WaitLatch returns.
Cancel(b) ==
  /\ "cancel" \in Env
  /\ Goto(b, "sleep", "catchRead")
  /\ latch' = [latch EXCEPT ![b] = FALSE]
  /\ UNCHANGED <<slotVars, queue, request_id, bgw_latch, op, slot, rid,
                 result, bgwVars, grpcVars>>

\* PG_CATCH of wait_response: read the state word, act on it, clear the pid.
CatchRead(b) ==
  /\ Goto(b, "catchRead",
          CASE state[slot[b]] \in {"PENDING", "PROCESSING"} -> "catchCancel"
            [] state[slot[b]] = "DONE" -> "catchDone"
            [] OTHER -> "catchPid")
  /\ UNCHANGED <<slotVars, queue, request_id, latch, bgw_latch, op, slot, rid,
                 result, bgwVars, grpcVars>>

CatchCancel(b) ==
  /\ Goto(b, "catchCancel", "catchPid")
  /\ WriteState(slot[b], "CANCELED")
  /\ UNCHANGED <<queue, request_id, latch, bgw_latch, op, slot, rid, result,
                 bgwVars, grpcVars>>

CatchDone(b) ==
  /\ Goto(b, "catchDone", "catchPid")
  /\ Release(slot[b])
  /\ UNCHANGED <<queue, request_id, latch, bgw_latch, op, slot, rid, result,
                 bgwVars, grpcVars>>

CatchPid(b) ==
  /\ pc[b] = "catchPid"
  /\ backend_pid' = [backend_pid EXCEPT ![slot[b]] = InvalidPid]
  /\ Raise(b)
  /\ UNCHANGED <<state, request, response, head, next, queue, request_id,
                 latch, bgw_latch, bgwVars, grpcVars>>

\* PG_CATCH of the SQL function.
CatchRelease(b) ==
  /\ pc[b] = "catchRelease"
  /\ Release(slot[b])
  /\ End(b, "error")
  /\ UNCHANGED <<queue, request_id, latch, bgw_latch, bgwVars, grpcVars>>

\* fga_check reports a failed RPC with ereport(INFO), which looks for interrupts
\* before the slot is released, and outside any PG_TRY.
Reporting(b) ==
  pc[b] = "respond" /\ op[b] = "check" /\ response[slot[b]].status # "OK"

CancelReport(b) ==
  /\ "cancel" \in Env
  /\ Reporting(b)
  /\ latch' = [latch EXCEPT ![b] = TRUE]
  /\ Raise(b)
  /\ UNCHANGED <<slotVars, queue, request_id, bgw_latch, bgwVars, grpcVars>>

\* CHECK_FOR_INTERRUPTS ends the process (FATAL): no PG_CATCH runs.
Die(b) ==
  /\ "die" \in Env
  /\ pc[b] = "sleep" \/ Reporting(b)
  /\ pc' = [pc EXCEPT ![b] = "gone"]
  /\ slot' = [slot EXCEPT ![b] = NULL]
  /\ op' = [op EXCEPT ![b] = "none"]
  /\ UNCHANGED <<slotVars, queue, request_id, latch, bgw_latch, rid, result,
                 bgwVars, grpcVars>>

\* The client of an idle backend disconnects.
Exit(b) ==
  /\ "exit" \in Env
  /\ Goto(b, "idle", "gone")
  /\ UNCHANGED <<slotVars, queue, request_id, latch, bgw_latch, op, slot, rid,
                 result, bgwVars, grpcVars>>

\* Another subsystem of the server sets the latch of a waiting backend.
OtherSignal(b) ==
  /\ "signal" \in Env
  /\ pc[b] = "sleep"
  /\ latch' = [latch EXCEPT ![b] = TRUE]
  /\ UNCHANGED <<slotVars, queue, request_id, bgw_latch, backendVars, bgwVars,
                 grpcVars>>

\* What the backend does by itself, and what is done to it.
BackendStep(b) ==
  \/ Prepare(b) \/ Fill(b) \/ Enqueue(b) \/ EnqueueFull(b) \/ Rollback(b)
  \/ WakeBgw(b) \/ Check(b) \/ Wake(b) \/ Respond(b) \/ CanceledRelease(b)
  \/ CatchRead(b) \/ CatchCancel(b) \/ CatchDone(b) \/ CatchPid(b)
  \/ CatchRelease(b)

EnvStep(b) ==
  \/ \E o \in Ops : Acquire(b, o)
  \/ AcquireFail(b) \/ FillError(b) \/ Cancel(b) \/ CancelReport(b)
  \/ Die(b) \/ Exit(b) \/ OtherSignal(b)

----------------------------------------------------------------------------
(***************************************************************************)
(* The background worker.                                                  *)
(***************************************************************************)

\* WaitLatch returns, ResetLatch.
BgwWake ==
  /\ bpc = "wait"
  /\ bgw_latch
  /\ bgw_latch' = FALSE
  /\ bpc' = "drain"
  /\ UNCHANGED <<slotVars, queue, request_id, latch, backendVars, batch,
                 items, batched, local, bslot, grpcVars>>

\* Mutant: the tail of the ring is not advanced.
DrainPeek ==
  LET n == IF Len(queue) < MaxBatch THEN Len(queue) ELSE MaxBatch
  IN  /\ bpc = "drain"
      /\ batch' = SubSeq(queue, 1, n)
      /\ bpc' = IF n = 0 THEN "swap" ELSE "begin"
      /\ UNCHANGED <<slotVars, queue, request_id, latch, bgw_latch,
                     backendVars, items, batched, local, bslot, grpcVars>>

\* fga_channel_drain_slots: up to MaxBatch indices under queue_lock.
Drain ==
  LET n == IF Len(queue) < MaxBatch THEN Len(queue) ELSE MaxBatch
  IN  /\ bpc = "drain"
      /\ batch' = SubSeq(queue, 1, n)
      /\ queue' = SubSeq(queue, n + 1, Len(queue))
      /\ bpc' = IF n = 0 THEN "swap" ELSE "begin"
      /\ UNCHANGED <<slotVars, request_id, latch, bgw_latch, backendVars,
                     items, batched, local, bslot, grpcVars>>

\* beginProcessing: the compare-and-swap on the next drained slot.
BeginProcessing ==
  /\ bpc = "begin"
  /\ batch # << >>
  /\ LET s == Head(batch)
     IN  /\ batch' = Tail(batch)
         /\ IF state[s] = "PENDING"
            THEN /\ WriteState(s, "PROCESSING")
                 /\ items' = Append(items, s)
            ELSE UNCHANGED <<slotVars, items>>
         /\ IF state[s] = "CANCELED"
            THEN bpc' = "beginRelease" /\ bslot' = s
            ELSE UNCHANGED <<bpc, bslot>>
  /\ UNCHANGED <<queue, request_id, latch, bgw_latch, backendVars, batched,
                 local, grpcVars>>

\* The backend gave the request up before the BGW began it.
BeginRelease ==
  /\ bpc = "beginRelease"
  /\ Release(bslot)
  /\ bpc' = "begin"
  /\ bslot' = NULL
  /\ UNCHANGED <<queue, request_id, latch, bgw_latch, backendVars, batch,
                 items, batched, local, grpcVars>>

\* The loop over the drained slots ends; several items go out as a batch.
BeginEnd ==
  /\ bpc = "begin"
  /\ batch = << >>
  /\ batched' = (Len(items) > 1)
  /\ bpc' = "issue"
  /\ UNCHANGED <<slotVars, queue, request_id, latch, bgw_latch, backendVars,
                 batch, items, local, bslot, grpcVars>>

\* Mutant: process_batch forgets the requests it cannot put in a BatchCheck.
IssueChecksOnly ==
  /\ bpc = "issue"
  /\ items # << >>
  /\ LET s == Head(items)
         k == IF batched THEN "batchCheck" ELSE request[s].type
     IN  IF request[s].type = "none" \/ (batched /\ request[s].type # "check")
         THEN UNCHANGED inflight
         ELSE inflight' = [inflight EXCEPT
                 ![[slot |-> s, id |-> request[s].id, kind |-> k]] = @ + 1]
  /\ items' = Tail(items)
  /\ UNCHANGED <<slotVars, queue, request_id, latch, bgw_latch, backendVars,
                 bpc, batch, batched, local, bslot, completed, signals>>

\* Client::process / process_batch for the next item: make_request_variant
\* looks at the type, the handler copies the request and starts the RPC.  A
\* payload of no known type is dropped, and with it the callback.
Issue ==
  /\ bpc = "issue"
  /\ items # << >>
  /\ LET s == Head(items)
         k == IF batched /\ request[s].type = "check" THEN "batchCheck"
              ELSE request[s].type
     IN  IF request[s].type = "none"
         THEN UNCHANGED inflight
         ELSE inflight' = [inflight EXCEPT
                 ![[slot |-> s, id |-> request[s].id, kind |-> k]] = @ + 1]
  /\ items' = Tail(items)
  /\ UNCHANGED <<slotVars, queue, request_id, latch, bgw_latch, backendVars,
                 bpc, batch, batched, local, bslot, completed, signals>>

IssueEnd ==
  /\ bpc = "issue"
  /\ items = << >>
  /\ bpc' = "swap"
  /\ batched' = FALSE
  /\ UNCHANGED <<slotVars, queue, request_id, latch, bgw_latch, backendVars,
                 batch, items, local, bslot, grpcVars>>

\* drainCompleted takes the whole completed_queue_ under completed_mu_.
SwapCompleted ==
  /\ bpc = "swap"
  /\ local' = completed
  /\ completed' = << >>
  /\ bpc' = "handle"
  /\ UNCHANGED <<slotVars, queue, request_id, latch, bgw_latch, backendVars,
                 batch, items, batched, bslot, signals, inflight>>

\* handleResponse reads the state word of the next completed slot.
HandleResponse ==
  /\ bpc = "handle"
  /\ local # << >>
  /\ bslot' = Head(local)
  /\ local' = Tail(local)
  /\ bpc' = IF state[Head(local)] = "CANCELED" THEN "handleRelease"
            ELSE "done"
  /\ UNCHANGED <<slotVars, queue, request_id, latch, bgw_latch, backendVars,
                 batch, items, batched, grpcVars>>

\* The backend gave up, or cannot be woken: the BGW returns the slot.
HandleRelease ==
  /\ bpc = "handleRelease"
  /\ Release(bslot)
  /\ bpc' = "handle"
  /\ bslot' = NULL
  /\ UNCHANGED <<queue, request_id, latch, bgw_latch, backendVars, batch,
                 items, batched, local, grpcVars>>

WriteDone ==
  /\ bpc = "done"
  /\ WriteState(bslot, "DONE")
  /\ bpc' = "wake"
  /\ UNCHANGED <<queue, request_id, latch, bgw_latch, backendVars, batch,
                 items, batched, local, bslot, grpcVars>>

\* BackendPidGetProc finds the pid only while the process lives.
Alive(p) == p \in Backends /\ pc[p] # "gone"

\* wakeBackend / fga_channel_wake_backend
WakeBackend ==
  /\ bpc = "wake"
  /\ IF Alive(backend_pid[bslot])
     THEN /\ latch' = [latch EXCEPT ![backend_pid[bslot]] = TRUE]
          /\ bpc' = "handle"
          /\ bslot' = NULL
     ELSE /\ bpc' = "handleRelease"
          /\ UNCHANGED <<latch, bslot>>
  /\ UNCHANGED <<slotVars, queue, request_id, bgw_latch, backendVars, batch,
                 items, batched, local, grpcVars>>

\* The round is over: back to WaitLatch.
HandleEnd ==
  /\ bpc = "handle"
  /\ local = << >>
  /\ bpc' = "wait"
  /\ UNCHANGED <<slotVars, queue, request_id, latch, bgw_latch, backendVars,
                 batch, items, batched, local, bslot, grpcVars>>

BgwStep ==
  \/ BgwWake \/ Drain \/ BeginProcessing \/ BeginRelease \/ BeginEnd
  \/ Issue \/ IssueEnd \/ SwapCompleted \/ HandleResponse \/ HandleRelease
  \/ WriteDone \/ WakeBackend \/ HandleEnd

----------------------------------------------------------------------------
(***************************************************************************)
(* gRPC callbacks, on threads of the BGW process.                          *)
(***************************************************************************)

Verdicts(k) ==
  Answers \cap (IF k \in {"check", "batchCheck"} THEN {"allow", "deny", "fail"}
                ELSE {"ok", "fail"})

\* The BatchCheck callback looks its answer up by the id it finds in the slot
\* now; an id that was not part of the batch is a CLIENT_ERROR.
Correlated(r) == r.kind = "batchCheck" => request[r.slot].id = r.id

\* What the callback of r stores when the RPC ended with v; only the check
\* callbacks touch the allow bit.
Reply(r, v) ==
  IF Correlated(r)
  THEN [status |-> IF v = "fail" THEN "CLIENT_ERROR" ELSE "OK",
        allow |-> IF r.kind \in {"check", "batchCheck"} THEN v = "allow"
                  ELSE response[r.slot].allow,
        of |-> r.id]
  ELSE [status |-> "CLIENT_ERROR", allow |-> FALSE, of |-> 0]

\* Mutant: enqueueCompleted does not set the worker's latch afterwards.
RpcCompleteSilent(r, v) ==
  /\ inflight[r] > 0
  /\ inflight' = [inflight EXCEPT ![r] = @ - 1]
  /\ response' = [response EXCEPT ![r.slot] = Reply(r, v)]
  /\ completed' = Append(completed, r.slot)
  /\ UNCHANGED <<state, backend_pid, request, head, next, queue, request_id,
                 latch, bgw_latch, backendVars, bgwVars, signals>>

\* The callback writes the response and pushes the slot (enqueueCompleted).
RpcComplete(r, v) ==
  /\ inflight[r] > 0
  /\ inflight' = [inflight EXCEPT ![r] = @ - 1]
  /\ response' = [response EXCEPT ![r.slot] = Reply(r, v)]
  /\ completed' = Append(completed, r.slot)
  /\ signals' = signals + 1
  /\ UNCHANGED <<state, backend_pid, request, head, next, queue, request_id,
                 latch, bgw_latch, backendVars, bgwVars>>

\* ... and then sets the BGW's latch.
RpcSignal ==
  /\ signals > 0
  /\ signals' = signals - 1
  /\ bgw_latch' = TRUE
  /\ UNCHANGED <<slotVars, queue, request_id, latch, backendVars, bgwVars,
                 completed, inflight>>

GrpcStep ==
  \/ \E r \in Rpc : \E v \in Verdicts(r.kind) : RpcComplete(r, v)
  \/ RpcSignal

----------------------------------------------------------------------------
\* Every call has returned and no other will be made: the bound is reached or
\* all clients have disconnected.
ClientsDone ==
  /\ \A b \in Backends : pc[b] \in {"idle", "gone"}
  /\ request_id = MaxRequests \/ \A b \in Backends : pc[b] = "gone"
  /\ UNCHANGED vars

Next ==
  \/ \E b \in Backends : BackendStep(b) \/ EnvStep(b)
  \/ BgwStep
  \/ GrpcStep
  \/ ClientsDone

Spec == Init /\ [][Next]_vars

\* A backend that can run does, so does the BGW, and every RPC ends because
\* each one is given a deadline.
Fairness ==
  /\ \A b \in Backends : WF_vars(BackendStep(b))
  /\ WF_vars(BgwStep)
  /\ \A r \in Rpc : WF_vars(\E v \in Verdicts(r.kind) : RpcComplete(r, v))
  /\ WF_vars(RpcSignal)

FairSpec == Spec /\ Fairness

----------------------------------------------------------------------------
TypeOK ==
  /\ state \in [Slots -> SlotStates]
  /\ backend_pid \in [Slots -> Backends \cup {InvalidPid}]
  /\ request \in [Slots -> Request]
  /\ response \in [Slots -> Response]
  /\ head \in Slots \cup {NULL}
  /\ next \in [Slots -> Slots \cup {NULL}]
  /\ queue \in Seq(Slots)
  /\ Len(queue) < QueueCapacity
  /\ request_id \in Ids
  /\ latch \in [Backends -> BOOLEAN]
  /\ bgw_latch \in BOOLEAN
  /\ pc \in [Backends -> BackendPC]
  /\ op \in [Backends -> Ops \cup {"none"}]
  /\ slot \in [Backends -> Slots \cup {NULL}]
  /\ rid \in [Backends -> Ids]
  /\ result \in [Backends -> {"none", "true", "false", "error"}]
  /\ bpc \in BgwPC
  /\ batch \in Seq(Slots)
  /\ items \in Seq(Slots)
  /\ batched \in BOOLEAN
  /\ local \in Seq(Slots)
  /\ bslot \in Slots \cup {NULL}
  /\ completed \in Seq(Slots)
  /\ signals \in Nat
  /\ inflight \in [Rpc -> Nat]

----------------------------------------------------------------------------
(***************************************************************************)
(* Where a request may be on its way through the BGW.                      *)
(***************************************************************************)
Elems(q) == {q[i] : i \in 1 .. Len(q)}
Distinct(q) == \A i, j \in 1 .. Len(q) : q[i] = q[j] => i = j

InFlight == {r \in Rpc : inflight[r] > 0}
InFlightSlots == {r.slot : r \in InFlight}
Closing == IF bpc = "done" THEN {bslot} ELSE {}

\* The slots the BGW and its gRPC threads have been handed and still refer to.
Waiting == Elems(queue) \cup Elems(batch)
Working == Elems(items) \cup InFlightSlots \cup Elems(completed)
             \cup Elems(local) \cup Closing
Refs == Waiting \cup Working

\* A backend whose request is with the BGW.
Outstanding == {"wakebgw", "check", "sleep"}

----------------------------------------------------------------------------
(***************************************************************************)
(* Properties.                                                             *)
(***************************************************************************)

\* Two calls of fga_channel_acquire_slot never hold the same slot, and a slot
\* that is held has not been returned to the pool behind its owner's back.
SlotExclusive ==
  /\ \A b, c \in Backends : b # c /\ slot[b] # NULL => slot[b] # slot[c]
  /\ \A b \in Backends : slot[b] # NULL => state[slot[b]] # "EMPTY"

\* The n-th node of the pool's free list.
FreeAt[n \in Nat] ==
  IF n = 0 THEN head
  ELSE IF FreeAt[n - 1] = NULL THEN NULL ELSE next[FreeAt[n - 1]]

\* Following the intrusive list from the head visits the EMPTY slots, each
\* once, and ends: nothing is released twice, nothing EMPTY is lost.
FreeListExact ==
  /\ FreeAt[SlotCount] = NULL
  /\ {FreeAt[n] : n \in 0 .. SlotCount} \ {NULL}
       = {s \in Slots : state[s] = "EMPTY"}

\* Slots that no call holds and that are not free: nobody will return them.
Lost == {s \in Slots : state[s] # "EMPTY" /\ \A b \in Backends : slot[b] # s}

\* The only way to lose a slot is fga_check's missing PG_CATCH, when store_id is
\* not set: the slot still has its request, and the BGW never heard of it.
LostOnlyByCheck ==
  \A s \in Lost : /\ "nostore" \in Env
                   /\ state[s] = "PENDING" /\ request[s].type = "check"
                   /\ s \notin Refs

\* "channel slot pool exhausted" is not raised as long as there is a slot for
\* every backend among those that are not lost.
ExhaustedOnlyByLoss ==
  head = NULL /\ (\E b \in Backends : pc[b] = "idle")
    => SlotCount < Cardinality(Backends) + Cardinality(Lost)

\* A request is in one stage of the BGW at a time, and there once: it is
\* drained once, sent once, and answered once.
RequestInOnePlace ==
  /\ Distinct(queue) /\ Distinct(batch) /\ Distinct(items)
  /\ Distinct(completed) /\ Distinct(local)
  /\ Waiting \cap Working = {}
  /\ Elems(queue) \cap Elems(batch) = {}
  /\ Elems(items) \cap (InFlightSlots \cup Elems(completed)) = {}
  /\ InFlightSlots \cap (Elems(completed) \cup Elems(local) \cup Closing) = {}
  /\ Elems(completed) \cap (Elems(local) \cup Closing) = {}
  /\ Elems(local) \cap Closing = {}
  /\ \A r, q \in InFlight : r.slot = q.slot => r = q
  /\ \A r \in InFlight : inflight[r] = 1

\* Whoever waits for an answer that is not there yet waits for a request the
\* BGW still refers to; and the BGW refers to no other slot.
NoOrphan ==
  /\ \A b \in Backends :
       pc[b] \in Outstanding /\ state[slot[b]] # "DONE" => slot[b] \in Refs
  /\ \A s \in Refs :
       \E b \in Backends : slot[b] = s /\ pc[b] \in Outstanding

\* The answer a SQL function reads from its slot is the answer to the request
\* that this call made, not to an earlier or another user of the slot.
AnswerIsMine ==
  \A b \in Backends : pc[b] = "respond" => response[slot[b]].of = rid[b]

\* A backend does not sleep through its answer: once the slot is DONE its
\* latch is set, or the BGW is just about to set it.
NoLostWakeup ==
  \A b \in Backends :
    pc[b] = "sleep" /\ state[slot[b]] = "DONE"
      => latch[b] \/ (bpc = "wake" /\ bslot = slot[b])

\* The BGW does not sleep while requests are queued unless something that is
\* under way is going to wake it, even if it drained only MaxBatch of them.
NoStrandedRequest ==
  bpc = "wait" /\ queue # << >>
    => \/ bgw_latch
       \/ \E b \in Backends : pc[b] = "wakebgw"
       \/ signals > 0
       \/ InFlightSlots # {}

\* The BGW does not sleep on an answer a gRPC thread has queued for it.
NoLostCompletion ==
  completed # << >>
    => \/ bgw_latch
       \/ signals > 0
       \/ bpc \in {"drain", "begin", "beginRelease", "issue", "swap"}

\* A gRPC callback writes its answer only into a slot that still carries the
\* request it was sent for, being PROCESSING: never into a reused payload.
RpcWritesOwnRequest ==
  [][\A r \in InFlight :
       inflight'[r] < inflight[r]
         => state[r.slot] = "PROCESSING" /\ request[r.slot].id = r.id]_vars

\* Every call of a SQL function returns or raises an error.
CallReturns ==
  \A b \in Backends : pc[b] # "idle" ~> pc[b] = "idle"

----------------------------------------------------------------------------
(***************************************************************************)
(* What comments and assertions of the code say, and a cancellation or a   *)
(* disconnect refutes.                                                     *)
(***************************************************************************)

\* wait_response asserts that the slot it was given carries the caller's pid.
WaitAssert ==
  [][\A b \in Backends : pc[b] = "wakebgw" /\ pc'[b] = "check"
                           => backend_pid[slot[b]] = b]_vars

\* A canceled slot is not put back on the free list by the backend that
\* canceled it: "the BGW handles that".
CanceledLeftToBgw ==
  [][\A s \in Slots : state[s] = "CANCELED" /\ state'[s] = "EMPTY"
                        => bpc \in {"beginRelease", "handleRelease"}]_vars

\* The BGW does return the slot of every request its backend gave up.
CanceledReturned ==
  \A s \in Slots : state[s] = "CANCELED" ~> state[s] # "CANCELED"
=============================================================================

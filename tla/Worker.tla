------------------------------- MODULE Worker -------------------------------
(***************************************************************************)
(* The life of the background worker: it registers its latch in shared     *)
(* memory, loads its settings, serves in a loop, reloads on SIGHUP, leaves *)
(* on SIGTERM or through an exception, and is started again by the         *)
(* postmaster.  Calls go on meanwhile.                                     *)
(*                                                                         *)
(* The hand-over of slots between a backend and the worker is the subject  *)
(* of module Channel; here a call is one request per backend, queued,      *)
(* drained, sent by the client (GrpcClient) and answered, without cancel,  *)
(* and a round of Processor::execute is two steps.                         *)
(***************************************************************************)
EXTENDS GrpcClient, FiniteSets

CONSTANTS
  Backends,      \* each has at most one request
  Types,         \* the requests they make
  Stores,        \* what sessions may have set fga.store_id to
  Settings,      \* endpoint and timeout, as load_config_from_guc reads them
  Unset,         \* the settings with an empty endpoint
  MaxBatch,      \* MAX_BATCH of Processor::execute
  MaxCalls,      \* bound: how many calls a behaviour may begin
  MaxFaults,     \* bound: how many exceptions and crashes
  MaxReloads,    \* bound: how many SIGHUPs
  Env,           \* what may happen: see AllEnv
  NULL

\* An exception, a SIGHUP, a SIGTERM, the crash of a process.
AllEnv == {"error", "reload", "term", "crash"}

ASSUME TypesAssumption == Types \subseteq RequestTypes \ {"getStore", "invalid"}
ASSUME SettingsAssumption == Unset \subseteq Settings /\ NULL \notin Settings
ASSUME BoundsAssumption ==
  /\ MaxBatch \in Nat \ {0}
  /\ MaxCalls \in Nat /\ MaxFaults \in Nat /\ MaxReloads \in Nat
ASSUME EnvAssumption == Env \subseteq AllEnv

VARIABLES
  state, request, response,    \* the slot of each backend's request
  queue,                       \* requests in the ring, oldest first
  bgw_latch,                   \* FgaState.bgw_latch
  pc,                          \* a backend: idle, about to wake, waiting
  wpc,                         \* the worker: where it is
  latch,                       \* its MyLatch is set
  reload_requested, shutdown_requested,
  config,                      \* the settings process() compares with
  processor,                   \* the settings of the Processor, or NULL
  completed,                   \* its completed_queue_, read all at once: a set
  inflight,                    \* RPCs that have not ended
  setting,                     \* the postmaster's settings
  calls, faults, reloads,      \* bounds: how many there have been
  registered,                  \* history: a worker has been up since start-up
  changed,                     \* history: the settings have changed
  ended                        \* history: how the RPC of a request ended

slotVars == <<state, request, response>>
signalVars == <<reload_requested, shutdown_requested>>
processorVars == <<processor, completed, inflight>>
envVars == <<setting, calls, faults, reloads, changed>>
vars == <<slotVars, queue, bgw_latch, pc, wpc, latch, signalVars, config,
          processorVars, envVars, registered, ended>>

States == {"EMPTY", "PENDING", "PROCESSING", "DONE"}
Request == [id : Backends, type : Types, store : Stores]

ASSUME NullAssumption == NULL \notin {"current", "stale"} \cup Request

\* Where the worker runs process(), and the places before and after.
Loop == {"wait", "reload", "execute", "complete"}
Alive == Loop \cup {"starting", "leaving"}
WorkerPC == Alive \cup {"down", "stopped"}

\* An RPC that is under way: how it was made and for whom.
Rpc == [method : Types \cup {"batchCheck"}, items : SUBSET Backends,
        store : Stores \cup {"none"}]

Elems(q) == {q[i] : i \in 1 .. Len(q)}
InFlight == UNION {rpc.items : rpc \in inflight}

\* _initialize_state: the shared memory of a fresh server, or of one that
\* the postmaster has reset after a crash.
Init ==
  /\ state = [b \in Backends |-> "EMPTY"]
  /\ request = [b \in Backends |-> NULL]
  /\ response = [b \in Backends |-> ZeroReply]
  /\ queue = << >>
  /\ bgw_latch = NULL
  /\ pc = [b \in Backends |-> "idle"]
  /\ wpc = "down"
  /\ latch = FALSE
  /\ reload_requested = FALSE
  /\ shutdown_requested = FALSE
  /\ config = NULL
  /\ processor = NULL
  /\ completed = {}
  /\ inflight = {}
  /\ setting \in Settings
  /\ calls = 0
  /\ faults = 0
  /\ reloads = 0
  /\ registered = FALSE
  /\ changed = FALSE
  /\ ended = [b \in Backends |-> "none"]

----------------------------------------------------------------------------
(***************************************************************************)
(* Calls                                                                   *)
(***************************************************************************)

\* A SQL function has filled its slot and queued it.
Call(b, t, s) ==
  /\ pc[b] = "idle"
  /\ calls < MaxCalls
  /\ calls' = calls + 1
  /\ pc' = [pc EXCEPT ![b] = "wake"]
  /\ state' = [state EXCEPT ![b] = "PENDING"]
  /\ request' = [request EXCEPT ![b] = [id |-> b, type |-> t, store |-> s]]
  /\ queue' = Append(queue, b)
  /\ UNCHANGED <<response, bgw_latch, wpc, latch, signalVars, config, processorVars,
                 setting, faults, reloads, changed, registered, ended>>

\* SetLatch(bgw_latch): the latch may be that of a worker that has gone.
fga_wake_bgw(b) ==
  /\ pc[b] = "wake"
  /\ bgw_latch # NULL
  /\ pc' = [pc EXCEPT ![b] = "waiting"]
  /\ latch' = (latch \/ bgw_latch = "current")
  /\ UNCHANGED <<slotVars, queue, bgw_latch, wpc, signalVars, config, processorVars,
                 envVars, registered, ended>>

\* The answer is there: the slot is released and the call returns.  What stays
\* in the slot is overwritten before anyone reads it, and is forgotten here.
Return(b) ==
  /\ pc[b] = "waiting"
  /\ state[b] = "DONE"
  /\ pc' = [pc EXCEPT ![b] = "idle"]
  /\ state' = [state EXCEPT ![b] = "EMPTY"]
  /\ request' = [request EXCEPT ![b] = NULL]
  /\ response' = [response EXCEPT ![b] = ZeroReply]
  /\ ended' = [ended EXCEPT ![b] = "none"]
  /\ UNCHANGED <<queue, bgw_latch, wpc, latch, signalVars, config, processorVars,
                 envVars, registered>>

----------------------------------------------------------------------------
(***************************************************************************)
(* Start and end of the worker process                                     *)
(***************************************************************************)

\* The postmaster starts the worker: at first, and again after bgw_restart_time
\* when it left with exit code 1.  The latch of a new process is set, and the
\* process has the settings the postmaster has at this moment.
Start ==
  /\ wpc = "down"
  /\ wpc' = "starting"
  /\ latch' = TRUE
  /\ config' = setting
  /\ UNCHANGED <<slotVars, queue, bgw_latch, pc, signalVars, processorVars, envVars,
                 registered, ended>>

\* The while condition of the loop.
Again == wpc' = IF shutdown_requested THEN "leaving" ELSE "wait"

\* Mutant: a Processor whatever the endpoint.
EmplacedAlways(s) == s

\* A Processor for settings s, or none if they have no endpoint.
Emplaced(s) == IF s \in Unset THEN NULL ELSE s

\* Mutant: the latch in shared memory is left as it was.
RunUnregistered ==
  /\ wpc = "starting"
  /\ Again
  /\ registered' = TRUE
  /\ processor' = Emplaced(config)
  /\ bgw_latch' = IF bgw_latch = NULL THEN "current" ELSE bgw_latch
  /\ UNCHANGED <<slotVars, queue, pc, latch, signalVars, config, completed, inflight,
                 envVars, ended>>

\* Worker::run registers the latch, process() takes the settings.
Run ==
  /\ wpc = "starting"
  /\ Again
  /\ registered' = TRUE
  /\ bgw_latch' = "current"
  /\ processor' = Emplaced(config)
  /\ UNCHANGED <<slotVars, queue, pc, latch, signalVars, config, completed, inflight,
                 envVars, ended>>

\* What was in the memory of the process is gone with it.
ProcessGone ==
  /\ processor' = NULL
  /\ completed' = {}
  /\ inflight' = {}
  /\ config' = NULL
  /\ latch' = FALSE
  /\ reload_requested' = FALSE
  /\ shutdown_requested' = FALSE

\* run() returns: the latch is taken out of shared memory, proc_exit(0), and
\* the postmaster does not start the worker again.
Leave ==
  /\ wpc = "leaving"
  /\ wpc' = "stopped"
  /\ bgw_latch' = NULL
  /\ ProcessGone
  /\ UNCHANGED <<slotVars, queue, pc, envVars, registered, ended>>

\* Mutant: the latch is taken out of shared memory on this way out as well.
LatchAfterErrorCleared == NULL

\* An exception leaves run() through ereport(ERROR): nobody touches bgw_latch,
\* and the structure it points to is soon no longer this worker's.
LatchAfterError == "stale"

\* The exception may come in the middle of execute, when n requests have been
\* drained and the first m of them begun: these are nowhere any more.
ErrorExit(n, m) ==
  /\ "error" \in Env
  /\ wpc \in Loop
  /\ faults < MaxFaults
  /\ faults' = faults + 1
  /\ n > 0 => wpc = "execute" /\ processor # NULL /\ n <= MaxBatch
  /\ queue' = SubSeq(queue, n + 1, Len(queue))
  /\ state' = [b \in Backends |-> IF b \in Elems(SubSeq(queue, 1, m))
                                  THEN "PROCESSING" ELSE state[b]]
  /\ wpc' = "down"
  /\ bgw_latch' = LatchAfterError
  /\ ProcessGone
  /\ UNCHANGED <<request, response, pc, setting, calls, reloads, changed, registered,
                 ended>>

\* The end of a process by a signal, the worker's or a backend's: the
\* postmaster ends all the others and sets shared memory up anew.  A worker
\* that has left with exit code 0 is not started again even now.
Reset ==
  /\ state' = [b \in Backends |-> "EMPTY"]
  /\ pc' = [b \in Backends |-> "idle"]
  /\ request' = [b \in Backends |-> NULL]
  /\ response' = [b \in Backends |-> ZeroReply]
  /\ ended' = [b \in Backends |-> "none"]
  /\ queue' = << >>
  /\ bgw_latch' = NULL
  /\ registered' = FALSE
  /\ wpc' = IF wpc = "stopped" THEN "stopped" ELSE "down"
  /\ ProcessGone
  /\ UNCHANGED <<setting, calls, reloads, changed>>

WorkerCrash ==
  /\ "crash" \in Env
  /\ wpc \in Alive
  /\ faults < MaxFaults
  /\ faults' = faults + 1
  /\ Reset

\* fga_wake_bgw with no latch registered: SetLatch(NULL) ends the backend.
WakeCrash(b) ==
  /\ pc[b] = "wake"
  /\ bgw_latch = NULL
  /\ Reset
  /\ UNCHANGED faults

----------------------------------------------------------------------------
(***************************************************************************)
(* Signals and settings                                                    *)
(***************************************************************************)

\* The postmaster has re-read its configuration file, with or without a
\* change, and passes SIGHUP on: bgw_sighup_handler.
Sighup(s) ==
  /\ "reload" \in Env
  /\ reloads < MaxReloads
  /\ reloads' = reloads + 1
  /\ setting' = s
  /\ changed' = (changed \/ s # setting)
  /\ reload_requested' = (reload_requested \/ wpc \in Alive)
  /\ latch' = (latch \/ wpc \in Alive)
  /\ UNCHANGED <<slotVars, queue, bgw_latch, pc, wpc, shutdown_requested, config,
                 processorVars, calls, faults, registered, ended>>

\* bgw_sigterm_handler
Sigterm ==
  /\ "term" \in Env
  /\ wpc \in Alive
  /\ ~shutdown_requested
  /\ shutdown_requested' = TRUE
  /\ latch' = TRUE
  /\ UNCHANGED <<slotVars, queue, bgw_latch, pc, wpc, reload_requested, config,
                 processorVars, envVars, registered, ended>>

----------------------------------------------------------------------------
(***************************************************************************)
(* The loop                                                                *)
(***************************************************************************)

WaitLatch ==
  /\ wpc = "wait"
  /\ latch
  /\ latch' = FALSE
  /\ wpc' = "reload"
  /\ UNCHANGED <<slotVars, queue, bgw_latch, pc, signalVars, config, processorVars,
                 envVars, registered, ended>>

\* Mutant: every SIGHUP builds a new Processor.
DiffersAlways(s) == TRUE

\* new_config != config, where config is what process() began with.
Differs(s) == s # config

\* A new Processor is built where the old one was, so that callbacks under way
\* will find the new one; what the old one had completed is lost.
HandleReload ==
  /\ wpc = "reload"
  /\ wpc' = "execute"
  /\ reload_requested' = FALSE
  /\ IF reload_requested /\ Differs(setting)
     THEN processor' = Emplaced(setting) /\ completed' = {}
     ELSE UNCHANGED <<processor, completed>>
  /\ UNCHANGED <<slotVars, queue, bgw_latch, pc, latch, shutdown_requested, config,
                 inflight, envVars, registered, ended>>

\* The first half of Processor::execute: drain, begin, hand over to the client.
Execute ==
  LET n == IF Len(queue) < MaxBatch THEN Len(queue) ELSE MaxBatch
      drained == SubSeq(queue, 1, n)
  IN  /\ wpc = "execute"
      /\ processor # NULL
      /\ wpc' = "complete"
      /\ queue' = SubSeq(queue, n + 1, Len(queue))
      /\ state' = [b \in Backends |-> IF b \in Elems(drained) THEN "PROCESSING"
                                      ELSE state[b]]
      /\ inflight' = inflight \cup
           process_batch([i \in 1 .. n |-> request[drained[i]]])
      /\ UNCHANGED <<request, response, bgw_latch, pc, latch, signalVars, config,
                     processor, completed, envVars, registered, ended>>

\* No Processor, nothing to do.
Skip ==
  /\ wpc = "execute"
  /\ processor = NULL
  /\ Again
  /\ UNCHANGED <<slotVars, queue, bgw_latch, pc, latch, signalVars, config,
                 processorVars, envVars, registered, ended>>

\* drainCompleted
Complete ==
  /\ wpc = "complete"
  /\ Again
  /\ state' = [b \in Backends |-> IF b \in completed THEN "DONE" ELSE state[b]]
  /\ completed' = {}
  /\ UNCHANGED <<request, response, queue, bgw_latch, pc, latch, signalVars, config,
                 processor, inflight, envVars, registered, ended>>

----------------------------------------------------------------------------
(***************************************************************************)
(* The callbacks, on threads of the worker process: responses are written  *)
(* into the slots, the requests go to completed_queue_ of the Processor    *)
(* that is there now.                                                      *)
(***************************************************************************)

Answered(rpc, outcome) ==
  /\ inflight' = inflight \ {rpc}
  /\ response' = [b \in Backends |->
                    IF b \in rpc.items THEN callback(outcome[b]) ELSE response[b]]
  /\ ended' = [b \in Backends |->
                 IF b \in rpc.items THEN outcome[b] ELSE ended[b]]

RpcEnd(rpc, outcome) ==
  /\ processor # NULL
  /\ Answered(rpc, outcome)
  /\ completed' = completed \cup rpc.items
  /\ latch' = TRUE
  /\ UNCHANGED <<state, request, queue, bgw_latch, pc, wpc, signalVars, config,
                 processor, envVars, registered>>

\* The Processor was destroyed (reset): the callback pushes into what is left
\* of it, which nobody reads, or crashes.
RpcEndNowhere(rpc, outcome) ==
  /\ processor = NULL
  /\ \/ /\ Answered(rpc, outcome)
        /\ latch' = TRUE
        /\ UNCHANGED <<state, request, queue, bgw_latch, pc, wpc, signalVars, config,
                       processor, completed, envVars, registered>>
     \/ Reset /\ UNCHANGED faults

----------------------------------------------------------------------------
WorkerStep ==
  Start \/ Run \/ Leave \/ WaitLatch \/ HandleReload \/ Execute \/ Skip \/ Complete

Callback ==
  \E rpc \in inflight : \E outcome \in Outcomes(rpc) :
    RpcEnd(rpc, outcome) \/ RpcEndNowhere(rpc, outcome)

\* All calls have been made and answered; or they wait, for an answer or for a
\* worker, that will not come.
Quiet ==
  /\ \A b \in Backends : pc[b] # "wake" /\ (pc[b] = "idle" => calls = MaxCalls)
  /\ UNCHANGED vars

Next ==
  \/ \E b \in Backends, t \in Types, s \in Stores : Call(b, t, s)
  \/ \E b \in Backends : fga_wake_bgw(b) \/ WakeCrash(b) \/ Return(b)
  \/ WorkerStep
  \/ Callback
  \/ \E n \in 0 .. Len(queue) : \E m \in 0 .. n : ErrorExit(n, m)
  \/ WorkerCrash
  \/ \E s \in Settings : Sighup(s)
  \/ Sigterm
  \/ Quiet

Spec == Init /\ [][Next]_vars

\* The worker runs and is started again, backends run, RPCs end by their
\* deadline.  Nothing is assumed of calls, signals and faults.
Fairness ==
  /\ WF_vars(WorkerStep)
  /\ WF_vars(Callback)
  /\ \A b \in Backends : WF_vars(fga_wake_bgw(b) \/ Return(b))

FairSpec == Spec /\ Fairness

----------------------------------------------------------------------------
TypeOK ==
  /\ state \in [Backends -> States]
  /\ request \in [Backends -> Request \cup {NULL}]
  /\ response \in [Backends -> Reply]
  /\ queue \in Seq(Backends)
  /\ bgw_latch \in {NULL, "current", "stale"}
  /\ pc \in [Backends -> {"idle", "wake", "waiting"}]
  /\ wpc \in WorkerPC
  /\ latch \in BOOLEAN
  /\ reload_requested \in BOOLEAN
  /\ shutdown_requested \in BOOLEAN
  /\ config \in Settings \cup {NULL}
  /\ processor \in (Settings \ Unset) \cup {NULL}
  /\ completed \subseteq Backends
  /\ inflight \subseteq Rpc
  /\ setting \in Settings
  /\ calls \in 0 .. MaxCalls
  /\ faults \in 0 .. MaxFaults
  /\ reloads \in 0 .. MaxReloads
  /\ registered \in BOOLEAN
  /\ changed \in BOOLEAN
  /\ ended \in [Backends -> Decided \cup {"none", "error", "absent", "failed"}]

\* A call that is answered OK was decided by the server, with that verdict: a
\* response that was never filled in reads as OK and "denied", since status 0
\* is OK, but none is handed out.
OkIsDecided ==
  \A b \in Backends :
    state[b] = "DONE" /\ response[b].status = "OK"
      => ended[b] \in Decided /\ (response[b].allow <=> ended[b] = "allowed")

\* A request whose processing has begun is with the client or among the
\* completed ones: it cannot be forgotten as long as no process has failed and
\* the settings have not changed, however often they are reloaded.
SighupHarmless ==
  faults = 0 /\ ~changed /\ wpc # "stopped" =>
    \A b \in Backends : state[b] = "PROCESSING" => b \in InFlight \cup completed

\* A backend meets no latch at all, and takes the server down, only before the
\* first worker has registered or after an orderly shutdown: the latch of a
\* worker that failed stays, to be set in vain, until the next one registers.
NoLatchOnlyOutsideService ==
  \A b \in Backends :
    pc[b] = "wake" /\ bgw_latch = NULL => ~registered \/ wpc = "stopped"

\* What is queued is drained, across failures and restarts of the worker and
\* wake-ups sent to a worker that has gone, if there is a Processor in the end.
QueuedServed ==
  <>[](processor # NULL) =>
    \A b \in Backends : b \in Elems(queue) ~> b \notin Elems(queue)

----------------------------------------------------------------------------
(***************************************************************************)
(* What texts of the repository say and the code refutes.                  *)
(***************************************************************************)

\* A reload that has been handled is in force.
ReloadApplied ==
  wpc = "execute" /\ ~reload_requested => processor = Emplaced(setting)

\* Every check is evaluated in the store its session has set.
OwnStore ==
  \A rpc \in inflight : \A b \in rpc.items :
    rpc.method # "createStore" => rpc.store = request[b].store
=============================================================================

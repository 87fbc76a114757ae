---------------------------- MODULE WorkerProofs ----------------------------
(***************************************************************************)
(* Machine-checked proofs about the life of the worker, for any number of  *)
(* backends, calls, reloads, exceptions and crashes, and any batch size.   *)
(***************************************************************************)
EXTENDS Worker, SequenceTheorems, WellFoundedInduction, TLAPS

\* A request waits in the queue once, and has not been begun.
QueueInv ==
  /\ \A i, j \in 1 .. Len(queue) : queue[i] = queue[j] => i = j
  /\ \A i \in 1 .. Len(queue) : state[queue[i]] = "PENDING"

\* A backend that is in a call has filled its slot in; one that is not has none.
SlotInv ==
  \A b \in Backends :
    /\ pc[b] = "idle" => state[b] = "EMPTY"
    /\ pc[b] # "idle" => request[b] \in Request /\ request[b].id = b

\* What the client has been given or has answered has been begun, and is in one
\* RPC, or answered, but not both.
WorkInv ==
  /\ \A b \in completed : state[b] = "PROCESSING"
  /\ \A rpc \in inflight : \A b \in rpc.items : state[b] = "PROCESSING" /\ b \notin completed
  /\ \A r1, r2 \in inflight : \A b \in r1.items : b \in r2.items => r1 = r2

\* A request that is completed or done carries what its callback wrote.
AnswerInv ==
  \A b \in Backends :
    state[b] = "DONE" \/ b \in completed
      => ended[b] # "none" /\ response[b] = callback(ended[b])

\* A process that is not in its loop has nothing under way; while the settings
\* stay as they are the worker has the settings of the postmaster, and what is
\* under way has a Processor to return to.
LifeInv ==
  /\ wpc \in {"down", "starting", "stopped"} => inflight = {} /\ completed = {}
  /\ ~changed /\ wpc \in Alive => config = setting
  /\ ~changed /\ inflight # {} => processor # NULL

\* The latch that is registered is taken away by an orderly end alone.
LatchInv == bgw_latch = NULL => ~registered \/ wpc = "stopped"

WorkerInv == TypeOK /\ QueueInv /\ SlotInv /\ WorkInv

----------------------------------------------------------------------------
(***************************************************************************)
(* Sequences and the client                                                *)
(***************************************************************************)

\* A non-empty set of numbers has a least one.
LEMMA MinExists ==
  ASSUME NEW T \in SUBSET Nat, T # {}
  PROVE \E i \in T : \A j \in T : i <= j
<1>1. PICK R : /\ IsWellFoundedOn(R, Nat)
               /\ \A x, y \in Nat : <<x, y>> \in R <=> x < y
  <2> DEFINE R == OpToRel(<, Nat)
  <2>1. IsWellFoundedOn(R, Nat)
    BY NatLessThanWellFounded
  <2>2. \A x, y \in Nat : <<x, y>> \in R <=> x < y
    BY DEF OpToRel
  <2> HIDE DEF R
  <2>3. QED
    BY <2>1, <2>2
<1>2. \E x \in T : \A y \in T : ~(<<y, x>> \in R)
  <2>1. T \subseteq Nat
    OBVIOUS
  <2>2. IsWellFoundedOn(R, Nat)
    BY <1>1
  <2>3. QED
    BY <2>1, <2>2, WFMin
<1>3. PICK x \in T : \A y \in T : ~(<<y, x>> \in R)
  BY <1>2
<1>4. ASSUME NEW y \in T PROVE x <= y
  <2>1. x \in Nat /\ y \in Nat
    OBVIOUS
  <2>2. ~(y < x)
    BY <1>1, <1>3, <2>1
  <2>3. QED
    BY <2>1, <2>2
<1>5. QED BY <1>4

\* A queue that is cut in two.
LEMMA CutQueue ==
  ASSUME NEW q \in Seq(Backends), NEW n \in 0 .. Len(q)
  PROVE  /\ SubSeq(q, 1, n) \in Seq(Backends)
         /\ Len(SubSeq(q, 1, n)) = n
         /\ \A i \in 1 .. n : SubSeq(q, 1, n)[i] = q[i]
         /\ SubSeq(q, n + 1, Len(q)) \in Seq(Backends)
         /\ Len(SubSeq(q, n + 1, Len(q))) = Len(q) - n
         /\ \A i \in 1 .. Len(q) - n : SubSeq(q, n + 1, Len(q))[i] = q[n + i]
OBVIOUS

\* The first check of a round is one of its requests.
LEMMA FirstCheck ==
  ASSUME NEW items \in Seq(Request), Checks(items) # {}
  PROVE  First(Checks(items)) \in Checks(items)
<1>1. Checks(items) \in SUBSET Nat
  BY DEF Checks
<1>2. PICK i \in Checks(items) : \A j \in Checks(items) : i <= j
  BY <1>1, MinExists
<1>3. QED
  BY <1>2 DEF First

\* The RPC of a request that is sent alone.
LEMMA SingleRpc ==
  ASSUME NEW item \in Request
  PROVE  /\ handle_request(item) \subseteq Rpc
         /\ handle_request(item) # {}
         /\ \A rpc \in handle_request(item) :
              /\ rpc.items = {item.id}
              /\ handle_request(item) = {rpc}
<1>1. /\ item.id \in Backends /\ item.type \in Types /\ item.store \in Stores
      /\ item.type \notin {"getStore", "invalid"}
  BY TypesAssumption DEF Request
<1> DEFINE where == IF item.type = "createStore" THEN "none" ELSE item.store
           rpc == [method |-> item.type, items |-> {item.id}, store |-> where]
<1>2. where \in Stores \cup {"none"}
  BY <1>1
<1>3. handle_request(item) = {rpc}
  BY <1>1 DEF handle_request
<1> HIDE DEF where
<1>4. rpc \in Rpc
  BY <1>1, <1>2 DEF Rpc
<1>5. rpc.items = {item.id}
  OBVIOUS
<1> HIDE DEF rpc
<1>6. QED
  BY <1>3, <1>4, <1>5

\* The RPC for the checks of a round.
LEMMA BatchRpc ==
  ASSUME NEW items \in Seq(Request)
  PROVE  /\ handle_check_batch(items) \subseteq Rpc
         /\ Checks(items) # {} => handle_check_batch(items) # {}
         /\ \A rpc \in handle_check_batch(items) :
              /\ rpc.items = {items[i].id : i \in Checks(items)}
              /\ handle_check_batch(items) = {rpc}
<1>1. CASE Checks(items) = {}
  BY <1>1 DEF handle_check_batch
<1>2. CASE Checks(items) # {}
  <2> DEFINE ids == {items[i].id : i \in Checks(items)}
             first == First(Checks(items))
  <2>1. first \in 1 .. Len(items)
    BY <1>2, FirstCheck DEF Checks
  <2>2. \A i \in 1 .. Len(items) :
          items[i] \in Request /\ items[i].id \in Backends /\ items[i].store \in Stores
    <3> TAKE i \in 1 .. Len(items)
    <3>1. items[i] \in Request
      OBVIOUS
    <3>2. QED
      BY <3>1 DEF Request
  <2>3. ids \in SUBSET Backends
    BY <2>2 DEF Checks
  <2>4. handle_check_batch(items)
          = {[method |-> "batchCheck", items |-> ids, store |-> items[first].store]}
    BY <1>2 DEF handle_check_batch
  <2> HIDE DEF ids, first
  <2>5. [method |-> "batchCheck", items |-> ids, store |-> items[first].store] \in Rpc
    BY <2>1, <2>2, <2>3 DEF Rpc
  <2>6. \A rpc \in handle_check_batch(items) :
          rpc.items = ids /\ handle_check_batch(items) = {rpc}
    BY <2>4
  <2>7. QED
    BY <2>4, <2>5, <2>6 DEF ids
<1>3. QED
  BY <1>1, <1>2

\* A round of requests of different backends becomes RPCs in which each of them
\* is, and is once.
LEMMA RoundRpcs ==
  ASSUME NEW items \in Seq(Request),
         \A i, j \in 1 .. Len(items) : items[i].id = items[j].id => i = j
  PROVE  /\ process_batch(items) \subseteq Rpc
         /\ \A i \in 1 .. Len(items) : \E rpc \in process_batch(items) : items[i].id \in rpc.items
         /\ \A rpc \in process_batch(items) : \A b \in rpc.items :
              \E i \in 1 .. Len(items) : b = items[i].id
         /\ \A r1, r2 \in process_batch(items) : \A b \in r1.items : b \in r2.items => r1 = r2
<1>0. \A i \in 1 .. Len(items) : items[i] \in Request
  OBVIOUS
<1>1. CASE Len(items) = 1
  BY <1>0, <1>1, SingleRpc DEF process_batch
<1>2. CASE Len(items) # 1
  <2> DEFINE others == (1 .. Len(items)) \ Checks(items)
             singles == UNION {handle_request(items[i]) : i \in others}
             batch == handle_check_batch(items)
  <2>1. process_batch(items) = singles \cup batch
    BY <1>2 DEF process_batch
  <2>2. Checks(items) \subseteq 1 .. Len(items)
    BY DEF Checks
  <2>3. \A rpc \in singles : \E i \in others : rpc.items = {items[i].id}
                                               /\ handle_request(items[i]) = {rpc}
    BY <1>0, SingleRpc
  <2>4. \A i \in others : \E rpc \in singles : rpc.items = {items[i].id}
    BY <1>0, SingleRpc
  <2>5. singles \subseteq Rpc
    BY <1>0, SingleRpc
  <2>6. /\ batch \subseteq Rpc
        /\ Checks(items) # {} => batch # {}
        /\ \A rpc \in batch : rpc.items = {items[i].id : i \in Checks(items)}
                              /\ batch = {rpc}
    BY BatchRpc
  <2> HIDE DEF singles, batch
  <2>7. \A i \in 1 .. Len(items) : \E rpc \in singles \cup batch : items[i].id \in rpc.items
    <3> TAKE i \in 1 .. Len(items)
    <3>1. CASE i \in others
      BY <2>4, <3>1
    <3>2. CASE i \in Checks(items)
      BY <2>6, <3>2
    <3>3. QED
      BY <3>1, <3>2
  <2>8. \A rpc \in singles \cup batch : \A b \in rpc.items :
          \E i \in 1 .. Len(items) : b = items[i].id
    BY <2>2, <2>3, <2>6
  <2>9. \A r1, r2 \in singles \cup batch : \A b \in r1.items : b \in r2.items => r1 = r2
    <3> SUFFICES ASSUME NEW r1 \in singles \cup batch, NEW r2 \in singles \cup batch,
                        NEW b \in r1.items, b \in r2.items
                 PROVE  r1 = r2
      OBVIOUS
    <3>1. CASE r1 \in singles /\ r2 \in singles
      <4>1. PICK i \in others : r1.items = {items[i].id} /\ handle_request(items[i]) = {r1}
        BY <2>3, <3>1
      <4>2. PICK j \in others : r2.items = {items[j].id} /\ handle_request(items[j]) = {r2}
        BY <2>3, <3>1
      <4>3. i = j
        BY <4>1, <4>2
      <4>4. QED
        BY <4>1, <4>2, <4>3
    <3>2. CASE r1 \in batch /\ r2 \in batch
      BY <2>6, <3>2
    <3>3. ASSUME NEW s \in singles, NEW t \in batch, b \in s.items, b \in t.items
          PROVE  FALSE
      <4>1. PICK i \in others : b = items[i].id
        BY <2>3, <3>3
      <4>2. PICK j \in Checks(items) : b = items[j].id
        BY <2>6, <3>3
      <4>3. QED
        BY <2>2, <4>1, <4>2
    <3>4. QED
      BY <3>1, <3>2, <3>3
  <2>10. QED
    BY <2>1, <2>5, <2>6, <2>7, <2>8, <2>9
<1>3. QED
  BY <1>1, <1>2

----------------------------------------------------------------------------
(***************************************************************************)
(* The round of Execute                                                    *)
(***************************************************************************)

\* How much Execute takes, and what it makes of it.
Taken == IF Len(queue) < MaxBatch THEN Len(queue) ELSE MaxBatch
Drained == SubSeq(queue, 1, Taken)
Round == [i \in 1 .. Taken |-> request[Drained[i]]]

\* What is drained is the beginning of the queue, each element the request of
\* its own backend.
LEMMA RoundFacts ==
  ASSUME WorkerInv
  PROVE  /\ Taken \in 0 .. Len(queue)
         /\ Elems(Drained) = {queue[i] : i \in 1 .. Taken}
         /\ Elems(Drained) \subseteq Backends
         /\ Round \in Seq(Request) /\ Len(Round) = Taken
         /\ \A i \in 1 .. Taken : Round[i].id = queue[i]
         /\ \A i, j \in 1 .. Len(Round) : Round[i].id = Round[j].id => i = j
<1>1. queue \in Seq(Backends) /\ Len(queue) \in Nat
  BY DEF WorkerInv, TypeOK
<1>2. Taken \in 0 .. Len(queue)
  BY <1>1, BoundsAssumption DEF Taken
<1>3. Len(Drained) = Taken /\ \A i \in 1 .. Taken : Drained[i] = queue[i]
  BY <1>1, <1>2, CutQueue DEF Drained
<1>4. \A i \in 1 .. Taken : queue[i] \in Backends /\ i \in 1 .. Len(queue)
  BY <1>1, <1>2
<1>5. \A i \in 1 .. Taken : request[queue[i]] \in Request /\ request[queue[i]].id = queue[i]
  <2> TAKE i \in 1 .. Taken
  <2>1. state[queue[i]] = "PENDING"
    BY <1>4 DEF WorkerInv, QueueInv
  <2>2. pc[queue[i]] # "idle"
    BY <1>4, <2>1 DEF WorkerInv, SlotInv
  <2>3. QED
    BY <1>4, <2>2 DEF WorkerInv, SlotInv
<1>6. \A i \in 1 .. Taken : Round[i] \in Request /\ Round[i].id = queue[i]
  BY <1>3, <1>5 DEF Round
<1>7. Round \in Seq(Request) /\ Len(Round) = Taken
  <2>1. Taken \in Nat /\ Round \in [1 .. Taken -> Request]
    BY <1>2, <1>3, <1>5 DEF Round
  <2>2. QED
    BY <2>1
<1>8. \A i, j \in 1 .. Taken : Round[i].id = Round[j].id => i = j
  BY <1>4, <1>6 DEF WorkerInv, QueueInv
<1>9. Elems(Drained) = {queue[i] : i \in 1 .. Taken}
  BY <1>3 DEF Elems
<1>10. QED
  BY <1>2, <1>4, <1>6, <1>7, <1>8, <1>9

\* Execute in terms of these.
LEMMA ExecuteMeans ==
  ASSUME WorkerInv, Execute
  PROVE  /\ wpc = "execute" /\ processor # NULL /\ wpc' = "complete"
         /\ queue' = SubSeq(queue, Taken + 1, Len(queue))
         /\ state' = [b \in Backends |-> IF b \in Elems(Drained) THEN "PROCESSING"
                                         ELSE state[b]]
         /\ inflight' = inflight \cup process_batch(Round)
         /\ UNCHANGED <<request, response, bgw_latch, pc, latch, signalVars, config,
                        processor, completed, envVars, registered, ended>>
BY DEF Execute, Taken, Drained, Round

\* The RPCs of the round: well formed, together they are what is drained.
LEMMA ExecuteRpcs ==
  ASSUME WorkerInv
  PROVE  /\ process_batch(Round) \subseteq Rpc
         /\ \A b \in Elems(Drained) : \E rpc \in process_batch(Round) : b \in rpc.items
         /\ \A rpc \in process_batch(Round) : rpc.items \subseteq Elems(Drained)
         /\ \A r1, r2 \in process_batch(Round) : \A b \in r1.items : b \in r2.items => r1 = r2
<1>1. /\ process_batch(Round) \subseteq Rpc
      /\ \A i \in 1 .. Len(Round) : \E rpc \in process_batch(Round) : Round[i].id \in rpc.items
      /\ \A rpc \in process_batch(Round) : \A b \in rpc.items :
           \E i \in 1 .. Len(Round) : b = Round[i].id
      /\ \A r1, r2 \in process_batch(Round) : \A b \in r1.items : b \in r2.items => r1 = r2
  BY RoundFacts, RoundRpcs
<1>2. Elems(Drained) = {Round[i].id : i \in 1 .. Len(Round)}
  BY RoundFacts
<1>3. QED
  BY <1>1, <1>2

----------------------------------------------------------------------------
(***************************************************************************)
(* Types                                                                   *)
(***************************************************************************)

\* What the callback writes is a response.
LEMMA CallbackType == \A end : callback(end) \in Reply
BY DEF callback, Reply, Statuses, Decided, Verdicts

\* How an RPC may have ended for one of its requests.
LEMMA OutcomeType ==
  ASSUME NEW rpc, NEW outcome \in Outcomes(rpc), NEW b \in rpc.items
  PROVE  outcome[b] \in Decided \cup {"error", "absent", "failed"}
BY DEF Outcomes, Ends, Decided, Verdicts

\* The callbacks keep the types of what they write.
LEMMA AnsweredType ==
  ASSUME TypeOK, NEW rpc \in inflight, NEW outcome \in Outcomes(rpc), Answered(rpc, outcome)
  PROVE  /\ response' \in [Backends -> Reply]
         /\ ended' \in [Backends -> Decided \cup {"none", "error", "absent", "failed"}]
         /\ inflight' \subseteq Rpc
         /\ rpc.items \subseteq Backends
<1>1. response' \in [Backends -> Reply]
  BY CallbackType DEF TypeOK, Answered
<1>2. ended' \in [Backends -> Decided \cup {"none", "error", "absent", "failed"}]
  BY OutcomeType DEF TypeOK, Answered
<1>3. rpc \in Rpc /\ inflight' \subseteq Rpc
  BY DEF TypeOK, Answered
<1>4. QED
  BY <1>1, <1>2, <1>3 DEF Rpc

\* The end of everything keeps the types.
LEMMA ResetType ==
  ASSUME TypeOK, Reset, faults' \in 0 .. MaxFaults
  PROVE  TypeOK'
<1>1. /\ state' \in [Backends -> States] /\ pc' \in [Backends -> {"idle", "wake", "waiting"}]
      /\ request' \in [Backends -> Request \cup {NULL}]
      /\ response' \in [Backends -> Reply]
      /\ ended' \in [Backends -> Decided \cup {"none", "error", "absent", "failed"}]
  BY DEF Reset, States, Reply, Statuses, ZeroReply
<1>2. wpc' \in WorkerPC /\ queue' \in Seq(Backends)
  BY DEF Reset, WorkerPC
<1>3. QED
  BY <1>1, <1>2 DEF TypeOK, Reset, ProcessGone

\* Every step keeps the types, one action at a time.
LEMMA TypeStep == WorkerInv /\ [Next]_vars => TypeOK'
<1> SUFFICES ASSUME WorkerInv, [Next]_vars PROVE TypeOK'
  OBVIOUS
<1> USE DEF slotVars, signalVars, processorVars, envVars, WorkerPC, Alive, Loop
<1>0. TypeOK
  BY DEF WorkerInv
<1>1. ASSUME NEW b \in Backends, NEW t \in Types, NEW s \in Stores, Call(b, t, s)
      PROVE  TypeOK'
  <2>1. [id |-> b, type |-> t, store |-> s] \in Request
    BY DEF Request
  <2>2. request' \in [Backends -> Request \cup {NULL}]
    BY <1>0, <1>1, <2>1 DEF TypeOK, Call
  <2>3. queue' \in Seq(Backends)
    BY <1>0, <1>1 DEF TypeOK, Call
  <2>4. calls' \in 0 .. MaxCalls
    BY <1>0, <1>1, BoundsAssumption DEF TypeOK, Call
  <2>5. QED
    BY <1>0, <1>1, <2>2, <2>3, <2>4 DEF TypeOK, Call, States
<1>2. ASSUME NEW b \in Backends, fga_wake_bgw(b) PROVE TypeOK'
  BY <1>0, <1>2 DEF TypeOK, fga_wake_bgw
<1>3. ASSUME NEW b \in Backends, WakeCrash(b) PROVE TypeOK'
  <2>1. faults' \in 0 .. MaxFaults
    BY <1>0, <1>3 DEF TypeOK, WakeCrash
  <2>2. QED
    BY <1>0, <1>3, <2>1, ResetType DEF WakeCrash
<1>4. ASSUME NEW b \in Backends, Return(b) PROVE TypeOK'
  BY <1>0, <1>4 DEF TypeOK, Return, States, Reply, Statuses, ZeroReply
<1>5. CASE Start
  BY <1>0, <1>5 DEF TypeOK, Start
<1>6. CASE Run
  <2>1. Emplaced(config) \in (Settings \ Unset) \cup {NULL}
    BY <1>0 DEF TypeOK, Emplaced
  <2>2. QED
    BY <1>0, <1>6, <2>1 DEF TypeOK, Run, Again
<1>7. CASE Leave
  BY <1>0, <1>7 DEF TypeOK, Leave, ProcessGone
<1>8. CASE WaitLatch
  BY <1>0, <1>8 DEF TypeOK, WaitLatch
<1>9. CASE HandleReload
  <2>1. Emplaced(setting) \in (Settings \ Unset) \cup {NULL}
    BY <1>0 DEF TypeOK, Emplaced
  <2>2. processor' \in (Settings \ Unset) \cup {NULL} /\ completed' \subseteq Backends
    BY <1>0, <1>9, <2>1 DEF TypeOK, HandleReload
  <2>3. QED
    BY <1>0, <1>9, <2>2 DEF TypeOK, HandleReload
<1>10. CASE Execute
  <2>1. queue' \in Seq(Backends)
    <3>1. queue \in Seq(Backends) /\ Taken \in 0 .. Len(queue)
      BY <1>0, RoundFacts DEF TypeOK
    <3>2. queue' = SubSeq(queue, Taken + 1, Len(queue))
      BY <1>10, ExecuteMeans
    <3>3. QED
      BY <3>1, <3>2, CutQueue
  <2>2. inflight' \subseteq Rpc
    BY <1>0, <1>10, ExecuteMeans, ExecuteRpcs DEF TypeOK
  <2>3. QED
    BY <1>0, <1>10, <2>1, <2>2, ExecuteMeans DEF TypeOK, States
<1>11. CASE Skip
  BY <1>0, <1>11 DEF TypeOK, Skip, Again
<1>12. CASE Complete
  BY <1>0, <1>12 DEF TypeOK, Complete, Again, States
<1>13. ASSUME NEW rpc \in inflight, NEW outcome \in Outcomes(rpc), RpcEnd(rpc, outcome)
       PROVE  TypeOK'
  BY <1>0, <1>13, AnsweredType DEF TypeOK, RpcEnd
<1>14. ASSUME NEW rpc \in inflight, NEW outcome \in Outcomes(rpc),
              RpcEndNowhere(rpc, outcome)
       PROVE  TypeOK'
  <2>1. CASE Reset /\ UNCHANGED faults
    <3>1. faults' \in 0 .. MaxFaults
      BY <1>0, <2>1 DEF TypeOK
    <3>2. QED
      BY <1>0, <2>1, <3>1, ResetType
  <2>2. CASE ~Reset
    BY <1>0, <1>14, <2>2, AnsweredType DEF TypeOK, RpcEndNowhere
  <2>3. QED
    BY <1>14, <2>1, <2>2, AnsweredType, <1>0 DEF TypeOK, RpcEndNowhere
<1>15. ASSUME NEW n \in 0 .. Len(queue), NEW m \in 0 .. n, ErrorExit(n, m)
       PROVE  TypeOK'
  <2>1. queue' \in Seq(Backends)
    BY <1>0, <1>15, CutQueue DEF TypeOK, ErrorExit
  <2>2. faults' \in 0 .. MaxFaults
    BY <1>0, <1>15, BoundsAssumption DEF TypeOK, ErrorExit
  <2>3. QED
    BY <1>0, <1>15, <2>1, <2>2
    DEF TypeOK, ErrorExit, ProcessGone, LatchAfterError, States
<1>16. CASE WorkerCrash
  <2>1. faults' \in 0 .. MaxFaults
    BY <1>0, <1>16, BoundsAssumption DEF TypeOK, WorkerCrash
  <2>2. QED
    BY <1>0, <1>16, <2>1, ResetType DEF WorkerCrash
<1>17. ASSUME NEW s \in Settings, Sighup(s) PROVE TypeOK'
  BY <1>0, <1>17, BoundsAssumption DEF TypeOK, Sighup
<1>18. CASE Sigterm
  BY <1>0, <1>18 DEF TypeOK, Sigterm
<1>19. CASE UNCHANGED vars
  BY <1>0, <1>19 DEF TypeOK, vars
<1>20. QED
  BY <1>1, <1>2, <1>3, <1>4, <1>5, <1>6, <1>7, <1>8, <1>9, <1>10, <1>11, <1>12, <1>13,
     <1>14, <1>15, <1>16, <1>17, <1>18, <1>19 DEF Next, WorkerStep, Callback, Quiet

----------------------------------------------------------------------------
(***************************************************************************)
(* Where a request is                                                      *)
(***************************************************************************)

\* Draining n requests, of which m are begun, leaves the rest of the queue as
\* it was.
LEMMA DrainKeepsQueue ==
  ASSUME WorkerInv, NEW n \in 0 .. Len(queue), NEW m \in 0 .. n,
         queue' = SubSeq(queue, n + 1, Len(queue)),
         state' = [b \in Backends |-> IF b \in Elems(SubSeq(queue, 1, m))
                                     THEN "PROCESSING" ELSE state[b]]
  PROVE  /\ QueueInv'
         /\ \A b \in Backends : state[b] # "PENDING" => state'[b] = state[b]
         /\ \A b \in Backends : state'[b] \in {state[b], "PROCESSING"}
<1>1. queue \in Seq(Backends) /\ Len(queue) \in Nat /\ m \in 0 .. Len(queue)
  BY DEF WorkerInv, TypeOK
<1>2. /\ Len(queue') = Len(queue) - n
      /\ \A i \in 1 .. Len(queue) - n : queue'[i] = queue[n + i]
  BY <1>1, CutQueue
<1>3. Elems(SubSeq(queue, 1, m)) = {queue[i] : i \in 1 .. m}
  <2>1. /\ Len(SubSeq(queue, 1, m)) = m
        /\ \A i \in 1 .. m : SubSeq(queue, 1, m)[i] = queue[i]
    BY <1>1, CutQueue
  <2>2. QED
    BY <2>1 DEF Elems
<1>4. ASSUME NEW i \in 1 .. Len(queue')
      PROVE  /\ n + i \in 1 .. Len(queue) /\ queue'[i] = queue[n + i]
             /\ queue'[i] \in Backends
             /\ state'[queue'[i]] = "PENDING"
  <2>1. n + i \in 1 .. Len(queue) /\ queue'[i] = queue[n + i] /\ n + i > m
    BY <1>1, <1>2
  <2>2. queue[n + i] \in Backends /\ state[queue[n + i]] = "PENDING"
    BY <1>1, <2>1 DEF WorkerInv, QueueInv
  <2>3. queue[n + i] \notin {queue[j] : j \in 1 .. m}
    <3> SUFFICES ASSUME NEW j \in 1 .. m, queue[n + i] = queue[j] PROVE FALSE
      OBVIOUS
    <3>1. j \in 1 .. Len(queue)
      BY <1>1
    <3>2. n + i = j
      BY <2>1, <3>1 DEF WorkerInv, QueueInv
    <3>3. QED
      BY <1>1, <2>1, <3>2
  <2>4. QED
    BY <1>3, <2>1, <2>2, <2>3
<1>5. QueueInv'
  <2>1. ASSUME NEW i \in 1 .. Len(queue'), NEW j \in 1 .. Len(queue'), queue'[i] = queue'[j]
        PROVE  i = j
    <3>1. n + i = n + j
      BY <1>4, <2>1 DEF WorkerInv, QueueInv
    <3>2. Len(queue') \in Nat
      BY <1>1, <1>2
    <3>3. QED
      BY <3>1, <3>2
  <2>2. QED
    BY <1>4, <2>1 DEF QueueInv
<1>6. \A b \in Elems(SubSeq(queue, 1, m)) : state[b] = "PENDING"
  <2>1. \A i \in 1 .. m : i \in 1 .. Len(queue)
    BY <1>1
  <2>2. \A i \in 1 .. Len(queue) : state[queue[i]] = "PENDING"
    BY DEF WorkerInv, QueueInv
  <2>3. QED
    BY <1>3, <2>1, <2>2
<1>7. QED
  BY <1>5, <1>6

\* A fresh start has nothing anywhere.
LEMMA ResetEmpty ==
  ASSUME Reset
  PROVE  QueueInv' /\ SlotInv' /\ WorkInv' /\ AnswerInv'
BY DEF Reset, ProcessGone, QueueInv, SlotInv, WorkInv, AnswerInv

\* Every step keeps requests where they belong.
LEMMA PlaceStep == WorkerInv /\ [Next]_vars => QueueInv' /\ SlotInv' /\ WorkInv'
<1> SUFFICES ASSUME WorkerInv, [Next]_vars PROVE QueueInv' /\ SlotInv' /\ WorkInv'
  OBVIOUS
<1> DEFINE Goal == QueueInv' /\ SlotInv' /\ WorkInv'
<1> USE DEF slotVars, processorVars
<1>0. TypeOK /\ QueueInv /\ SlotInv /\ WorkInv
  BY DEF WorkerInv
<1>1. ASSUME NEW b \in Backends, NEW t \in Types, NEW s \in Stores, Call(b, t, s)
      PROVE  Goal
  <2>1. /\ state[b] = "EMPTY"
        /\ state' = [state EXCEPT ![b] = "PENDING"]
        /\ state \in [Backends -> States] /\ pc \in [Backends -> {"idle", "wake", "waiting"}]
    BY <1>0, <1>1 DEF TypeOK, Call, SlotInv
  <2>2. QueueInv'
    <3>1. queue \in Seq(Backends) /\ queue' = Append(queue, b) /\ Len(queue) \in Nat
      BY <1>0, <1>1 DEF TypeOK, Call
    <3>2. /\ Len(queue') = Len(queue) + 1 /\ queue'[Len(queue) + 1] = b
          /\ \A i \in 1 .. Len(queue) : queue'[i] = queue[i] /\ queue[i] \in Backends
      BY <3>1
    <3>3. \A i \in 1 .. Len(queue) : queue[i] # b /\ state'[queue[i]] = "PENDING"
      BY <1>0, <2>1, <3>2 DEF QueueInv
    <3>4. state'[b] = "PENDING"
      BY <2>1
    <3>5. \A i \in 1 .. Len(queue') : i \in 1 .. Len(queue) \/ i = Len(queue) + 1
      BY <3>1, <3>2
    <3>6. QED
      BY <1>0, <3>2, <3>3, <3>4, <3>5 DEF QueueInv
  <2>3. SlotInv'
    <3>1. [id |-> b, type |-> t, store |-> s] \in Request
      BY DEF Request
    <3>2. request'[b] \in Request /\ request'[b].id = b /\ pc'[b] = "wake"
      BY <1>0, <1>1, <3>1 DEF TypeOK, Call
    <3>3. \A c \in Backends \ {b} : /\ request'[c] = request[c] /\ pc'[c] = pc[c]
                                   /\ state'[c] = state[c]
      BY <1>0, <1>1 DEF TypeOK, Call
    <3>4. QED
      BY <1>0, <3>2, <3>3 DEF SlotInv
  <2>4. WorkInv'
    <3>1. \A c \in Backends : state[c] = "PROCESSING" => state'[c] = "PROCESSING"
      BY <2>1
    <3>2. completed \subseteq Backends /\ \A rpc \in inflight : rpc.items \subseteq Backends
      BY <1>0 DEF TypeOK, Rpc
    <3>3. QED
      BY <1>0, <1>1, <3>1, <3>2 DEF WorkInv, Call
  <2>5. QED
    BY <2>2, <2>3, <2>4
<1>2. ASSUME NEW b \in Backends, fga_wake_bgw(b) PROVE Goal
  BY <1>0, <1>2 DEF TypeOK, fga_wake_bgw, QueueInv, SlotInv, WorkInv
<1>3. ASSUME NEW b \in Backends, WakeCrash(b) PROVE Goal
  BY <1>3, ResetEmpty DEF WakeCrash
<1>4. ASSUME NEW b \in Backends, Return(b) PROVE Goal
  <2>1. /\ state[b] = "DONE" /\ state'[b] = "EMPTY" /\ pc'[b] = "idle"
        /\ \A c \in Backends \ {b} : /\ request'[c] = request[c] /\ pc'[c] = pc[c]
                                    /\ state'[c] = state[c]
        /\ UNCHANGED <<queue, completed, inflight>>
    BY <1>0, <1>4 DEF TypeOK, Return
  <2>2. \A i \in 1 .. Len(queue) : queue[i] \in Backends
    BY <1>0 DEF TypeOK
  <2>3. completed \subseteq Backends /\ \A rpc \in inflight : rpc.items \subseteq Backends
    BY <1>0 DEF TypeOK, Rpc
  <2>4. QueueInv'
    BY <1>0, <2>1, <2>2 DEF QueueInv
  <2>5. SlotInv'
    BY <1>0, <2>1 DEF SlotInv
  <2>6. WorkInv'
    BY <1>0, <2>1, <2>3 DEF WorkInv
  <2>7. QED
    BY <2>4, <2>5, <2>6
<1>5. CASE Start
  BY <1>0, <1>5 DEF Start, QueueInv, SlotInv, WorkInv
<1>6. CASE Run
  BY <1>0, <1>6 DEF Run, QueueInv, SlotInv, WorkInv
<1>7. CASE Leave
  BY <1>0, <1>7 DEF Leave, ProcessGone, QueueInv, SlotInv, WorkInv
<1>8. CASE WaitLatch
  BY <1>0, <1>8 DEF WaitLatch, QueueInv, SlotInv, WorkInv
<1>9. CASE HandleReload
  <2>1. completed' \subseteq completed /\ UNCHANGED <<state, request, queue, pc, inflight>>
    BY <1>9 DEF HandleReload
  <2>2. QED
    BY <1>0, <2>1 DEF QueueInv, SlotInv, WorkInv
<1>10. CASE Execute
  <2>1. /\ Taken \in 0 .. Len(queue) /\ Taken \in 0 .. Taken
        /\ queue' = SubSeq(queue, Taken + 1, Len(queue))
        /\ state' = [b \in Backends |-> IF b \in Elems(SubSeq(queue, 1, Taken))
                                        THEN "PROCESSING" ELSE state[b]]
        /\ Elems(Drained) = Elems(SubSeq(queue, 1, Taken))
        /\ inflight' = inflight \cup process_batch(Round)
        /\ UNCHANGED <<completed, request, pc>>
    <3>1. Taken \in 0 .. Len(queue)
      BY RoundFacts
    <3>2. QED
      BY <1>10, <3>1, ExecuteMeans DEF Drained
  <2>2. /\ QueueInv'
        /\ \A b \in Backends : state[b] # "PENDING" => state'[b] = state[b]
        /\ \A b \in Backends : state'[b] \in {state[b], "PROCESSING"}
    BY <2>1, DrainKeepsQueue
  <2>3. /\ Elems(Drained) \subseteq Backends
        /\ \A b \in Elems(Drained) : state[b] = "PENDING" /\ state'[b] = "PROCESSING"
    <3>1. \A i \in 1 .. Taken : i \in 1 .. Len(queue)
      BY <2>1
    <3>2. \A b \in Elems(Drained) : state[b] = "PENDING"
      BY <1>0, <3>1, RoundFacts DEF QueueInv
    <3>3. QED
      BY <2>1, <3>2, RoundFacts
  <2>4. SlotInv'
    BY <1>0, <2>1, <2>2 DEF SlotInv
  <2>5. WorkInv'
    <3>1. completed \subseteq Backends /\ \A rpc \in inflight : rpc.items \subseteq Backends
      BY <1>0 DEF TypeOK, Rpc
    <3>2. \A b \in completed' : state'[b] = "PROCESSING"
      BY <1>0, <2>1, <2>2, <3>1 DEF WorkInv
    <3>3. ASSUME NEW rpc \in inflight', NEW b \in rpc.items
          PROVE  state'[b] = "PROCESSING" /\ b \notin completed'
      <4>1. CASE rpc \in inflight
        BY <1>0, <2>1, <2>2, <3>1, <4>1 DEF WorkInv
      <4>2. CASE rpc \in process_batch(Round)
        BY <1>0, <2>1, <2>3, <3>1, <4>2, ExecuteRpcs DEF WorkInv
      <4>3. QED
        BY <2>1, <4>1, <4>2
    <3>4. ASSUME NEW r1 \in inflight', NEW r2 \in inflight', NEW b \in r1.items,
                 b \in r2.items
          PROVE  r1 = r2
      <4>1. CASE r1 \in inflight /\ r2 \in inflight
        BY <1>0, <3>4, <4>1 DEF WorkInv
      <4>2. CASE r1 \in process_batch(Round) /\ r2 \in process_batch(Round)
        BY <3>4, <4>2, ExecuteRpcs
      <4>3. ASSUME NEW old \in inflight, NEW new \in process_batch(Round),
                   b \in old.items, b \in new.items
            PROVE  FALSE
        BY <1>0, <2>3, <4>3, ExecuteRpcs DEF WorkInv
      <4>4. QED
        BY <2>1, <3>4, <4>1, <4>2, <4>3
    <3>5. QED
      BY <3>2, <3>3, <3>4 DEF WorkInv
  <2>6. QED
    BY <2>2, <2>4, <2>5
<1>11. CASE Skip
  BY <1>0, <1>11 DEF Skip, QueueInv, SlotInv, WorkInv
<1>12. CASE Complete
  <2>1. /\ \A b \in Backends : state'[b] = IF b \in completed THEN "DONE" ELSE state[b]
        /\ completed' = {} /\ UNCHANGED <<queue, request, pc, inflight>>
    BY <1>12 DEF Complete
  <2>2. \A i \in 1 .. Len(queue) : queue[i] \in Backends
    BY <1>0 DEF TypeOK
  <2>3. completed \subseteq Backends /\ \A rpc \in inflight : rpc.items \subseteq Backends
    BY <1>0 DEF TypeOK, Rpc
  <2>4. QueueInv'
    BY <1>0, <2>1, <2>2 DEF QueueInv, WorkInv
  <2>5. SlotInv'
    BY <1>0, <2>1 DEF SlotInv, WorkInv
  <2>6. WorkInv'
    BY <1>0, <2>1, <2>3 DEF WorkInv
  <2>7. QED
    BY <2>4, <2>5, <2>6
<1>13. ASSUME NEW rpc \in inflight, NEW outcome \in Outcomes(rpc), RpcEnd(rpc, outcome)
       PROVE  Goal
  <2>1. /\ inflight' = inflight \ {rpc} /\ completed' = completed \cup rpc.items
        /\ UNCHANGED <<state, queue, request, pc>>
    BY <1>13 DEF RpcEnd, Answered
  <2>2. QED
    BY <1>0, <2>1 DEF QueueInv, SlotInv, WorkInv
<1>14. ASSUME NEW rpc \in inflight, NEW outcome \in Outcomes(rpc),
              RpcEndNowhere(rpc, outcome)
       PROVE  Goal
  <2>1. CASE Reset
    BY <2>1, ResetEmpty
  <2>2. CASE ~Reset
    <3>1. inflight' = inflight \ {rpc} /\ UNCHANGED <<state, queue, request, pc, completed>>
      BY <1>14, <2>2 DEF RpcEndNowhere, Answered
    <3>2. QED
      BY <1>0, <3>1 DEF QueueInv, SlotInv, WorkInv
  <2>3. QED
    BY <2>1, <2>2
<1>15. ASSUME NEW n \in 0 .. Len(queue), NEW m \in 0 .. n, ErrorExit(n, m)
       PROVE  Goal
  <2>1. /\ queue' = SubSeq(queue, n + 1, Len(queue))
        /\ state' = [b \in Backends |-> IF b \in Elems(SubSeq(queue, 1, m))
                                        THEN "PROCESSING" ELSE state[b]]
        /\ completed' = {} /\ inflight' = {} /\ UNCHANGED <<request, pc>>
    BY <1>15 DEF ErrorExit, ProcessGone
  <2>2. /\ QueueInv'
        /\ \A b \in Backends : state[b] # "PENDING" => state'[b] = state[b]
    BY <2>1, DrainKeepsQueue
  <2>3. QED
    BY <1>0, <2>1, <2>2 DEF SlotInv, WorkInv
<1>16. CASE WorkerCrash
  BY <1>16, ResetEmpty DEF WorkerCrash
<1>17. ASSUME NEW s \in Settings, Sighup(s) PROVE Goal
  BY <1>0, <1>17 DEF Sighup, QueueInv, SlotInv, WorkInv
<1>18. CASE Sigterm
  BY <1>0, <1>18 DEF Sigterm, QueueInv, SlotInv, WorkInv
<1>19. CASE UNCHANGED vars
  BY <1>0, <1>19 DEF vars, QueueInv, SlotInv, WorkInv
<1>20. QED
  BY <1>1, <1>2, <1>3, <1>4, <1>5, <1>6, <1>7, <1>8, <1>9, <1>10, <1>11, <1>12, <1>13,
     <1>14, <1>15, <1>16, <1>17, <1>18, <1>19 DEF Next, WorkerStep, Callback, Quiet

----------------------------------------------------------------------------
(***************************************************************************)
(* Answers                                                                 *)
(***************************************************************************)

\* A completed or done request keeps the answer of its callback.
LEMMA AnswerStep == WorkerInv /\ AnswerInv /\ [Next]_vars => AnswerInv'
<1> SUFFICES ASSUME WorkerInv, AnswerInv, [Next]_vars PROVE AnswerInv'
  OBVIOUS
<1> USE DEF slotVars, processorVars
<1>0. TypeOK /\ QueueInv /\ SlotInv /\ WorkInv
  BY DEF WorkerInv
<1>1. ASSUME NEW b \in Backends, NEW t \in Types, NEW s \in Stores, Call(b, t, s)
      PROVE  AnswerInv'
  <2>1. state[b] = "EMPTY" /\ b \notin completed
    BY <1>0, <1>1 DEF Call, SlotInv, WorkInv
  <2>2. QED
    BY <1>0, <1>1, <2>1 DEF TypeOK, Call, AnswerInv
<1>2. ASSUME NEW b \in Backends, fga_wake_bgw(b) PROVE AnswerInv'
  BY <1>2 DEF fga_wake_bgw, AnswerInv
<1>3. ASSUME NEW b \in Backends, WakeCrash(b) PROVE AnswerInv'
  BY <1>3, ResetEmpty DEF WakeCrash
<1>4. ASSUME NEW b \in Backends, Return(b) PROVE AnswerInv'
  <2>1. /\ b \notin completed /\ state'[b] = "EMPTY" /\ UNCHANGED completed
        /\ \A c \in Backends \ {b} : /\ state'[c] = state[c] /\ response'[c] = response[c]
                                    /\ ended'[c] = ended[c]
    BY <1>0, <1>4 DEF TypeOK, Return, WorkInv
  <2>2. QED
    BY <2>1 DEF AnswerInv
<1>5. CASE Start
  BY <1>5 DEF Start, AnswerInv
<1>6. CASE Run
  BY <1>6 DEF Run, AnswerInv
<1>7. CASE Leave
  BY <1>7 DEF Leave, ProcessGone, AnswerInv
<1>8. CASE WaitLatch
  BY <1>8 DEF WaitLatch, AnswerInv
<1>9. CASE HandleReload
  <2>1. completed' \subseteq completed /\ UNCHANGED <<state, response, ended>>
    BY <1>9 DEF HandleReload
  <2>2. QED
    BY <2>1 DEF AnswerInv
<1>10. CASE Execute
  <2>1. /\ \A b \in Backends : state'[b] \in {state[b], "PROCESSING"}
        /\ UNCHANGED <<response, ended, completed>>
    BY <1>10, ExecuteMeans
  <2>2. QED
    BY <2>1 DEF AnswerInv
<1>11. CASE Skip
  BY <1>11 DEF Skip, AnswerInv
<1>12. CASE Complete
  BY <1>12 DEF Complete, AnswerInv
<1>13. ASSUME NEW rpc \in inflight, NEW outcome \in Outcomes(rpc), RpcEnd(rpc, outcome)
       PROVE  AnswerInv'
  <2>1. \A b \in rpc.items : outcome[b] # "none"
    BY OutcomeType DEF Decided, Verdicts
  <2>2. /\ \A b \in Backends : IF b \in rpc.items
                               THEN response'[b] = callback(outcome[b]) /\ ended'[b] = outcome[b]
                               ELSE response'[b] = response[b] /\ ended'[b] = ended[b]
        /\ completed' = completed \cup rpc.items /\ UNCHANGED state
    BY <1>13 DEF RpcEnd, Answered
  <2>3. QED
    BY <2>1, <2>2 DEF AnswerInv
<1>14. ASSUME NEW rpc \in inflight, NEW outcome \in Outcomes(rpc),
              RpcEndNowhere(rpc, outcome)
       PROVE  AnswerInv'
  <2>1. CASE Reset
    BY <2>1, ResetEmpty
  <2>2. CASE ~Reset
    <3>1. \A b \in rpc.items : outcome[b] # "none"
      BY OutcomeType DEF Decided, Verdicts
    <3>2. /\ \A b \in Backends : IF b \in rpc.items
                                 THEN response'[b] = callback(outcome[b]) /\ ended'[b] = outcome[b]
                                 ELSE response'[b] = response[b] /\ ended'[b] = ended[b]
          /\ UNCHANGED <<state, completed>>
      BY <1>14, <2>2 DEF RpcEndNowhere, Answered
    <3>3. QED
      BY <3>1, <3>2 DEF AnswerInv
  <2>3. QED
    BY <2>1, <2>2
<1>15. ASSUME NEW n \in 0 .. Len(queue), NEW m \in 0 .. n, ErrorExit(n, m)
       PROVE  AnswerInv'
  BY <1>15 DEF ErrorExit, ProcessGone, AnswerInv
<1>16. CASE WorkerCrash
  BY <1>16, ResetEmpty DEF WorkerCrash
<1>17. ASSUME NEW s \in Settings, Sighup(s) PROVE AnswerInv'
  BY <1>17 DEF Sighup, AnswerInv
<1>18. CASE Sigterm
  BY <1>18 DEF Sigterm, AnswerInv
<1>19. CASE UNCHANGED vars
  BY <1>19 DEF vars, AnswerInv
<1>20. QED
  BY <1>1, <1>2, <1>3, <1>4, <1>5, <1>6, <1>7, <1>8, <1>9, <1>10, <1>11, <1>12, <1>13,
     <1>14, <1>15, <1>16, <1>17, <1>18, <1>19 DEF Next, WorkerStep, Callback, Quiet

\* An answer OK is the callback's word for a decision of the server.
LEMMA OkFromAnswer == AnswerInv => OkIsDecided
<1>1. ASSUME NEW end
      PROVE  callback(end).status = "OK" =>
               end \in Decided /\ (callback(end).allow <=> end = "allowed")
  <2>1. CASE end \in Decided
    BY <2>1 DEF callback, Decided, Verdicts
  <2>2. CASE end \notin Decided
    BY <2>2 DEF callback
  <2>3. QED
    BY <2>1, <2>2
<1>2. QED
  BY <1>1 DEF AnswerInv, OkIsDecided

----------------------------------------------------------------------------
(***************************************************************************)
(* Reloads and the life of the process                                     *)
(***************************************************************************)

\* After a reset nothing is under way.
LEMMA ResetLife == ASSUME Reset PROVE LifeInv' /\ SighupHarmless' /\ LatchInv'
<1>1. /\ wpc' \in {"down", "stopped"} /\ inflight' = {} /\ completed' = {}
      /\ registered' = FALSE
      /\ \A b \in Backends : state'[b] = "EMPTY"
  BY DEF Reset, ProcessGone
<1>2. LifeInv'
  BY <1>1 DEF LifeInv, Alive, Loop
<1>3. SighupHarmless'
  BY <1>1 DEF SighupHarmless
<1>4. LatchInv'
  BY <1>1 DEF LatchInv
<1>5. QED
  BY <1>2, <1>3, <1>4

\* As long as the settings stay as they are and nothing fails, what has been
\* begun is under way or completed.
LEMMA LifeStep ==
  WorkerInv /\ LifeInv /\ SighupHarmless /\ [Next]_vars => LifeInv' /\ SighupHarmless'
<1> SUFFICES ASSUME WorkerInv, LifeInv, SighupHarmless, [Next]_vars
             PROVE  LifeInv' /\ SighupHarmless'
  OBVIOUS
<1> DEFINE Goal == LifeInv' /\ SighupHarmless'
<1> USE DEF slotVars, processorVars, envVars, signalVars
<1>0. TypeOK /\ WorkInv
  BY DEF WorkerInv
<1>1. ASSUME NEW b \in Backends, NEW t \in Types, NEW s \in Stores, Call(b, t, s)
      PROVE  Goal
  BY <1>0, <1>1 DEF TypeOK, Call, LifeInv, SighupHarmless, InFlight
<1>2. ASSUME NEW b \in Backends, fga_wake_bgw(b) PROVE Goal
  BY <1>2 DEF fga_wake_bgw, LifeInv, SighupHarmless, InFlight
<1>3. ASSUME NEW b \in Backends, WakeCrash(b) PROVE Goal
  BY <1>3, ResetLife DEF WakeCrash
<1>4. ASSUME NEW b \in Backends, Return(b) PROVE Goal
  BY <1>0, <1>4 DEF TypeOK, Return, LifeInv, SighupHarmless, InFlight
<1>5. CASE Start
  BY <1>5 DEF Start, LifeInv, SighupHarmless, InFlight
<1>6. CASE Run
  BY <1>6 DEF Run, Again, LifeInv, SighupHarmless, InFlight, Alive, Loop
<1>7. CASE Leave
  BY <1>7 DEF Leave, ProcessGone, LifeInv, SighupHarmless, Alive, Loop
<1>8. CASE WaitLatch
  BY <1>8 DEF WaitLatch, LifeInv, SighupHarmless, InFlight, Alive, Loop
<1>9. CASE HandleReload
  <2>1. /\ wpc = "reload" /\ wpc' = "execute"
        /\ UNCHANGED <<state, config, inflight, setting, changed, faults>>
    BY <1>9 DEF HandleReload
  <2>2. ~changed => UNCHANGED <<processor, completed>>
    BY <1>9, <2>1 DEF HandleReload, Differs, LifeInv, Alive, Loop
  <2>3. QED
    BY <2>1, <2>2 DEF LifeInv, SighupHarmless, InFlight, Alive, Loop
<1>10. CASE Execute
  <2>1. /\ wpc = "execute" /\ wpc' = "complete" /\ processor # NULL
        /\ inflight' = inflight \cup process_batch(Round)
        /\ \A b \in Backends : state'[b] = IF b \in Elems(Drained) THEN "PROCESSING" ELSE state[b]
        /\ UNCHANGED <<config, processor, completed, setting, changed, faults>>
    BY <1>10, ExecuteMeans
  <2>2. LifeInv'
    BY <2>1 DEF LifeInv, Alive, Loop
  <2>3. /\ InFlight \subseteq InFlight'
        /\ Elems(Drained) \subseteq InFlight'
    BY <2>1, ExecuteRpcs DEF InFlight
  <2>4. SighupHarmless'
    BY <2>1, <2>3 DEF SighupHarmless
  <2>5. QED
    BY <2>2, <2>4
<1>11. CASE Skip
  BY <1>11 DEF Skip, Again, LifeInv, SighupHarmless, InFlight, Alive, Loop
<1>12. CASE Complete
  <2>1. /\ wpc = "complete" /\ wpc' \in {"leaving", "wait"} /\ completed' = {}
        /\ \A b \in Backends : state'[b] = IF b \in completed THEN "DONE" ELSE state[b]
        /\ UNCHANGED <<config, processor, inflight, setting, changed, faults>>
    BY <1>12 DEF Complete, Again
  <2>2. LifeInv'
    BY <2>1 DEF LifeInv, Alive, Loop
  <2>3. SighupHarmless'
    BY <2>1 DEF SighupHarmless, InFlight
  <2>4. QED
    BY <2>2, <2>3
<1>13. ASSUME NEW rpc \in inflight, NEW outcome \in Outcomes(rpc), RpcEnd(rpc, outcome)
       PROVE  Goal
  <2>1. /\ inflight' = inflight \ {rpc} /\ completed' = completed \cup rpc.items
        /\ UNCHANGED <<state, wpc, config, processor, setting, changed, faults>>
    BY <1>13 DEF RpcEnd, Answered
  <2>2. LifeInv'
    BY <2>1 DEF LifeInv
  <2>3. InFlight \cup completed \subseteq InFlight' \cup completed'
    BY <2>1 DEF InFlight
  <2>4. SighupHarmless'
    BY <2>1, <2>3 DEF SighupHarmless
  <2>5. QED
    BY <2>2, <2>4
<1>14. ASSUME NEW rpc \in inflight, NEW outcome \in Outcomes(rpc),
              RpcEndNowhere(rpc, outcome)
       PROVE  Goal
  <2>1. CASE Reset
    BY <2>1, ResetLife
  <2>2. CASE ~Reset
    <3>1. /\ processor = NULL /\ inflight' = inflight \ {rpc}
          /\ UNCHANGED <<state, wpc, config, processor, completed, setting, changed, faults>>
      BY <1>14, <2>2 DEF RpcEndNowhere, Answered
    <3>2. changed
      BY <3>1 DEF LifeInv
    <3>3. QED
      BY <3>1, <3>2 DEF LifeInv, SighupHarmless
  <2>3. QED
    BY <2>1, <2>2
<1>15. ASSUME NEW n \in 0 .. Len(queue), NEW m \in 0 .. n, ErrorExit(n, m)
       PROVE  Goal
  <2>1. faults' # 0 /\ wpc' = "down" /\ inflight' = {} /\ completed' = {}
    BY <1>0, <1>15, BoundsAssumption DEF TypeOK, ErrorExit, ProcessGone
  <2>2. QED
    BY <2>1 DEF LifeInv, SighupHarmless, Alive, Loop
<1>16. CASE WorkerCrash
  BY <1>16, ResetLife DEF WorkerCrash
<1>17. ASSUME NEW s \in Settings, Sighup(s) PROVE Goal
  <2>1. /\ changed' = (changed \/ s # setting) /\ setting' = s
        /\ UNCHANGED <<state, wpc, config, processor, completed, inflight, faults>>
    BY <1>17 DEF Sighup
  <2>2. ~changed' => ~changed /\ setting' = setting
    BY <1>0, <2>1 DEF TypeOK
  <2>3. QED
    BY <2>1, <2>2 DEF LifeInv, SighupHarmless, InFlight
<1>18. CASE Sigterm
  BY <1>18 DEF Sigterm, LifeInv, SighupHarmless, InFlight
<1>19. CASE UNCHANGED vars
  BY <1>19 DEF vars, LifeInv, SighupHarmless, InFlight
<1>20. QED
  BY <1>1, <1>2, <1>3, <1>4, <1>5, <1>6, <1>7, <1>8, <1>9, <1>10, <1>11, <1>12, <1>13,
     <1>14, <1>15, <1>16, <1>17, <1>18, <1>19 DEF Next, WorkerStep, Callback, Quiet

\* Once registered, a latch is there until the worker leaves in order.
LEMMA LatchStep == LatchInv /\ [Next]_vars => LatchInv'
<1> SUFFICES ASSUME LatchInv, [Next]_vars PROVE LatchInv'
  OBVIOUS
<1> USE NullAssumption DEF LatchInv
<1>1. ASSUME NEW b \in Backends, NEW t \in Types, NEW s \in Stores, Call(b, t, s)
      PROVE  LatchInv'
  BY <1>1 DEF Call
<1>2. ASSUME NEW b \in Backends, fga_wake_bgw(b) PROVE LatchInv'
  BY <1>2 DEF fga_wake_bgw
<1>3. ASSUME NEW b \in Backends, WakeCrash(b) PROVE LatchInv'
  BY <1>3, ResetLife DEF WakeCrash
<1>4. ASSUME NEW b \in Backends, Return(b) PROVE LatchInv'
  BY <1>4 DEF Return
<1>5. CASE Start
  BY <1>5 DEF Start
<1>6. CASE Run
  BY <1>6 DEF Run
<1>7. CASE Leave
  BY <1>7 DEF Leave
<1>8. CASE WaitLatch
  BY <1>8 DEF WaitLatch
<1>9. CASE HandleReload
  BY <1>9 DEF HandleReload
<1>10. CASE Execute
  BY <1>10 DEF Execute
<1>11. CASE Skip
  BY <1>11 DEF Skip
<1>12. CASE Complete
  BY <1>12 DEF Complete
<1>13. ASSUME NEW rpc \in inflight, NEW outcome \in Outcomes(rpc), RpcEnd(rpc, outcome)
       PROVE  LatchInv'
  BY <1>13 DEF RpcEnd
<1>14. ASSUME NEW rpc \in inflight, NEW outcome \in Outcomes(rpc),
              RpcEndNowhere(rpc, outcome)
       PROVE  LatchInv'
  BY <1>14, ResetLife DEF RpcEndNowhere
<1>15. ASSUME NEW n \in 0 .. Len(queue), NEW m \in 0 .. n, ErrorExit(n, m)
       PROVE  LatchInv'
  BY <1>15 DEF ErrorExit, LatchAfterError
<1>16. CASE WorkerCrash
  BY <1>16, ResetLife DEF WorkerCrash
<1>17. ASSUME NEW s \in Settings, Sighup(s) PROVE LatchInv'
  BY <1>17 DEF Sighup
<1>18. CASE Sigterm
  BY <1>18 DEF Sigterm
<1>19. CASE UNCHANGED vars
  BY <1>19 DEF vars
<1>20. QED
  BY <1>1, <1>2, <1>3, <1>4, <1>5, <1>6, <1>7, <1>8, <1>9, <1>10, <1>11, <1>12, <1>13,
     <1>14, <1>15, <1>16, <1>17, <1>18, <1>19 DEF Next, WorkerStep, Callback, Quiet

----------------------------------------------------------------------------
(***************************************************************************)
(* The theorems                                                            *)
(***************************************************************************)

\* The state shared memory starts in.
LEMMA InitHolds ==
  Init => WorkerInv /\ AnswerInv /\ LifeInv /\ SighupHarmless /\ LatchInv
<1> SUFFICES ASSUME Init
             PROVE  WorkerInv /\ AnswerInv /\ LifeInv /\ SighupHarmless /\ LatchInv
  OBVIOUS
<1>1. TypeOK
  <2>1. queue \in Seq(Backends)
    BY DEF Init
  <2>2. /\ 0 \in 0 .. MaxCalls /\ 0 \in 0 .. MaxFaults /\ 0 \in 0 .. MaxReloads
        /\ ZeroReply \in Reply
    BY BoundsAssumption DEF ZeroReply, Reply, Statuses
  <2>3. QED
    BY <2>1, <2>2 DEF Init, TypeOK, States, WorkerPC
<1>2. QueueInv /\ SlotInv /\ WorkInv /\ AnswerInv
  BY DEF Init, QueueInv, SlotInv, WorkInv, AnswerInv
<1>3. LifeInv /\ SighupHarmless /\ LatchInv
  BY DEF Init, LifeInv, SighupHarmless, LatchInv, Alive, Loop
<1>4. QED
  BY <1>1, <1>2, <1>3 DEF WorkerInv

\* A request is in one place at a time: in the queue, in one RPC or completed,
\* through every failure, reload and restart of the worker.
THEOREM RequestsHaveOnePlace == Spec => []WorkerInv
<1>1. Init => WorkerInv
  BY InitHolds
<1>2. WorkerInv /\ [Next]_vars => WorkerInv'
  BY TypeStep, PlaceStep DEF WorkerInv
<1>3. QED
  BY <1>1, <1>2, PTL DEF Spec

\* Every variable of the worker's life keeps its type.
THEOREM WorkerTypes == Spec => []TypeOK
<1>1. WorkerInv => TypeOK
  BY DEF WorkerInv
<1>2. QED
  BY <1>1, RequestsHaveOnePlace, PTL

\* No call is answered OK unless the server has decided it, and then with the
\* server's verdict: the zeroed response, which reads OK and denied, is not
\* handed out by any order of RPCs, reloads, failures and restarts.
THEOREM OkMeansDecided == Spec => []OkIsDecided
<1>1. Init => AnswerInv
  BY InitHolds
<1>2. WorkerInv /\ AnswerInv /\ [Next]_vars => AnswerInv'
  BY AnswerStep
<1>3. AnswerInv => OkIsDecided
  BY OkFromAnswer
<1>4. QED
  BY <1>1, <1>2, <1>3, RequestsHaveOnePlace, PTL DEF Spec

\* Reloads without a change of the settings lose nothing that has been begun.
THEOREM SighupLosesNothing == Spec => []SighupHarmless
<1>1. Init => LifeInv /\ SighupHarmless
  BY InitHolds
<1>2. WorkerInv /\ LifeInv /\ SighupHarmless /\ [Next]_vars => LifeInv' /\ SighupHarmless'
  BY LifeStep
<1>3. QED
  BY <1>1, <1>2, RequestsHaveOnePlace, PTL DEF Spec

\* SetLatch(NULL) threatens only before the first registration and after an
\* orderly end of the worker, not while it is down after a failure.
THEOREM LatchMissingOnlyOutsideService == Spec => []NoLatchOnlyOutsideService
<1>1. Init => LatchInv
  BY InitHolds
<1>2. LatchInv /\ [Next]_vars => LatchInv'
  BY LatchStep
<1>3. LatchInv => NoLatchOnlyOutsideService
  BY DEF LatchInv, NoLatchOnlyOutsideService
<1>4. QED
  BY <1>1, <1>2, <1>3, PTL DEF Spec
=============================================================================

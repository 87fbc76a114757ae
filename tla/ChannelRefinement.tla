------------------------- MODULE ChannelRefinement -------------------------
(***************************************************************************)
(* The channel implements CallService, for every value of the constants,   *)
(* when no call is interrupted: each of its steps is a step of CallService *)
(* or leaves the abstract state alone.                                     *)
(***************************************************************************)
EXTENDS ChannelSafety, ChannelService

----------------------------------------------------------------------------
(***************************************************************************)
(* An RPC is of the kind of the request it was issued for.                 *)
(***************************************************************************)
KindMatches ==
  \A r \in InFlight :
    r.kind \in {"check", "batchCheck"} <=> request[r.slot].type = "check"

\* Issue and RpcComplete apart, no step touches the RPCs in flight or the
\* request of a slot that has one.
LEMMA KindFrame ==
  ASSUME IInv, KindMatches, inflight' = inflight,
         \A s \in InFlightSlots : request'[s] = request[s]
  PROVE  KindMatches'
<1>1. InFlight' = InFlight
  BY DEF InFlight
<1>2. \A r \in InFlight : request'[r.slot] = request[r.slot]
  BY DEF InFlightSlots
<1>3. QED
  BY <1>1, <1>2 DEF KindMatches

\* A step of a backend leaves the RPCs under way and their requests alone.
LEMMA KindBackend ==
  ASSUME IInv, KindMatches, NEW b \in Backends, BackendStep(b) \/ EnvStep(b)
  PROVE  KindMatches'
<1>1. inflight' = inflight
  BY BackendFrame DEF grpcVars
<1>2. CASE Prepare(b) \/ Fill(b) \/ FillError(b)
  <2>1. pc[b] \in {"prepare", "fill"}
    BY <1>2 DEF Prepare, Fill, FillError, Goto
  <2>2. slot[b] \notin InFlightSlots
    BY <2>1, HeldNotReferenced
       DEF IInv, Holding, Outstanding, Refs, Working
  <2>3. \A s \in Slots \ {slot[b]} : request'[s] = request[s]
    BY <1>2 DEF Prepare, Fill, FillError, IInv, TypeOK
  <2>4. InFlightSlots \subseteq Slots
    BY DEF InFlightSlots, InFlight, Rpc
  <2>5. QED
    BY <1>1, <2>2, <2>3, <2>4, KindFrame
<1>3. CASE request' = request
  BY <1>1, <1>3, KindFrame
<1>4. CASE BackendStep(b) /\ ~(Prepare(b) \/ Fill(b))
  <2>1. request' = request
    BY <1>4 DEF BackendStep, Enqueue, EnqueueFull, Rollback, WakeBgw, Check,
       Wake, Respond, CanceledRelease, CatchRead, CatchCancel, CatchDone,
       CatchPid, CatchRelease, Release, WriteState, slotVars
  <2>2. QED
    BY <1>3, <2>1
<1>5. CASE EnvStep(b) /\ ~FillError(b)
  <2>1. request' = request
    BY <1>5 DEF EnvStep, Acquire, AcquireFail, Cancel, CancelReport, Die, Exit,
       OtherSignal, slotVars
  <2>2. QED
    BY <1>3, <2>1
<1>6. QED
  BY <1>2, <1>4, <1>5

\* A request is issued as an RPC of its own type, or as an item of a batch.
LEMMA KindIssue ==
  ASSUME IInv, KindMatches, Issue
  PROVE  KindMatches'
<1> DEFINE s == Head(items)
           k == IF batched /\ request[s].type = "check" THEN "batchCheck"
                ELSE request[s].type
           r == [slot |-> s, id |-> request[s].id, kind |-> k]
<1>1. request' = request
  BY DEF Issue, slotVars
<1>2. \/ inflight' = inflight
      \/ inflight' = [inflight EXCEPT ![r] = @ + 1] /\ request[s].type # "none"
  BY DEF Issue
<1>3. CASE inflight' = inflight
  BY <1>1, <1>3, KindFrame
<1>4. CASE inflight' = [inflight EXCEPT ![r] = @ + 1] /\ request[s].type # "none"
  <2>1. s \in Slots
    BY ElemsTail DEF Issue, IInv, TypeOK
  <2>2. request[s].type # "batchCheck"
    BY <2>1, OpsAssumption DEF IInv, TypeOK, Request, AllOps
  <2>3. r.slot = s /\ (k \in {"check", "batchCheck"} <=> request[s].type = "check")
    BY <2>2
  <2>4. r.kind = k
    OBVIOUS
  <2> HIDE DEF r, k, s
  <2>5. InFlight' \subseteq InFlight \cup {r}
    BY <1>4 DEF InFlight, IInv, TypeOK
  <2>6. QED
    BY <1>1, <2>3, <2>4, <2>5 DEF KindMatches
<1>5. QED
  BY <1>2, <1>3, <1>4

\* Every step keeps the match of RPC kinds and request types.
LEMMA KindStep ==
  ASSUME IInv, KindMatches, [Next]_vars
  PROVE  KindMatches'
<1>1. CASE \E b \in Backends : BackendStep(b) \/ EnvStep(b)
  BY <1>1, KindBackend
<1>2. CASE Issue
  BY <1>2, KindIssue
<1>3. CASE BgwStep /\ ~Issue
  <2>1. request' = request /\ inflight' = inflight
    BY <1>3 DEF BgwStep, BgwWake, Drain, BeginProcessing, BeginRelease,
       BeginEnd, IssueEnd, SwapCompleted, HandleResponse, HandleRelease,
       WriteDone, WakeBackend, HandleEnd, Release, WriteState, slotVars,
       grpcVars
  <2>2. QED
    BY <2>1, KindFrame
<1>4. CASE \E r \in Rpc : \E v \in Verdicts(r.kind) : RpcComplete(r, v)
  <2>1. PICK r \in Rpc : \E v \in Verdicts(r.kind) : RpcComplete(r, v)
    BY <1>4
  <2>2. request' = request /\ inflight' = [inflight EXCEPT ![r] = @ - 1]
    BY <2>1 DEF RpcComplete
  <2>3. InFlight' \subseteq InFlight
    BY <2>1, <2>2 DEF InFlight, IInv, TypeOK, RpcComplete
  <2>4. QED
    BY <2>2, <2>3 DEF KindMatches
<1>5. CASE RpcSignal \/ UNCHANGED vars
  <2>1. request' = request /\ inflight' = inflight
    BY <1>5 DEF RpcSignal, vars, slotVars, grpcVars
  <2>2. QED
    BY <2>1, KindFrame
<1>6. QED
  BY <1>1, <1>2, <1>3, <1>4, <1>5 DEF Next, GrpcStep, ClientsDone

----------------------------------------------------------------------------
(***************************************************************************)
(* When the abstract view of a call stays the same.                        *)
(***************************************************************************)

\* Nothing that the view of c's call is read from moves.
LEMMA SameView ==
  ASSUME NEW c \in Backends,
         pc'[c] = pc[c], op'[c] = op[c], slot'[c] = slot[c],
         pc[c] # "idle" => /\ state'[slot[c]] = state[slot[c]]
                           /\ response'[slot[c]] = response[slot[c]],
         pc[c] \in Outstanding => (slot[c] \in Returning' <=> slot[c] \in Returning)
  PROVE  phaseBar'[c] = phaseBar[c] /\ answerBar'[c] = answerBar[c]
<1>1. Answered(c)' <=> Answered(c)
  BY DEF Answered, Outstanding
<1>2. Answered(c) => Verdict(c)' = Verdict(c)
  BY DEF Answered, Outstanding, Verdict
<1>3. phaseBar'[c] = phaseBar[c]
  BY <1>1 DEF phaseBar
<1>4. answerBar'[c] = answerBar[c]
  BY <1>1, <1>2 DEF answerBar
<1>5. QED
  BY <1>3, <1>4

\* The slots on their way back, when the BGW does not move.
LEMMA ReturningFrame ==
  ASSUME UNCHANGED <<bgwVars, grpcVars>>
  PROVE  Returning' = Returning
BY BgwFrame DEF Returning

\* A step of b that writes only the slot s leaves the other calls alone.
LEMMA OthersView ==
  ASSUME IInv, NEW b \in Backends, NEW s,
         UNCHANGED <<bgwVars, grpcVars>>,
         \A c \in Backends \ {b} :
           /\ pc'[c] = pc[c] /\ op'[c] = op[c] /\ slot'[c] = slot[c]
           /\ slot[c] \in Slots \ {s} \/ pc[c] = "idle",
         \A u \in Slots \ {s} : state'[u] = state[u] /\ response'[u] = response[u]
  PROVE  \A c \in Backends \ {b} :
           phaseBar'[c] = phaseBar[c] /\ answerBar'[c] = answerBar[c]
BY SameView, ReturningFrame

\* The abstract state is a tuple of functions.
LEMMA StutterView ==
  ASSUME TypeOK, TypeOK',
         \A c \in Backends :
           /\ phaseBar'[c] = phaseBar[c] /\ answerBar'[c] = answerBar[c]
           /\ op'[c] = op[c] /\ result'[c] = result[c]
  PROVE  UNCHANGED <<phaseBar, op, answerBar, result>>
<1>1. op' = op /\ result' = result
  BY DEF TypeOK
<1>2. phaseBar' = phaseBar
  BY DEF phaseBar
<1>3. answerBar' = answerBar
  BY DEF answerBar
<1>4. QED
  BY <1>1, <1>2, <1>3

\* b's call ends with r.
LEMMA EndView ==
  ASSUME TypeOK, NEW b \in Backends, NEW r,
         pc'[b] = "idle", End(b, r),
         \A c \in Backends \ {b} :
           phaseBar'[c] = phaseBar[c] /\ answerBar'[c] = answerBar[c]
  PROVE  Service!End(b, r)
<1>1. /\ op' = [op EXCEPT ![b] = "none"]
      /\ result' = [result EXCEPT ![b] = r]
  BY DEF End
<1>2. ~Answered(b)'
  BY DEF Answered, Outstanding
<1>3. phaseBar' = [phaseBar EXCEPT ![b] = "idle"]
  BY DEF phaseBar
<1>4. answerBar' = [answerBar EXCEPT ![b] = "none"]
  BY <1>2 DEF answerBar
<1>5. QED
  BY <1>1, <1>3, <1>4 DEF Service!End

----------------------------------------------------------------------------
(***************************************************************************)
(* The steps of a backend.                                                 *)
(***************************************************************************)

\* What a backend is going to write, no other backend holds.
LEMMA Apart ==
  ASSUME IInv, NEW b \in Backends, pc[b] # "idle"
  PROVE  /\ slot[b] \in Slots
         /\ \A c \in Backends \ {b} :
              slot[c] \in Slots \ {slot[b]} \/ pc[c] = "idle"
BY DEF IInv, TypeOK, Holding, SlotExclusive

\* Acquiring a slot opens the call.
LEMMA AcquireView ==
  ASSUME IInv, TypeOK', NEW b \in Backends, NEW o \in Ops, Acquire(b, o)
  PROVE  Service!Call(b, o)
<1> DEFINE s == head
<1>1. /\ pc[b] = "idle" /\ s # NULL /\ UNCHANGED <<bgwVars, grpcVars>>
      /\ op' = [op EXCEPT ![b] = o]
      /\ result' = [result EXCEPT ![b] = "none"]
      /\ response' = response
  BY DEF Acquire, Goto
<1>2. s \in Slots /\ state[s] = "EMPTY"
  BY <1>1 DEF IInv, FreeList
<1>3. /\ pc'[b] = "prepare"
      /\ \A c \in Backends \ {b} :
           pc'[c] = pc[c] /\ op'[c] = op[c] /\ slot'[c] = slot[c]
      /\ \A u \in Slots \ {s} : state'[u] = state[u]
  BY <1>2 DEF Acquire, Goto, IInv, TypeOK
<1>4. \A c \in Backends \ {b} : slot[c] \in Slots \ {s} \/ pc[c] = "idle"
  BY <1>2 DEF IInv, SlotExclusive, TypeOK, Holding
<1> HIDE DEF s
<1>5. \A c \in Backends \ {b} :
        phaseBar'[c] = phaseBar[c] /\ answerBar'[c] = answerBar[c]
  BY <1>1, <1>3, <1>4, OthersView
<1>6. ~Answered(b) /\ ~Answered(b)'
  BY <1>1, <1>3 DEF Answered, Outstanding
<1>7. phaseBar[b] = "idle" /\ phaseBar' = [phaseBar EXCEPT ![b] = "open"]
  <2>1. phaseBar[b] = "idle" /\ phaseBar'[b] = "open"
    BY <1>1, <1>3, <1>6 DEF phaseBar
  <2>2. QED
    BY <1>5, <2>1 DEF phaseBar
<1>8. answerBar' = answerBar
  <2>1. answerBar'[b] = answerBar[b]
    BY <1>6 DEF answerBar
  <2>2. QED
    BY <1>5, <2>1 DEF answerBar
<1>9. QED
  BY <1>1, <1>7, <1>8 DEF Service!Call

\* Steps with which a call goes on: to the channel, to sleep and back.
LEMMA GoOnView ==
  ASSUME IInv, IInv', NEW b \in Backends,
         \/ Prepare(b) \/ Fill(b) \/ Enqueue(b) \/ EnqueueFull(b) \/ WakeBgw(b)
         \/ Check(b) \/ Wake(b) \/ OtherSignal(b)
         \/ FillError(b) /\ HasCatch(op[b])
  PROVE  UNCHANGED <<phaseBar, op, answerBar, result>>
<1> DEFINE s == slot[b]
<1>1. /\ UNCHANGED <<state, op, slot, result, bgwVars, grpcVars>>
      /\ \A c \in Backends \ {b} : pc'[c] = pc[c]
      /\ pc[b] # "idle"
  <2>1. CASE Prepare(b) \/ Fill(b)
    BY <2>1 DEF Prepare, Fill, Goto, IInv, TypeOK
  <2>2. CASE Enqueue(b) \/ EnqueueFull(b)
    BY <2>2 DEF Enqueue, EnqueueFull, Goto, slotVars, IInv, TypeOK
  <2>3. CASE WakeBgw(b) \/ Wake(b)
    BY <2>3 DEF WakeBgw, Wake, Goto, slotVars, IInv, TypeOK
  <2>4. CASE Check(b)
    BY <2>4 DEF Check, Goto, slotVars, IInv, TypeOK
  <2>5. CASE OtherSignal(b)
    BY <2>5 DEF OtherSignal, slotVars, backendVars
  <2>6. CASE FillError(b) /\ HasCatch(op[b])
    BY <2>6 DEF FillError, Raise, IInv, TypeOK
  <2>7. QED
    BY <2>1, <2>2, <2>3, <2>4, <2>5, <2>6
<1>2. s \in Slots /\ \A u \in Slots \ {s} : response'[u] = response[u]
  <2>1. s \in Slots
    BY <1>1, Apart
  <2>2. CASE Prepare(b)
    BY <2>1, <2>2 DEF Prepare, IInv, TypeOK
  <2>3. CASE ~Prepare(b)
    BY <2>1, <2>3 DEF Fill, Enqueue, EnqueueFull, WakeBgw, Check, Wake,
       OtherSignal, FillError, slotVars
  <2>4. QED
    BY <2>1, <2>2, <2>3
<1>3. \A c \in Backends \ {b} :
        phaseBar'[c] = phaseBar[c] /\ answerBar'[c] = answerBar[c]
  BY <1>1, <1>2, Apart, OthersView
<1>4. phaseBar'[b] = phaseBar[b] /\ answerBar'[b] = answerBar[b]
  <2>1. CASE Prepare(b) \/ Fill(b) \/ EnqueueFull(b)
               \/ (FillError(b) /\ HasCatch(op[b]))
    <3>1. /\ pc[b] \in {"prepare", "fill", "enqueue"}
          /\ pc'[b] \in {"fill", "enqueue", "rollback", "catchRelease"}
      BY <2>1 DEF Prepare, Fill, EnqueueFull, FillError, Raise, Goto, IInv, TypeOK
    <3>2. ~Answered(b) /\ ~Answered(b)'
      BY <3>1 DEF Answered, Outstanding
    <3>3. QED
      BY <3>1, <3>2 DEF phaseBar, answerBar
  <2>2. CASE Enqueue(b)
    <3>1. pc[b] = "enqueue" /\ pc'[b] = "wakebgw" /\ slot'[b] = s
      BY <2>2 DEF Enqueue, Goto, IInv, TypeOK
    <3>2. s \notin Returning /\ state[s] = "PENDING"
      BY <1>1, <3>1, HeldNotReferenced
         DEF IInv, Holding, Outstanding, StateOfHeld, Refs, Working, Returning
    <3>3. s \notin Returning' /\ state'[s] = "PENDING"
      BY <1>1, <3>2, ReturningFrame
    <3>4. ~Answered(b) /\ ~Answered(b)'
      BY <3>1, <3>3 DEF Answered, Outstanding
    <3>5. QED
      BY <3>1, <3>4 DEF phaseBar, answerBar
  <2>3. CASE WakeBgw(b) \/ Check(b) \/ Wake(b) \/ OtherSignal(b)
    <3>1. response' = response
      BY <2>3 DEF WakeBgw, Check, Wake, OtherSignal, slotVars
    <3>2. CASE pc'[b] = "respond"
      <4>1. pc[b] = "check" /\ state[s] = "DONE"
        BY <2>3, <3>2 DEF WakeBgw, Check, Wake, OtherSignal, Goto, backendVars,
           IInv, TypeOK
      <4>2. Answered(b) /\ Answered(b)'
        BY <3>2, <4>1 DEF Answered, Outstanding
      <4>3. Verdict(b)' = Verdict(b)
        BY <1>1, <3>1 DEF Verdict
      <4>4. QED
        BY <3>2, <4>1, <4>2, <4>3 DEF phaseBar, answerBar
    <3>3. CASE pc'[b] # "respond"
      <4>1. pc[b] \in Outstanding /\ pc'[b] \in Outstanding
        <5>1. state[s] # "CANCELED"
          BY <1>2 DEF IInv, StateOfRefs
        <5>2. QED
          BY <2>3, <3>3, <5>1 DEF WakeBgw, Check, Wake, OtherSignal, Goto,
             backendVars, Outstanding, IInv, TypeOK
      <4>2. Returning' = Returning
        BY <1>1, ReturningFrame
      <4>3. Answered(b)' <=> Answered(b)
        BY <1>1, <4>1, <4>2 DEF Answered, Outstanding
      <4>4. Verdict(b)' = Verdict(b)
        BY <1>1, <3>1 DEF Verdict
      <4>5. QED
        BY <4>1, <4>3, <4>4 DEF phaseBar, answerBar, Outstanding
    <3>4. QED
      BY <3>2, <3>3
  <2>4. QED
    BY <2>1, <2>2, <2>3
<1>5. QED
  BY <1>1, <1>3, <1>4, StutterView DEF IInv

\* The call fails: the pool is exhausted, no store is set, the queue is full.
LEMMA FailView ==
  ASSUME IInv, NEW b \in Backends,
         \/ AcquireFail(b) \/ Rollback(b) \/ CatchRelease(b)
         \/ FillError(b) /\ ~HasCatch(op[b])
  PROVE  Service!Fail(b)
<1>1. /\ pc[b] \in {"idle", "fill", "rollback", "catchRelease"}
      /\ End(b, "error") /\ UNCHANGED <<response, bgwVars, grpcVars>>
  <2>1. CASE AcquireFail(b)
    BY <2>1 DEF AcquireFail, slotVars
  <2>2. CASE Rollback(b)
    <3>1. ~HasCatch(op[b])
      BY <2>2 DEF Rollback, IInv, Holding
    <3>2. QED
      BY <2>2, <3>1 DEF Rollback, Raise, Release
  <2>3. CASE CatchRelease(b)
    BY <2>3 DEF CatchRelease, Release
  <2>4. CASE FillError(b) /\ ~HasCatch(op[b])
    BY <2>4 DEF FillError, Raise
  <2>5. QED
    BY <2>1, <2>2, <2>3, <2>4
<1>2. /\ pc'[b] = "idle"
      /\ \A c \in Backends \ {b} :
           pc'[c] = pc[c] /\ op'[c] = op[c] /\ slot'[c] = slot[c]
  BY <1>1 DEF End, IInv, TypeOK
<1>3. \A c \in Backends \ {b} : slot[c] \in Slots \ {slot[b]} \/ pc[c] = "idle"
  <2>1. CASE pc[b] = "idle"
    <3>1. slot[b] = NULL
      BY <2>1 DEF IInv, Holding
    <3>2. QED
      BY <3>1, NullAssumption DEF IInv, TypeOK, Holding
  <2>2. CASE pc[b] # "idle"
    BY <2>2, Apart
  <2>3. QED
    BY <2>1, <2>2
<1>4. \A u \in Slots \ {slot[b]} : state'[u] = state[u]
  BY DEF AcquireFail, Rollback, CatchRelease, FillError, Release, slotVars,
         IInv, TypeOK
<1>5. \A c \in Backends \ {b} :
        phaseBar'[c] = phaseBar[c] /\ answerBar'[c] = answerBar[c]
  BY <1>1, <1>2, <1>3, <1>4, OthersView
<1>6. Service!End(b, "error")
  BY <1>1, <1>2, <1>5, EndView DEF IInv
<1>7. phaseBar[b] \in {"idle", "open"}
  <2>1. ~Answered(b)
    BY <1>1 DEF Answered, Outstanding
  <2>2. QED
    BY <2>1 DEF phaseBar
<1>8. QED
  BY <1>6, <1>7 DEF Service!Fail

\* Reading the response and releasing the slot returns from the call.
LEMMA RespondView ==
  ASSUME IInv, NEW b \in Backends, Respond(b)
  PROVE  Service!Return(b)
<1> DEFINE s == slot[b]
<1>1. PICK r \in Returned(b) : End(b, r)
  BY DEF Respond
<1>2. /\ pc[b] = "respond" /\ Release(s) /\ UNCHANGED <<bgwVars, grpcVars>>
  BY DEF Respond
<1>3. s \in Slots /\ \A c \in Backends \ {b} : slot[c] \in Slots \ {s} \/ pc[c] = "idle"
  BY <1>2, Apart
<1>4. /\ pc'[b] = "idle" /\ response' = response
      /\ \A c \in Backends \ {b} :
           pc'[c] = pc[c] /\ op'[c] = op[c] /\ slot'[c] = slot[c]
      /\ \A u \in Slots \ {s} : state'[u] = state[u]
  BY <1>1, <1>2 DEF End, Release, IInv, TypeOK
<1>5. \A c \in Backends \ {b} :
        phaseBar'[c] = phaseBar[c] /\ answerBar'[c] = answerBar[c]
  BY <1>2, <1>3, <1>4, OthersView
<1>6. Service!End(b, r)
  BY <1>1, <1>4, <1>5, EndView DEF IInv
<1>7. phaseBar[b] = "answered" /\ answerBar[b] = Verdict(b)
  BY <1>2 DEF Answered, phaseBar, answerBar
<1>8. r \in Service!Outcomes(op[b], Verdict(b))
  <2>1. CASE response[s].status # "OK"
    <3>1. Verdict(b) = "fail"
      BY <2>1 DEF Verdict
    <3>2. r \in IF op[b] = "check" THEN {"true", "false"} ELSE {"error"}
      BY <2>1 DEF Returned
    <3>3. QED
      BY <3>1, <3>2 DEF Service!Outcomes
  <2>2. CASE response[s].status = "OK" /\ op[b] # "check"
    <3>1. Verdict(b) = "ok" /\ r = "true"
      BY <2>2 DEF Verdict, Returned
    <3>2. QED
      BY <3>1 DEF Service!Outcomes
  <2>3. CASE response[s].status = "OK" /\ op[b] = "check"
    <3>1. r = IF response[s].allow THEN "true" ELSE "false"
      BY <2>3 DEF Returned
    <3>2. Verdict(b) = IF response[s].allow THEN "allow" ELSE "deny"
      BY <2>3 DEF Verdict
    <3>3. QED
      BY <3>1, <3>2 DEF Service!Outcomes
  <2>4. QED
    BY <2>1, <2>2, <2>3
<1>9. QED
  BY <1>6, <1>7, <1>8 DEF Service!Return

----------------------------------------------------------------------------
(***************************************************************************)
(* The steps of the BGW and of the gRPC callbacks.                         *)
(***************************************************************************)

\* The BGW moves requests and answers along: no call sees it.
LEMMA BgwView ==
  ASSUME IInv, IInv', BgwStep
  PROVE  UNCHANGED <<phaseBar, op, answerBar, result>>
<1>1. UNCHANGED <<pc, op, slot, result, response>>
  BY DEF BgwStep, BgwWake, Drain, BeginProcessing, BeginRelease, BeginEnd,
     Issue, IssueEnd, SwapCompleted, HandleResponse, HandleRelease, WriteDone,
     WakeBackend, HandleEnd, Release, WriteState, slotVars, backendVars
<1>2. ASSUME state' = state, Returning' = Returning
      PROVE  UNCHANGED <<phaseBar, op, answerBar, result>>
  BY <1>1, <1>2, SameView, StutterView DEF IInv
<1>3. CASE BgwWake \/ Drain \/ BeginEnd \/ Issue \/ IssueEnd \/ HandleEnd
  <2>1. /\ state' = state /\ completed' = completed /\ local' = local
        /\ bpc # "done" /\ bpc' # "done"
    BY <1>3 DEF BgwWake, Drain, BeginEnd, Issue, IssueEnd, HandleEnd, slotVars,
       grpcVars
  <2>2. QED
    BY <1>2, <2>1 DEF Returning, Closing
<1>4. CASE WakeBackend
  <2>1. /\ state' = state /\ completed' = completed /\ local' = local
        /\ bpc = "wake" /\ bpc' # "done"
    BY <1>4 DEF WakeBackend, slotVars, grpcVars
  <2>2. QED
    BY <1>2, <2>1 DEF Returning, Closing
<1>5. CASE SwapCompleted
  <2>1. /\ state' = state /\ completed' = << >> /\ local' = completed
        /\ bpc = "swap" /\ bpc' = "handle"
    BY <1>5 DEF SwapCompleted, slotVars
  <2>2. local = << >>
    BY <2>1 DEF IInv, BgwLoops
  <2>3. Returning' = Returning
    BY <2>1, <2>2, ElemsEmpty DEF Returning, Closing
  <2>4. QED
    BY <1>2, <2>1, <2>3
<1>6. CASE HandleResponse
  <2>1. /\ state' = state /\ completed' = completed /\ local # << >>
        /\ local' = Tail(local) /\ bslot' = Head(local) /\ bpc = "handle"
        /\ bpc' \in {"handleRelease", "done"}
    BY <1>6 DEF HandleResponse, slotVars, grpcVars
  <2>2. bpc' = "done"
    BY <2>1 DEF IInv, BgwLoops
  <2>3. Elems(local) = Elems(local') \cup {bslot'}
    BY <2>1, ElemsTail DEF IInv, TypeOK
  <2>4. Returning' = Returning
    BY <2>1, <2>2, <2>3 DEF Returning, Closing
  <2>5. QED
    BY <1>2, <2>1, <2>4
<1>7. CASE BeginProcessing
  <2> DEFINE s == Head(batch)
  <2>1. /\ bpc = "begin" /\ batch # << >>
        /\ completed' = completed /\ local' = local
    BY <1>7 DEF BeginProcessing, grpcVars
  <2>2. s \in Elems(batch)
    BY <2>1, ElemsTail DEF IInv, TypeOK
  <2>3. s \in Slots /\ state[s] = "PENDING"
    BY <2>2, Owner DEF Waiting, Refs, IInv, StateOfRefs
  <2>4. bpc' = "begin" /\ state' = [state EXCEPT ![s] = "PROCESSING"]
    BY <1>7, <2>1, <2>3 DEF BeginProcessing, WriteState
  <2> HIDE DEF s
  <2>5. Returning' = Returning
    BY <2>1, <2>4 DEF Returning, Closing
  <2>6. \A u \in Slots : state'[u] = "DONE" <=> state[u] = "DONE"
    BY <2>3, <2>4 DEF IInv, TypeOK
  <2>7. ASSUME NEW c \in Backends
        PROVE  phaseBar'[c] = phaseBar[c] /\ answerBar'[c] = answerBar[c]
    <3>1. pc[c] # "idle" => slot[c] \in Slots
      BY DEF IInv, TypeOK, Holding
    <3>2. Answered(c)' <=> Answered(c)
      BY <1>1, <2>5, <2>6, <3>1 DEF Answered, Outstanding
    <3>3. Verdict(c)' = Verdict(c)
      BY <1>1 DEF Verdict
    <3>4. QED
      BY <1>1, <3>2, <3>3 DEF phaseBar, answerBar
  <2>8. QED
    BY <1>1, <2>7, StutterView DEF IInv
<1>8. CASE WriteDone
  <2> DEFINE s == bslot
  <2>1. /\ bpc = "done" /\ bpc' = "wake" /\ completed' = completed
        /\ local' = local /\ state' = [state EXCEPT ![s] = "DONE"]
    BY <1>8 DEF WriteDone, WriteState, grpcVars
  <2>2. s \in Slots /\ state'[s] = "DONE"
    BY <2>1 DEF IInv, BgwLoops, TypeOK
  <2>3. \A u \in Slots \ {s} : state'[u] = state[u]
    BY <2>1, <2>2 DEF IInv, TypeOK
  <2>4. s \in Returning /\ Returning = Returning' \cup {s}
    BY <2>1 DEF Returning, Closing
  <2> HIDE DEF s
  <2>5. ASSUME NEW c \in Backends
        PROVE  phaseBar'[c] = phaseBar[c] /\ answerBar'[c] = answerBar[c]
    <3>1. pc[c] # "idle" => slot[c] \in Slots
      BY DEF IInv, TypeOK, Holding
    <3>2. CASE slot[c] = s
      BY <1>1, <2>2, <2>4, <3>2 DEF Answered, Verdict, phaseBar, answerBar
    <3>3. CASE slot[c] # s
      BY <1>1, <2>3, <2>4, <3>1, <3>3, SameView
    <3>4. QED
      BY <3>2, <3>3
  <2>6. QED
    BY <1>1, <2>5, StutterView DEF IInv
<1>9. CASE BeginRelease \/ HandleRelease
  BY <1>9 DEF BeginRelease, HandleRelease, IInv, BgwLoops
<1>10. QED
  BY <1>3, <1>4, <1>5, <1>6, <1>7, <1>8, <1>9 DEF BgwStep

\* A callback answers the call that owns the slot, and no other.
LEMMA RpcCompleteView ==
  ASSUME IInv, KindMatches, NEW r \in Rpc, NEW v \in Verdicts(r.kind),
         RpcComplete(r, v)
  PROVE  \E b \in Backends : \E a \in Answers : Service!Answer(b, a)
<1> DEFINE s == r.slot
<1>1. /\ inflight[r] > 0
      /\ response' = [response EXCEPT ![s] = Reply(r, v)]
      /\ completed' = Append(completed, s)
      /\ UNCHANGED <<state, pc, op, slot, result, local, bpc, bslot>>
  BY DEF RpcComplete, backendVars, bgwVars
<1>2. r \in InFlight /\ s \in InFlightSlots /\ s \in Slots
  BY <1>1 DEF InFlight, InFlightSlots, Rpc
<1>3. PICK b \in Backends : slot[b] = s /\ pc[b] \in Outstanding
  BY <1>2, Owner DEF Refs, Working
<1>4. state[s] = "PROCESSING" /\ request[s].id = r.id /\ s \notin Returning
  BY <1>2 DEF IInv, Identity, StateOfRefs, Working, RequestInOnePlace, Returning
<1>5. (r.kind \in {"check", "batchCheck"}) <=> op[b] = "check"
  BY <1>2, <1>3 DEF KindMatches, IInv, Identity
<1>6. Reply(r, v) = [status |-> IF v = "fail" THEN "CLIENT_ERROR" ELSE "OK",
                     allow |-> IF r.kind \in {"check", "batchCheck"}
                               THEN v = "allow" ELSE response[s].allow,
                     of |-> r.id]
  BY <1>4 DEF Reply, Correlated
<1>7. response'[s] = Reply(r, v)
      /\ \A u \in Slots \ {s} : response'[u] = response[u]
  BY <1>1, <1>2 DEF IInv, TypeOK
<1> HIDE DEF s
<1>8. Returning' = Returning \cup {s}
  <2>1. Elems(completed') = Elems(completed) \cup {s}
    BY <1>1, <1>2, ElemsAppend DEF IInv, TypeOK
  <2>2. QED
    BY <1>1, <2>1 DEF Returning, Closing
<1>9. ASSUME NEW c \in Backends \ {b}
      PROVE  phaseBar'[c] = phaseBar[c] /\ answerBar'[c] = answerBar[c]
  <2>1. slot[c] \in Slots \ {s} \/ pc[c] = "idle"
    BY <1>3, Apart DEF Outstanding
  <2>2. QED
    BY <1>1, <1>7, <1>8, <2>1, SameView DEF Outstanding
<1>10. ~Answered(b) /\ Answered(b)'
  BY <1>1, <1>3, <1>4, <1>8 DEF Answered, Outstanding
<1>11. v \in Service!Possible(op[b])
  <2>1. CASE op[b] = "check"
    BY <1>5, <2>1 DEF Verdicts, Service!Possible
  <2>2. CASE op[b] # "check"
    BY <1>5, <2>2 DEF Verdicts, Service!Possible
  <2>3. QED
    BY <2>1, <2>2
<1>12. Verdict(b)' = v
  <2>1. CASE v = "fail"
    <3>1. response'[s].status = "CLIENT_ERROR"
      BY <1>6, <1>7, <2>1
    <3>2. QED
      BY <1>1, <1>3, <2>1, <3>1 DEF Verdict
  <2>2. CASE v # "fail" /\ op[b] # "check"
    <3>1. response'[s].status = "OK" /\ v = "ok"
      BY <1>6, <1>7, <1>11, <2>2 DEF Service!Possible
    <3>2. QED
      BY <1>1, <1>3, <2>2, <3>1 DEF Verdict
  <2>3. CASE v # "fail" /\ op[b] = "check"
    <3>1. response'[s].status = "OK" /\ response'[s].allow = (v = "allow")
      BY <1>5, <1>6, <1>7, <2>3
    <3>2. v \in {"allow", "deny"}
      BY <1>11, <2>3 DEF Service!Possible
    <3>3. QED
      BY <1>1, <1>3, <2>3, <3>1, <3>2 DEF Verdict
  <2>4. QED
    BY <2>1, <2>2, <2>3
<1>13. phaseBar[b] = "open" /\ phaseBar' = [phaseBar EXCEPT ![b] = "answered"]
  <2>1. phaseBar[b] = "open" /\ phaseBar'[b] = "answered"
    BY <1>1, <1>3, <1>10 DEF phaseBar, Outstanding
  <2>2. QED
    BY <1>9, <2>1 DEF phaseBar
<1>14. answerBar' = [answerBar EXCEPT ![b] = v]
  <2>1. answerBar'[b] = v
    BY <1>10, <1>12 DEF answerBar
  <2>2. QED
    BY <1>9, <2>1 DEF answerBar
<1>15. Service!Answer(b, v)
  BY <1>1, <1>11, <1>13, <1>14 DEF Service!Answer
<1>16. v \in Answers
  BY <1>11 DEF Service!Possible
<1>17. QED
  BY <1>15, <1>16

----------------------------------------------------------------------------
(***************************************************************************)
(* The refinement.                                                         *)
(***************************************************************************)

\* The initial states of the channel are initial states of the service.
LEMMA ServiceInit == Init => Service!Init
<1> SUFFICES ASSUME Init PROVE Service!Init
  OBVIOUS
<1>1. \A b \in Backends : pc[b] = "idle"
  BY DEF Init
<1>2. \A b \in Backends : ~Answered(b)
  BY <1>1 DEF Answered, Outstanding
<1>3. phaseBar = [b \in Backends |-> "idle"]
  BY <1>1 DEF phaseBar
<1>4. answerBar = [b \in Backends |-> "none"]
  BY <1>2 DEF answerBar
<1>5. op = [b \in Backends |-> "none"] /\ result = [b \in Backends |-> "none"]
  BY DEF Init
<1>6. QED
  BY <1>3, <1>4, <1>5 DEF Service!Init

\* Every step of the channel is a step of the service or invisible to it.
LEMMA ServiceStep ==
  ASSUME Calm, IInv, IInv', KindMatches, [Next]_vars
  PROVE  [Service!Next]_(Service!vars)
<1>1. ASSUME UNCHANGED <<phaseBar, op, answerBar, result>>
      PROVE  [Service!Next]_(Service!vars)
  BY <1>1 DEF Service!vars
<1>2. ASSUME NEW b \in Backends, BackendStep(b) \/ EnvStep(b)
      PROVE  [Service!Next]_(Service!vars)
  <2>1. CASE \E o \in Ops : Acquire(b, o)
    <3>1. PICK o \in Ops : Acquire(b, o)
      BY <2>1
    <3>2. Service!Call(b, o)
      BY <3>1, AcquireView DEF IInv
    <3>3. QED
      BY <3>2 DEF Service!Next
  <2>2. CASE \/ Prepare(b) \/ Fill(b) \/ Enqueue(b) \/ EnqueueFull(b)
             \/ WakeBgw(b) \/ Check(b) \/ Wake(b) \/ OtherSignal(b)
             \/ FillError(b) /\ HasCatch(op[b])
    BY <1>1, <2>2, GoOnView
  <2>3. CASE \/ AcquireFail(b) \/ Rollback(b) \/ CatchRelease(b)
             \/ FillError(b) /\ ~HasCatch(op[b])
    <3>1. Service!Fail(b)
      BY <2>3, FailView
    <3>2. QED
      BY <3>1 DEF Service!Next
  <2>4. CASE Respond(b)
    <3>1. Service!Return(b)
      BY <2>4, RespondView
    <3>2. QED
      BY <3>1 DEF Service!Next
  <2>5. CASE CanceledRelease(b) \/ CatchRead(b) \/ CatchCancel(b)
               \/ CatchDone(b) \/ CatchPid(b)
    <3>1. pc[b] \in {"canceledRelease", "catchRead", "catchCancel",
                     "catchDone", "catchPid"}
      BY <2>5 DEF CanceledRelease, CatchRead, CatchCancel, CatchDone, CatchPid,
                  Goto
    <3>2. QED
      BY <3>1 DEF IInv, Holding, Prepared
  <2>6. CASE Cancel(b) \/ CancelReport(b) \/ Die(b) \/ Exit(b)
    BY <2>6 DEF Calm, Cancel, CancelReport, Die, Exit
  <2>7. QED
    BY <1>2, <2>1, <2>2, <2>3, <2>4, <2>5, <2>6 DEF BackendStep, EnvStep
<1>3. CASE BgwStep
  BY <1>1, <1>3, BgwView
<1>4. CASE \E r \in Rpc : \E v \in Verdicts(r.kind) : RpcComplete(r, v)
  <2>1. \E b \in Backends : \E a \in Answers : Service!Answer(b, a)
    BY <1>4, RpcCompleteView
  <2>2. QED
    BY <2>1 DEF Service!Next
<1>5. CASE RpcSignal \/ UNCHANGED vars
  <2>1. UNCHANGED <<pc, op, slot, result, state, response, completed, local,
                    bpc, bslot>>
    BY <1>5 DEF RpcSignal, vars, slotVars, backendVars, bgwVars, grpcVars
  <2>2. Returning' = Returning
    BY <2>1 DEF Returning, Closing
  <2>3. UNCHANGED <<phaseBar, op, answerBar, result>>
    BY <2>1, <2>2, SameView, StutterView DEF IInv
  <2>4. QED
    BY <1>1, <2>3
<1>6. QED
  BY <1>2, <1>3, <1>4, <1>5 DEF Next, GrpcStep, ClientsDone

\* Every SQL function call is answered at most once, by the server's answer to
\* this very call, and returns what that answer says: whatever the number of
\* backends and slots, the batch size, the order of the callbacks and of the
\* wake-ups, as long as no call is interrupted.
THEOREM ChannelImplementsService ==
  ASSUME Calm, Room
  PROVE  Spec => ImplementsService
<1>1. Init => KindMatches
  BY DEF Init, KindMatches, InFlight
<1>2. IInv /\ KindMatches /\ [Next]_vars => KindMatches'
  BY KindStep
<1>3. IInv /\ IInv' /\ KindMatches /\ [Next]_vars
        => [Service!Next]_(Service!vars)
  BY ServiceStep
<1>4. QED
  BY <1>1, <1>2, <1>3, ServiceInit, InvariantHolds, PTL
     DEF Spec, ImplementsService, Service!Spec
=============================================================================

--------------------------- MODULE ChannelProofs ---------------------------
(***************************************************************************)
(* Machine-checked proofs about the request channel.                       *)
(***************************************************************************)
EXTENDS ChannelInv, TLAPS

----------------------------------------------------------------------------
(***************************************************************************)
(* Type correctness, for every environment.                                *)
(***************************************************************************)

\* TypeOK alone is not inductive: a backend enqueues the slot it holds, so it
\* must hold one.
TypeInv ==
  /\ TypeOK
  /\ \A b \in Backends : pc[b] \notin {"idle", "gone"} => slot[b] # NULL

\* pool_init and queue_init establish the types.
LEMMA TypeInit == Init => TypeInv
<1> SUFFICES ASSUME Init PROVE TypeInv
  OBVIOUS
<1> USE DEF Init, PoolLinks, Slots, Ids
<1>1. /\ head \in Slots \cup {NULL}
      /\ next \in [Slots -> Slots \cup {NULL}]
  BY SlotCountAssumption
<1>2. /\ state \in [Slots -> SlotStates]
      /\ backend_pid \in [Slots -> Backends \cup {InvalidPid}]
      /\ request \in [Slots -> Request]
      /\ response \in [Slots -> Response]
  BY MaxRequestsAssumption
     DEF SlotStates, Request, Response, ZeroResponse
<1>3. /\ queue \in Seq(Slots) /\ batch \in Seq(Slots) /\ items \in Seq(Slots)
      /\ local \in Seq(Slots) /\ completed \in Seq(Slots)
      /\ Len(queue) < QueueCapacity
  BY QueueCapacityAssumption
<1>4. /\ request_id \in Ids /\ rid \in [Backends -> Ids]
  BY MaxRequestsAssumption
<1>5. /\ pc \in [Backends -> BackendPC]
      /\ bpc \in BgwPC
  BY DEF BackendPC, BgwPC
<1>6. QED
  BY <1>1, <1>2, <1>3, <1>4, <1>5 DEF TypeInv, TypeOK

\* Releasing a slot keeps the types of the pool and of the slots.
LEMMA ReleaseType ==
  ASSUME TypeInv, NEW s \in Slots \cup {NULL}, Release(s)
  PROVE  /\ state' \in [Slots -> SlotStates]
         /\ head' \in Slots \cup {NULL}
         /\ next' \in [Slots -> Slots \cup {NULL}]
         /\ UNCHANGED <<backend_pid, request, response>>
BY DEF TypeInv, TypeOK, Release, SlotStates

\* Raising an error leaves the backend in its PG_CATCH or idle.
LEMMA RaiseType ==
  ASSUME TypeInv, NEW b \in Backends, Raise(b)
  PROVE  /\ pc' \in [Backends -> BackendPC]
         /\ op' \in [Backends -> Ops \cup {"none"}]
         /\ slot' \in [Backends -> Slots \cup {NULL}]
         /\ result' \in [Backends -> {"none", "true", "false", "error"}]
         /\ UNCHANGED rid
         /\ pc[b] \notin {"idle", "gone"} =>
              \A c \in Backends : pc'[c] \notin {"idle", "gone"} => slot'[c] # NULL
BY DEF TypeInv, TypeOK, Raise, End, BackendPC

\* Every step keeps the types, one action at a time.
LEMMA TypeStep == TypeInv /\ [Next]_vars => TypeInv'
<1> SUFFICES ASSUME TypeInv, [Next]_vars PROVE TypeInv'
  OBVIOUS
<1> USE DEF TypeInv, TypeOK, slotVars, backendVars, bgwVars, grpcVars
<1>1. ASSUME NEW b \in Backends, NEW o \in Ops, Acquire(b, o) PROVE TypeInv'
  BY <1>1, MaxRequestsAssumption DEF Acquire, Goto, Ids, SlotStates, BackendPC
<1>2. ASSUME NEW b \in Backends, Prepare(b) PROVE TypeInv'
  <2>1. ZeroResponse \in Response /\ [id |-> rid[b], type |-> "none"] \in Request
    BY MaxRequestsAssumption DEF ZeroResponse, Response, Request, Ids
  <2>2. QED
    BY <1>2, <2>1 DEF Prepare, Goto, BackendPC
<1>3. ASSUME NEW b \in Backends, Fill(b) PROVE TypeInv'
  BY <1>3 DEF Fill, Goto, Request, BackendPC
<1>4. ASSUME NEW b \in Backends, FillError(b) PROVE TypeInv'
  <2>1. request' \in [Slots -> Request]
    BY <1>4 DEF FillError, Request
  <2>2. QED
    BY <1>4, <2>1, RaiseType DEF FillError
<1>5. ASSUME NEW b \in Backends, Enqueue(b) PROVE TypeInv'
  BY <1>5, QueueCapacityAssumption DEF Enqueue, Goto, BackendPC
<1>6. ASSUME NEW b \in Backends, EnqueueFull(b) PROVE TypeInv'
  BY <1>6 DEF EnqueueFull, Goto, BackendPC
<1>7. ASSUME NEW b \in Backends, Rollback(b) PROVE TypeInv'
  BY <1>7, ReleaseType, RaiseType DEF Rollback
<1>8. ASSUME NEW b \in Backends, WakeBgw(b) PROVE TypeInv'
  BY <1>8 DEF WakeBgw, Goto, BackendPC
<1>9. ASSUME NEW b \in Backends, Check(b) PROVE TypeInv'
  BY <1>9 DEF Check, Goto, BackendPC
<1>10. ASSUME NEW b \in Backends, Wake(b) PROVE TypeInv'
  BY <1>10 DEF Wake, Goto, BackendPC
<1>11. ASSUME NEW b \in Backends, Respond(b) PROVE TypeInv'
  BY <1>11, ReleaseType DEF Respond, Returned, End, BackendPC
<1>12. ASSUME NEW b \in Backends, CanceledRelease(b) PROVE TypeInv'
  BY <1>12, ReleaseType, RaiseType DEF CanceledRelease
<1>13. ASSUME NEW b \in Backends, Cancel(b) PROVE TypeInv'
  BY <1>13 DEF Cancel, Goto, BackendPC
<1>14. ASSUME NEW b \in Backends, CatchRead(b) PROVE TypeInv'
  BY <1>14 DEF CatchRead, Goto, BackendPC
<1>15. ASSUME NEW b \in Backends, CatchCancel(b) PROVE TypeInv'
  BY <1>15 DEF CatchCancel, Goto, WriteState, SlotStates, BackendPC
<1>16. ASSUME NEW b \in Backends, CatchDone(b) PROVE TypeInv'
  BY <1>16, ReleaseType DEF CatchDone, Goto, BackendPC
<1>17. ASSUME NEW b \in Backends, CatchPid(b) PROVE TypeInv'
  BY <1>17, RaiseType DEF CatchPid
<1>18. ASSUME NEW b \in Backends, CatchRelease(b) PROVE TypeInv'
  BY <1>18, ReleaseType DEF CatchRelease, End, BackendPC
<1>19. ASSUME NEW b \in Backends, Die(b) PROVE TypeInv'
  BY <1>19 DEF Die, BackendPC
<1>20. ASSUME NEW b \in Backends, Exit(b) PROVE TypeInv'
  BY <1>20 DEF Exit, Goto, BackendPC
<1>21. ASSUME NEW b \in Backends, OtherSignal(b) PROVE TypeInv'
  BY <1>21 DEF OtherSignal
<1>22. ASSUME NEW b \in Backends, AcquireFail(b) PROVE TypeInv'
  BY <1>22 DEF AcquireFail, End, BackendPC
<1>23. CASE BgwWake
  BY <1>23 DEF BgwWake, BgwPC
<1>24. CASE Drain
  <2> DEFINE n == IF Len(queue) < MaxBatch THEN Len(queue) ELSE MaxBatch
  <2>1. n \in 0 .. Len(queue)
    BY MaxBatchAssumption
  <2>2. SubSeq(queue, 1, n) \in Seq(Slots)
    BY <2>1
  <2>3. /\ SubSeq(queue, n + 1, Len(queue)) \in Seq(Slots)
        /\ Len(SubSeq(queue, n + 1, Len(queue))) <= Len(queue)
    BY <2>1
  <2>4. /\ queue' \in Seq(Slots) /\ Len(queue') < QueueCapacity
        /\ batch' \in Seq(Slots)
    BY <1>24, <2>2, <2>3, QueueCapacityAssumption DEF Drain
  <2>5. QED
    BY <1>24, <2>4 DEF Drain, BgwPC
<1>25. CASE BeginProcessing
  <2>1. Head(batch) \in Slots /\ Tail(batch) \in Seq(Slots)
    BY <1>25 DEF BeginProcessing
  <2>2. /\ batch' \in Seq(Slots)
        /\ items' \in Seq(Slots)
    <3>1. Append(items, Head(batch)) \in Seq(Slots)
      BY <2>1
    <3>2. items' = items \/ items' = Append(items, Head(batch))
      BY <1>25 DEF BeginProcessing
    <3>3. batch' = Tail(batch)
      BY <1>25 DEF BeginProcessing
    <3>4. QED
      BY <2>1, <3>1, <3>2, <3>3
  <2>5. bslot' \in Slots \cup {NULL} /\ bpc' \in BgwPC
    BY <1>25, <2>1 DEF BeginProcessing, BgwPC
  <2>3. /\ state' \in [Slots -> SlotStates]
        /\ UNCHANGED <<backend_pid, request, response, head, next>>
    BY <1>25, <2>1 DEF BeginProcessing, WriteState, SlotStates
  <2>6. QED
    BY <1>25, <2>2, <2>3, <2>5 DEF BeginProcessing
<1>26. CASE BeginRelease
  BY <1>26, ReleaseType DEF BeginRelease, BgwPC
<1>27. CASE BeginEnd
  BY <1>27 DEF BeginEnd, BgwPC
<1>28. CASE Issue
  BY <1>28 DEF Issue
<1>29. CASE IssueEnd
  BY <1>29 DEF IssueEnd, BgwPC
<1>30. CASE SwapCompleted
  BY <1>30 DEF SwapCompleted, BgwPC
<1>31. CASE HandleResponse
  BY <1>31 DEF HandleResponse, BgwPC
<1>32. CASE HandleRelease
  BY <1>32, ReleaseType DEF HandleRelease, BgwPC
<1>33. CASE WriteDone
  BY <1>33 DEF WriteDone, WriteState, SlotStates, BgwPC
<1>34. CASE WakeBackend
  BY <1>34 DEF WakeBackend, Alive, BgwPC
<1>35. CASE HandleEnd
  BY <1>35 DEF HandleEnd, BgwPC
<1>36. CASE RpcSignal
  BY <1>36 DEF RpcSignal
<1>37. ASSUME NEW r \in Rpc, NEW v \in Verdicts(r.kind), RpcComplete(r, v) PROVE TypeInv'
  <2>1. r.slot \in Slots /\ r.id \in Ids
    BY DEF Rpc
  <2>2. Reply(r, v) \in Response
    <3> DEFINE a == IF r.kind \in {"check", "batchCheck"} THEN v = "allow"
                    ELSE response[r.slot].allow
    <3>1. response[r.slot].allow \in BOOLEAN
      BY <2>1 DEF Response
    <3>2. a \in BOOLEAN
      BY <3>1
    <3>3. 0 \in Ids
      BY MaxRequestsAssumption DEF Ids
    <3> HIDE DEF a
    <3>4. CASE Correlated(r)
      <4>1. Reply(r, v) = [status |-> IF v = "fail" THEN "CLIENT_ERROR"
                                      ELSE "OK", allow |-> a, of |-> r.id]
        BY <3>4 DEF Reply, a
      <4>2. QED
        BY <2>1, <3>2, <4>1 DEF Response
    <3>5. CASE ~Correlated(r)
      BY <3>3, <3>5 DEF Reply, Response
    <3>6. QED
      BY <3>4, <3>5
  <2>3. completed' \in Seq(Slots)
    BY <1>37, <2>1 DEF RpcComplete
  <2>4. inflight' \in [Rpc -> Nat]
    BY <1>37 DEF RpcComplete
  <2>5. response' \in [Slots -> Response]
    BY <1>37, <2>2 DEF RpcComplete
  <2>6. QED
    BY <1>37, <2>3, <2>4, <2>5 DEF RpcComplete
<1>38. ASSUME NEW b \in Backends, CancelReport(b) PROVE TypeInv'
  <2>1. latch' \in [Backends -> BOOLEAN] /\ pc[b] \notin {"idle", "gone"}
    BY <1>38 DEF CancelReport, Reporting
  <2>2. UNCHANGED <<slotVars, queue, request_id, bgw_latch, bgwVars, grpcVars>>
    BY <1>38 DEF CancelReport
  <2>3. QED
    BY <1>38, <2>1, <2>2, RaiseType DEF CancelReport
<1>39. CASE UNCHANGED vars
  BY <1>39 DEF vars
<1>40. QED
  BY <1>1, <1>2, <1>3, <1>4, <1>5, <1>6, <1>7, <1>8, <1>9, <1>10, <1>11,
     <1>12, <1>13, <1>14, <1>15, <1>16, <1>17, <1>18, <1>19, <1>20, <1>21,
     <1>22, <1>23, <1>24, <1>25, <1>26, <1>27, <1>28, <1>29, <1>30, <1>31,
     <1>32, <1>33, <1>34, <1>35, <1>36, <1>37, <1>38, <1>39 DEF Next,
     BackendStep, EnvStep, BgwStep, GrpcStep, ClientsDone

\* Every reachable state is well typed, whatever the environment does to the
\* backends; in particular the ring never holds QueueCapacity indices and the
\* BGW never indexes the pool with a null slot.
THEOREM TypeCorrect == Spec => []TypeOK
<1>1. TypeInv => TypeOK
  BY DEF TypeInv
<1>2. QED
  BY <1>1, TypeInit, TypeStep, PTL DEF Spec

----------------------------------------------------------------------------
(***************************************************************************)
(* The BGW and the gRPC threads, for every environment.                    *)
(***************************************************************************)

\* A backend touches nothing of the BGW but its queue and its latch, and the
\* latch it only sets.
LEMMA BackendFrame ==
  ASSUME NEW b \in Backends, BackendStep(b) \/ EnvStep(b)
  PROVE  /\ UNCHANGED <<bgwVars, grpcVars>>
         /\ bgw_latch' = bgw_latch \/ bgw_latch' = TRUE
<1>1. CASE BackendStep(b)
  BY <1>1 DEF BackendStep, Prepare, Fill, Enqueue, EnqueueFull, Rollback,
     WakeBgw, Check, Wake, Respond, CanceledRelease, CatchRead, CatchCancel,
     CatchDone, CatchPid, CatchRelease
<1>2. CASE EnvStep(b)
  BY <1>2 DEF EnvStep, Acquire, AcquireFail, FillError, Cancel, CancelReport,
     Die, Exit, OtherSignal
<1>3. QED
  BY <1>1, <1>2

\* Whatever happens to the backends, the BGW never sleeps on an answer that a
\* gRPC thread has put on completed_queue_: its latch is set, is about to be
\* set, or the BGW has yet to look at the queue in this round.
THEOREM CompletionNotLost == Spec => []NoLostCompletion
<1>1. Init => NoLostCompletion
  BY DEF Init, NoLostCompletion
<1>2. TypeInv /\ NoLostCompletion /\ [Next]_vars => NoLostCompletion'
  <2> SUFFICES ASSUME TypeInv, NoLostCompletion, [Next]_vars
               PROVE  NoLostCompletion'
    OBVIOUS
  <2> USE DEF NoLostCompletion
  <2>1. ASSUME NEW b \in Backends, BackendStep(b) \/ EnvStep(b)
        PROVE  NoLostCompletion'
    BY <2>1, BackendFrame DEF bgwVars, grpcVars
  <2>2. CASE BgwStep
    BY <2>2 DEF BgwStep, BgwWake, Drain, BeginProcessing, BeginRelease,
       BeginEnd, Issue, IssueEnd, SwapCompleted, HandleResponse,
       HandleRelease, WriteDone, WakeBackend, HandleEnd, grpcVars
  <2>3. CASE GrpcStep
    BY <2>3 DEF GrpcStep, RpcComplete, RpcSignal, TypeInv, TypeOK
  <2>4. CASE UNCHANGED vars
    BY <2>4 DEF vars, bgwVars, grpcVars
  <2>5. QED
    BY <2>1, <2>2, <2>3, <2>4 DEF Next, ClientsDone
<1>3. QED
  BY <1>1, <1>2, TypeInit, TypeStep, PTL DEF Spec
=============================================================================

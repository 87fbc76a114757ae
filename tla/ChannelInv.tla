----------------------------- MODULE ChannelInv -----------------------------
(***************************************************************************)
(* The inductive invariant behind the safety properties of Channel.  It    *)
(* holds when no backend is interrupted or goes away in the middle of a    *)
(* call (Calm) and a request that carries a PG_CATCH cannot meet a full    *)
(* queue (Room).                                                           *)
(***************************************************************************)
EXTENDS Channel

\* No query cancel, no termination, no disconnect.
Calm == Env \subseteq {"nostore", "signal"}

\* Every backend fits in the queue at once, or only fga_check, which has no
\* PG_CATCH of its own, can be turned away.
Room == \/ Ops \subseteq {"check"}
        \/ IsFiniteSet(Backends) /\ Cardinality(Backends) < QueueCapacity

\* Positions at which the slot carries its owner's pid and request id.
Prepared == {"fill", "enqueue", "rollback", "wakebgw", "check", "sleep",
             "respond", "catchRelease"}

\* A backend holds a slot from acquire to release, and is in no other place.
Holding ==
  \A b \in Backends :
    /\ slot[b] = NULL <=> pc[b] = "idle"
    /\ pc[b] # "idle" => op[b] \in Ops
    /\ pc[b] \in {"idle", "prepare"} \cup Prepared
    /\ pc[b] = "rollback" => ~HasCatch(op[b])

\* The free list: all its nodes are EMPTY, no two share a successor, and
\* nothing precedes the head.
FreeList ==
  LET free == {s \in Slots : state[s] = "EMPTY"}
  IN  /\ head # NULL => head \in free
      /\ \A s \in free :
           next[s] # NULL => next[s] \in free /\ next[s] # head
      /\ \A s, t \in free : next[s] = next[t] /\ next[s] # NULL => s = t

\* What the state word says while a backend is at each position.
StateOfHeld ==
  \A b \in Backends :
    /\ pc[b] \in {"prepare", "fill", "enqueue", "rollback", "catchRelease"}
         => state[slot[b]] = "PENDING"
    /\ pc[b] = "respond" => state[slot[b]] = "DONE"

\* Slots on their way to the BGW are PENDING, those it works on PROCESSING,
\* and none is CANCELED.
StateOfRefs ==
  /\ \A s \in Waiting : state[s] = "PENDING"
  /\ \A s \in Working : state[s] = "PROCESSING"
  /\ \A s \in Slots : state[s] # "CANCELED"

\* The lists of the BGW are empty outside the loop that runs over them.
BgwLoops ==
  /\ bpc \notin {"beginRelease", "handleRelease"}
  /\ batch # << >> => bpc = "begin"
  /\ items # << >> => bpc \in {"begin", "issue"}
  /\ local # << >> => bpc \in {"handle", "done", "wake"}
  /\ bpc \in {"done", "wake"} =>
       bslot \in Slots /\ backend_pid[bslot] \in Backends

\* pid, id, type and answer belong to the request the slot carries.
Identity ==
  /\ \A b \in Backends :
       /\ pc[b] \in Prepared => /\ backend_pid[slot[b]] = b
                                /\ request[slot[b]].id = rid[b]
       /\ pc[b] \in Outstanding \cup {"enqueue"}
            => request[slot[b]].type = op[b]
       /\ pc[b] \in Outstanding \cup {"respond"} /\ state[slot[b]] = "DONE"
            => response[slot[b]].of = rid[b]
  /\ \A r \in InFlight : r.id = request[r.slot].id
  /\ \A s \in Elems(completed) \cup Elems(local) \cup Closing :
       response[s].of = request[s].id

\* NoStrandedRequest, for every position of the BGW.
Served ==
  bpc # "drain" /\ queue # << >>
    => \/ bgw_latch
       \/ \E b \in Backends : pc[b] = "wakebgw"
       \/ signals > 0
       \/ InFlight # {}
       \/ batch # << >>
       \/ items # << >>

\* The inductive invariant of the channel: everything above, together with
\* the properties of Channel that are part of it.
IInv ==
  /\ TypeOK
  /\ Holding
  /\ SlotExclusive
  /\ FreeList
  /\ StateOfHeld
  /\ StateOfRefs
  /\ RequestInOnePlace
  /\ NoOrphan
  /\ BgwLoops
  /\ Identity
  /\ NoLostWakeup
  /\ Served
=============================================================================

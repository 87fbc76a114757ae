---------------------------- MODULE VerdictCache ----------------------------
(***************************************************************************)
(* What the ACL cache promises its callers, whatever its levels, ways,     *)
(* victims and locks do: a look-up may always miss, and when it answers,   *)
(* the answer is a verdict that was stored for that very tuple and had not *)
(* expired when the look-up read the clock.                                *)
(***************************************************************************)
EXTENDS Naturals

CONSTANTS Backends, Hashes, TTLs, MaxTime, NULL

VARIABLES
  now,      \* the clock, in ms
  stored,   \* every verdict ever stored, with the time it expires
  asked,    \* the look-up a backend is in the middle of
  answer    \* what a look-up returned, if the last step ended one

vars == <<now, stored, asked, answer>>

Fact == [hash : Hashes, allowed : BOOLEAN, expires : Nat]
Asked == [hash : Hashes, since : Nat]
Outcomes == {"allowed", "denied", "miss"}
Answer == [hash : Hashes, verdict : Outcomes]

Verdict(allowed) == IF allowed THEN "allowed" ELSE "denied"

\* A look-up of hash h that began at time t may return outcome v.
Backed(h, t, v) ==
  v # "miss" => \E f \in stored : f.hash = h /\ Verdict(f.allowed) = v /\ f.expires > t

Init ==
  /\ now = 0
  /\ stored = {}
  /\ asked = [b \in Backends |-> NULL]
  /\ answer = NULL

Store(h, allowed, ttl) ==
  /\ stored' = stored \cup {[hash |-> h, allowed |-> allowed, expires |-> now + ttl]}
  /\ UNCHANGED <<now, asked>> /\ answer' = NULL

Ask(b, h) ==
  /\ asked[b] = NULL
  /\ asked' = [asked EXCEPT ![b] = [hash |-> h, since |-> now]]
  /\ UNCHANGED <<now, stored>> /\ answer' = NULL

Reply(b, v) ==
  /\ asked[b] # NULL
  /\ Backed(asked[b].hash, asked[b].since, v)
  /\ asked' = [asked EXCEPT ![b] = NULL]
  /\ answer' = [hash |-> asked[b].hash, verdict |-> v]
  /\ UNCHANGED <<now, stored>>

\* Question and answer in one step.
ReplyAtOnce(b, h, v) ==
  /\ asked[b] = NULL
  /\ Backed(h, now, v)
  /\ answer' = [hash |-> h, verdict |-> v]
  /\ UNCHANGED <<now, stored, asked>>

\* The system clock advances.
Clock ==
  /\ now' \in now .. MaxTime
  /\ UNCHANGED <<stored, asked>> /\ answer' = NULL

Next ==
  \/ \E h \in Hashes, allowed \in BOOLEAN, ttl \in TTLs : Store(h, allowed, ttl)
  \/ \E b \in Backends, h \in Hashes : Ask(b, h)
  \/ \E b \in Backends, v \in Outcomes : Reply(b, v)
  \/ \E b \in Backends, h \in Hashes, v \in Outcomes : ReplyAtOnce(b, h, v)
  \/ Clock

Spec == Init /\ [][Next]_vars
=============================================================================

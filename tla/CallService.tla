---------------------------- MODULE CallService ----------------------------
(***************************************************************************)
(* What the channel promises the SQL functions: a call is answered by the  *)
(* OpenFGA server at most once, with an answer meant for that call, and    *)
(* returns what that answer says; or it fails without an answer.  Nothing  *)
(* of slots, queues, batches or latches is visible.                        *)
(***************************************************************************)
CONSTANTS Backends, Ops, Answers

VARIABLES
  phase,    \* of each backend's call: "idle", "open", "answered"
  kind,     \* the SQL function it called
  answer,   \* the server's answer, once there is one
  result    \* what the last call returned

vars == <<phase, kind, answer, result>>

Init ==
  /\ phase = [b \in Backends |-> "idle"]
  /\ kind = [b \in Backends |-> "none"]
  /\ answer = [b \in Backends |-> "none"]
  /\ result = [b \in Backends |-> "none"]

Call(b, o) ==
  /\ phase[b] = "idle"
  /\ phase' = [phase EXCEPT ![b] = "open"]
  /\ kind' = [kind EXCEPT ![b] = o]
  /\ result' = [result EXCEPT ![b] = "none"]
  /\ UNCHANGED answer

\* What the server may answer to a call of each kind.
Possible(o) ==
  Answers \cap (IF o = "check" THEN {"allow", "deny", "fail"} ELSE {"ok", "fail"})

Answer(b, a) ==
  /\ phase[b] = "open"
  /\ a \in Possible(kind[b])
  /\ phase' = [phase EXCEPT ![b] = "answered"]
  /\ answer' = [answer EXCEPT ![b] = a]
  /\ UNCHANGED <<kind, result>>

\* What the SQL function makes of the answer.  fga_check promises nothing when
\* the server could not answer; the others raise an error.
Outcomes(o, a) ==
  CASE a = "allow" -> {"true"}
    [] a = "deny" -> {"false"}
    [] a = "ok" -> {"true"}
    [] a = "fail" -> IF o = "check" THEN {"true", "false"} ELSE {"error"}

End(b, r) ==
  /\ phase' = [phase EXCEPT ![b] = "idle"]
  /\ kind' = [kind EXCEPT ![b] = "none"]
  /\ answer' = [answer EXCEPT ![b] = "none"]
  /\ result' = [result EXCEPT ![b] = r]

Return(b) ==
  /\ phase[b] = "answered"
  /\ \E r \in Outcomes(kind[b], answer[b]) : End(b, r)

\* The call is turned away, or finds no store to ask: it fails unanswered.
Fail(b) ==
  /\ phase[b] \in {"idle", "open"}
  /\ End(b, "error")

Next ==
  \E b \in Backends :
    \/ \E o \in Ops : Call(b, o)
    \/ \E a \in Answers : Answer(b, a)
    \/ Return(b)
    \/ Fail(b)

Spec == Init /\ [][Next]_vars
=============================================================================

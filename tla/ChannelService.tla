--------------------------- MODULE ChannelService ---------------------------
(***************************************************************************)
(* The channel implements CallService: slots, queue, batches and latches   *)
(* map to the phase of each backend's call.                                *)
(***************************************************************************)
EXTENDS ChannelInv

\* Slots whose answer is on its way back to the backend.
Returning == Elems(completed) \cup Elems(local) \cup Closing

\* The answer is in the slot, on its way back or already DONE.
Answered(b) ==
  \/ pc[b] = "respond"
  \/ /\ pc[b] \in Outstanding
     /\ state[slot[b]] = "DONE" \/ slot[b] \in Returning

\* The server's answer, read back from the response.
Verdict(b) ==
  IF response[slot[b]].status # "OK" THEN "fail"
  ELSE IF op[b] # "check" THEN "ok"
  ELSE IF response[slot[b]].allow THEN "allow" ELSE "deny"

phaseBar == [b \in Backends |-> IF pc[b] \in {"idle", "gone"} THEN "idle"
                                ELSE IF Answered(b) THEN "answered" ELSE "open"]
answerBar == [b \in Backends |-> IF Answered(b) THEN Verdict(b) ELSE "none"]

Service == INSTANCE CallService WITH phase <- phaseBar, kind <- op,
                                     answer <- answerBar

\* Every call of a SQL function behaves like a call of CallService: one answer
\* at most, the server's answer to this call, and the result it stands for.
ImplementsService == Service!Spec
=============================================================================

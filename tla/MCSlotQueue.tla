---------------------------- MODULE MCSlotQueue ----------------------------
(***************************************************************************)
(* The ring with wrapping counters, and the sizes it is created with.  The *)
(* server starts with any max_connections.  What the ring does depends on  *)
(* its length alone, which is Capacity here: one setting is enough for it. *)
(***************************************************************************)
EXTENDS SlotQueue, ChannelShmem

MCInit == Init /\ max_connections \in 1 .. MaxConnections

MCNext ==
  /\ IF max_connections = 1 THEN Next ELSE UNCHANGED vars
  /\ UNCHANGED max_connections

MCSpec == MCInit /\ [][MCNext]_<<vars, max_connections>>
=============================================================================

---------------------------- MODULE ChannelShmem ----------------------------
(***************************************************************************)
(* How the channel is sized when the postmaster starts: from the setting   *)
(* max_connections to the number of slots, the length of the ring and the  *)
(* 16-bit mask of its counters.  Integers keep their C widths.             *)
(***************************************************************************)
EXTENDS Integers

CONSTANTS
  MaxConnections   \* bound: the settings of max_connections that are tried

ASSUME MaxConnectionsAssumption == MaxConnections \in Nat \ {0}

VARIABLES
  max_connections  \* the setting, which stays as it is while the server runs

U16(x) == x % 2^16

\* A word as the set of its bits, and back.  The words here are at most 16384,
\* so the upper half of the uint32 stays zero.
Bits(x) == {i \in 0 .. 15 : (x \div (2^i)) % 2 = 1}
Number(B) ==
  LET v(i) == IF i \in B THEN 2^i ELSE 0
  IN  v(0) + v(1) + v(2) + v(3) + v(4) + v(5) + v(6) + v(7) + v(8) + v(9) + v(10)
        + v(11) + v(12) + v(13) + v(14) + v(15)

\* x |= x >> k
OrShifted(B, k) == B \cup {i \in 0 .. 15 : i + k \in B}

\* Mutant: the last fill step but one is left out.
pow2_ceil_short(x) ==
  IF x = 0 THEN 1
  ELSE LET b == OrShifted(Bits(x - 1), 1)
           c == OrShifted(b, 2)
           d == OrShifted(c, 4)
           e == OrShifted(d, 16)
       IN  Number(e) + 1

pow2_ceil(x) ==
  IF x = 0 THEN 1
  ELSE LET b == OrShifted(Bits(x - 1), 1)
           c == OrShifted(b, 2)
           d == OrShifted(c, 4)
           e == OrShifted(d, 8)
           f == OrShifted(e, 16)
       IN  Number(f) + 1

\* Mutant: the lower clamp is left out, and a slot is kept for each connection.
compute_slot_size_mutant ==
  IF max_connections > 16384 THEN 16384 ELSE max_connections

\* max_slots has no GUC and stays 0, so the setting decides.
compute_slot_size ==
  LET slots == max_connections * 2
  IN  IF slots < 1024 THEN 1024
      ELSE IF slots > 16384 THEN 16384
      ELSE slots

\* fga_channel_shmem_size, from the shmem_request hook: what is asked for.
fga_channel_shmem_size ==
  LET n == compute_slot_size IN [slots |-> n, ring |-> pow2_ceil(n)]

\* fga_channel_shmem_init, from the shmem_startup hook: the slots pool_init
\* links, and the ring; queue_init takes its capacity as a uint16_t.
fga_channel_shmem_init ==
  LET n == compute_slot_size
      length == U16(pow2_ceil(n))
  IN  [slots |-> n, ring |-> length, mask |-> U16(length - 1)]

----------------------------------------------------------------------------
\* Whatever max_connections is, the ring fits in what was reserved, its length
\* is the least power of two that is no less than the number of slots, and it
\* survived the cut to 16 bits: masking reaches exactly the array, as
\* queue_init asserts.
RingFits ==
  LET asked == fga_channel_shmem_size
      made == fga_channel_shmem_init
  IN  /\ made.slots = asked.slots /\ made.ring = asked.ring
      /\ made.mask + 1 = made.ring
      /\ \E n \in 0 .. 15 : made.ring = 2^n
      /\ made.slots <= made.ring /\ made.ring < 2 * made.slots

\* Up to 16383 connections there is a slot for every backend, and the queue takes
\* a request of all of them at once, so that no call is turned away by a full
\* queue: the assumption Room of ChannelInv.
RoomForAll ==
  max_connections < 16384 => /\ max_connections <= fga_channel_shmem_init.slots
                             /\ max_connections < fga_channel_shmem_init.ring
=============================================================================

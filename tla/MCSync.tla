------------------------------- MODULE MCSync -------------------------------
(* A top master and two levels of slaves, with clocks that wrap.  The guard  *)
(* is enough for the first level and not for the second.                     *)
EXTENDS Sync

MCOffsets == [n \in Nodes |-> (n * 37) % ClockMod]

=============================================================================

------------------------------ MODULE MCHostTx ------------------------------
(* One peer, short slots, and a queue of two frames.                        *)
EXTENDS HostTx

\* The peer shares no slot with us (its channel sequence is not known yet),
\* one slot, or two that are adjacent across the end of the sequence.
MCMatches == {{}, {1}, {0, 2}}

=============================================================================

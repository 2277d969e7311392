------------------------------- MODULE MCDaemon ------------------------------
(* Short slots.  The daemon sets a sequence of one channel; libawdl also     *)
(* has sequences of several channels and with slots that are not used.  The  *)
(* two options do not interact: each value of each of them is enough.        *)
EXTENDS Daemon

MCOptions == {[no_monitor |-> FALSE, host |-> TRUE], [no_monitor |-> TRUE, host |-> FALSE]}

Static == [i \in 0 .. Slots - 1 |-> 6]

Idle == [i \in 0 .. Slots - 1 |-> IF i = 0 THEN 149 ELSE IF i = 1 THEN 6 ELSE 0]

MCSequences == {Static, Idle}
=============================================================================

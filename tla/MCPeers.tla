------------------------------ MODULE MCPeers -------------------------------
(* One node, one neighbour, and the advertisements that matter.             *)
EXTENDS Peers

Adv(m, s, c, h) == [master |-> m, sync |-> s, counter |-> 0, metric |-> c, height |-> h]

\* A neighbour that follows address 9 or the node itself, one that is as
\* far from the top as the tree allows, and one whose height wraps.
RichAdverts == {Adv(9, 9, 2, 0), Adv(9, 1, 2, 1), Adv(9, 9, 0, 1),
                Adv(9, 9, 2, 2), Adv(9, 9, 2, 7)}

MCVersions == {[version |-> 1, devclass |-> 1], [version |-> 1, devclass |-> 0]}

=============================================================================

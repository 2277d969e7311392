--------------------------- MODULE MCElectionNet ----------------------------
(* OWL nodes and a foreign node of higher rank but lower address.            *)
EXTENDS ElectionNet

Links(S) == {l \in S \X (S \cap Nodes) : l[1] # l[2]}

\* Two nodes and the foreign node hear each other.
Mesh == Links({0, 1, 2})

\* One-way links: the foreign node's claim goes round and round three nodes,
\* none of which hears the one that follows it.
Ring == {<<0, 1>>, <<1, 2>>, <<2, 3>>, <<3, 1>>}

MCRanges == {Mesh, Ring}

OneRange == {Links(All)}

=============================================================================

---------------------------- MODULE MCElectionRun ---------------------------
(* A node with address 2, one smaller and two larger neighbours.            *)
EXTENDS ElectionRun

CONSTANTS PeerHeights, PeerMetrics, PeerCounters

MCOwnClaims == {SelfClaim(Self, 0, 1)}

\* Claims peer p may have stored: it follows address 9 through 9 or
\* through the node itself.
ClaimsOf(p, hs) ==
  [self: {p}, master: {9}, sync: {9, Self}, counter: PeerCounters,
   metric: PeerMetrics, height: hs]

EntryOf(p, hs) ==
  {{}} \cup {{[claim |-> c, valid |-> v]} : c \in ClaimsOf(p, hs), v \in BOOLEAN}

MCPeerTables ==
  {S \cup T \cup U : S \in EntryOf(1, PeerHeights), T \in EntryOf(3, PeerHeights),
                     U \in {{}} \cup {{[claim |-> c, valid |-> TRUE]} :
                                        c \in {d \in ClaimsOf(4, {0, 1}) : d.sync = 9 /\ d.counter = 0}}}

=============================================================================

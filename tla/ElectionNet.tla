----------------------------- MODULE ElectionNet ----------------------------
(***************************************************************************)
(* Several nodes that elect a master from each other's advertisements:     *)
(* awdl_send_action and awdl_rx_action exchange claims, awdl_clean_peers   *)
(* forgets silent peers and runs the election.  Frames get lost, nodes are *)
(* stopped and restarted.                                                  *)
(*                                                                         *)
(* Nodes run OWL and all start with the same rank.  Foreign nodes do not   *)
(* run this code; they advertise themselves as masters of their own rank.  *)
(***************************************************************************)
EXTENDS Election

CONSTANTS
  Nodes, Foreign,          \* addresses of the nodes of either kind
  CounterInit, MetricInit, \* AWDL_ELECTION_*_INIT
  ForeignMetric,           \* rank a foreign node advertises
  Ranges,                  \* nets: sets of <<s, r>> where r is within the radio range of s
  MaxAge,                  \* cleanings an entry survives unheard: peers.timeout
                           \*   over peers.clean_interval, 2 in the code
  MaxChanges               \* bound on the nodes' starts and stops

All == Nodes \cup Foreign

ASSUME NetAssumption ==
  /\ All \subseteq Addr /\ Nodes \cap Foreign = {}
  /\ CounterInit \in Nat /\ MetricInit \in Nat /\ ForeignMetric \in Nat
  /\ \A R \in Ranges : \A l \in R : l \in All \X Nodes /\ l[1] # l[2]
  /\ MaxAge \in Nat \ {0}
  /\ MaxChanges \in Nat

VARIABLES
  up,       \* nodes that run
  claim,    \* state->election of each OWL node
  table,    \* its valid peers: address -> claim last heard and its age
  changes,  \* starts and stops so far
  range,    \* the net
  calm      \* from now on every neighbour is heard between two cleanings

vars == <<up, claim, table, changes, range, calm>>

\* The claim of a node that follows nobody.
OwnClaim(a) == SelfClaim(a, CounterInit, IF a \in Nodes THEN MetricInit ELSE ForeignMetric)

\* What a frame of s advertises.
Advertised(s) == IF s \in Nodes THEN claim[s] ELSE OwnClaim(s)

NoPeers == [a \in {} |-> a]

\* The nodes of the net: a node without a link affects nobody.
Members == {a \in All : \E l \in range : a \in {l[1], l[2]}}

Init ==
  /\ range \in Ranges /\ calm = FALSE
  /\ up \in SUBSET Members
  /\ claim = [n \in Nodes |-> OwnClaim(n)]
  /\ table = [n \in Nodes |-> NoPeers]
  /\ changes = 0

\* An action frame of s reaches r: awdl_send_action, awdl_rx_action.
Hear(r, s) ==
  /\ r \in up /\ s \in up /\ <<s, r>> \in range
  /\ table' = [table EXCEPT ![r] =
       [a \in DOMAIN @ \cup {s} |->
          IF a = s THEN [claim |-> Advertised(s), age |-> 0] ELSE table[r][a]]]
  /\ UNCHANGED <<up, claim, changes, range, calm>>

\* The entries a cleaning may find expired, and those it must: the event
\* loop may run the timer late, never early.  Ages count cleanings: which of
\* two entries of one age was heard from first is not kept, and the model
\* has more behaviours than the code, which forgets that one first.
MayExpire(n) == {a \in DOMAIN table[n] : table[n][a].age > 0}

MutNeverExpires(n) == {}

MustExpire(n) == {a \in DOMAIN table[n] : table[n][a].age >= MaxAge}

AllHeard(n) ==
  \A s \in up : <<s, n>> \in range => s \in DOMAIN table[n] /\ table[n][s].age = 0

\* awdl_clean_peers: forget the expired, then vote.
MutCleanRefreshes(n, expired) ==
  /\ n \in up
  /\ calm => AllHeard(n)
  /\ MustExpire(n) \subseteq expired
  /\ table' = [table EXCEPT ![n] =
       [a \in DOMAIN @ |->
          [claim |-> @[a].claim, age |-> IF a \in expired THEN 0 ELSE @[a].age + 1]]]
  /\ \E c \in Elected(OwnClaim(n), {table[n][a].claim : a \in DOMAIN table[n]}) :
       claim' = [claim EXCEPT ![n] = c]
  /\ UNCHANGED <<up, changes, range, calm>>

CleanPeers(n, expired) ==
  /\ n \in up
  /\ calm => AllHeard(n)
  /\ MustExpire(n) \subseteq expired
  /\ LET kept == DOMAIN table[n] \ expired
     IN  /\ table' = [table EXCEPT ![n] =
              [a \in kept |-> [claim |-> @[a].claim, age |-> @[a].age + 1]]]
         /\ \E c \in Elected(OwnClaim(n), {table[n][a].claim : a \in kept}) :
              claim' = [claim EXCEPT ![n] = c]
  /\ UNCHANGED <<up, changes, range, calm>>

\* The process of a node ends, in whatever way; nothing is kept on disk.
Stop(a) ==
  /\ changes < MaxChanges
  /\ a \in up
  /\ up' = up \ {a}
  /\ claim' = [n \in Nodes |-> IF n = a THEN OwnClaim(n) ELSE claim[n]]
  /\ table' = [n \in Nodes |-> IF n = a THEN NoPeers ELSE table[n]]
  /\ changes' = changes + 1
  /\ UNCHANGED <<range, calm>>

\* awdl_init: a node starts with an empty table as its own master.
Start(a) ==
  /\ changes < MaxChanges
  /\ a \in Members \ up
  /\ up' = up \cup {a}
  /\ changes' = changes + 1
  /\ UNCHANGED <<claim, table, range, calm>>

\* The radio conditions improve for good.
CalmDown ==
  /\ ~calm
  /\ calm' = TRUE
  /\ UNCHANGED <<up, claim, table, changes, range>>

Clean(n) == \E expired \in SUBSET MayExpire(n) : CleanPeers(n, expired)

Next ==
  \/ \E l \in range : Hear(l[2], l[1])
  \/ \E n \in Nodes : Clean(n)
  \/ \E a \in All : Stop(a) \/ Start(a)
  \/ CalmDown

Spec == Init /\ [][Next]_vars

\* The cleaning timer of n can fire and changes something: entries age, or a
\* node without peers returns to itself.  This is ENABLED <<Clean(n)>>_vars.
Due(n) ==
  /\ n \in up
  /\ calm => AllHeard(n)
  /\ table[n] # NoPeers \/ claim[n] # OwnClaim(n)

\* The timers of a running node keep firing (weak fairness of Clean), and once
\* it is calm its frames keep getting through.
FairSpec ==
  /\ Spec
  /\ \A n \in Nodes : []<>~Due(n) \/ []<><<Clean(n)>>_vars
  /\ \A l \in UNION Ranges : WF_vars(calm /\ Hear(l[2], l[1]))

-----------------------------------------------------------------------------
Entries == [claim: Claims, age: 0 .. MaxAge]

TypeOK ==
  /\ up \subseteq All
  /\ claim \in [Nodes -> Claims]
  /\ \A n \in Nodes : claim[n].self = n
  /\ DOMAIN table = Nodes
  /\ \A n \in Nodes :
       /\ DOMAIN table[n] \subseteq All \ {n}
       /\ \A a \in DOMAIN table[n] : table[n][a] \in Entries /\ table[n][a].claim.self = a
  /\ changes \in 0 .. MaxChanges
  /\ range \in Ranges /\ calm \in BOOLEAN

\* All claims in the net: the nodes' own and the remembered ones.
AllClaims ==
  {claim[n] : n \in Nodes} \cup
  UNION {{table[n][a].claim : a \in DOMAIN table[n]} : n \in Nodes}

(***************************************************************************)
(* Nobody's rank is inflated on its way through the net: a claim carries   *)
(* the counter and the metric its top master gives itself, also after the  *)
(* master is gone.                                                         *)
(***************************************************************************)
RankIsMasters ==
  \A c \in AllClaims : c.master \in All /\ RanksSame(c, OwnClaim(c.master))

(***************************************************************************)
(* A node is the root of its tree or follows a root other than itself: its *)
(* own address never comes back to it as the top master of a peer it       *)
(* follows, however stale that peer's claim, and the height is the         *)
(* distance of a non-root.                                                 *)
(***************************************************************************)
RootIffSelf ==
  \A c \in AllClaims :
    /\ c.master = c.self <=> c.height = 0
    /\ c.sync = c.self <=> c.height = 0
    /\ c.height <= MaxHeight

(***************************************************************************)
(* election.c:88 says of the rejected peers "do not allow cycles in sync   *)
(* tree": no two nodes are each other's sync master.                       *)
(***************************************************************************)
NoSyncCycle ==
  \A n, m \in Nodes : n # m => ~(claim[n].sync = m /\ claim[m].sync = n)

(***************************************************************************)
(* A cycle of two nodes in the sync tree does not last.                    *)
(***************************************************************************)
CyclesHeal == ~NoSyncCycle ~> NoSyncCycle

(***************************************************************************)
(* A top master that is gone for good is forgotten by every node, although *)
(* the survivors repeat each other's stale claims: every round of that     *)
(* makes the height grow, and MaxHeight ends it.                           *)
(***************************************************************************)
GhostForgotten ==
  \A a \in All : <>[](a \notin up) => <>[](\A n \in Nodes \ {a} : claim[n].master # a)

\* The best running node: the highest rank, then the highest address.
Beats(a, b) ==
  \/ RanksAbove(OwnClaim(a), OwnClaim(b))
  \/ RanksSame(OwnClaim(a), OwnClaim(b)) /\ a > b

IsBest(a) == a \in up /\ \A b \in up \ {a} : Beats(a, b)

AllInRange == \A a \in up, n \in up \cap Nodes : a # n => <<a, n>> \in range

\* The claim of a in a net that follows b: directly under b, unless it is b
\* itself or does not run this code.
Under(b, a) ==
  IF a = b \/ a \in Foreign THEN OwnClaim(a) ELSE Adopt(OwnClaim(a), OwnClaim(b))

\* All running nodes follow b and have heard nothing else of each other.
Settled(b) ==
  /\ calm /\ AllInRange /\ IsBest(b)
  /\ \A n \in up \cap Nodes :
       /\ claim[n] = Under(b, n)
       /\ \A a \in DOMAIN table[n] :
            table[n][a].claim = Under(b, a) /\ (a # b => Beats(b, a))

Converged == \A b \in up : IsBest(b) => Settled(b)

(***************************************************************************)
(* When the running nodes are in range of each other and frames get        *)
(* through at last, they end up synchronised to the best of them, directly,*)
(* and know each other as its followers, whatever was lost and whoever     *)
(* came and went before.                                                   *)
(***************************************************************************)
Convergence == (<>[]AllInRange /\ <>calm) => <>[]Converged

=============================================================================

----------------------------- MODULE ElectionRun ----------------------------
(***************************************************************************)
(* awdl_election_run (src/src/election.c) statement by statement: the scan *)
(* over the peer table, one step per iteration of its while loop.  The     *)
(* hash table yields the peers in an order that depends on the hash of     *)
(* their addresses, so the next peer is any one not yet visited.           *)
(***************************************************************************)
EXTENDS Election, FiniteSets

CONSTANTS
  Self,        \* the node's own address
  OwnClaims,   \* its possible claims after awdl_election_reset_self
  PeerTables   \* the tables a run may start from: sets of peer entries

PeerEntries == [claim: Claims, valid: BOOLEAN]

\* A table holds at most one entry per address and never the node itself:
\* awdl_rx ignores the node's own frames.
ASSUME RunAssumption ==
  /\ Self \in Addr
  /\ \A c \in OwnClaims : c \in Claims /\ c = SelfClaim(Self, c.counter, c.metric)
  /\ \A T \in PeerTables :
       /\ T \subseteq PeerEntries
       /\ \A e \in T : e.claim.self # Self
       /\ \A e, f \in T : e.claim.self = f.claim.self => e = f

VARIABLES
  own,     \* state: the node's claim
  start,   \* history: that claim when the scan began
  peers,   \* the peer table, not written by the election
  todo,    \* entries the iterator has not yielded yet
  best,    \* master_state
  pc       \* "scan" or "done"

scanVars == <<own, start, peers, todo, best, pc>>

ScanInit ==
  /\ own \in OwnClaims
  /\ start = own
  /\ peers \in PeerTables
  /\ todo = peers
  /\ best = own
  /\ pc = "scan"

\* One iteration of the loop: the entry is skipped or becomes master_state.
Visit(e) ==
  /\ pc = "scan"
  /\ todo' = todo \ {e}
  /\ best' = IF e.valid /\ Eligible(own, e.claim) /\ Better(e.claim, best)
             THEN e.claim ELSE best
  /\ UNCHANGED <<own, start, peers, pc>>

\* The iterator is exhausted: adopt the new master, if there is one.
Finish ==
  /\ pc = "scan"
  /\ todo = {}
  /\ own' = IF best = own THEN own ELSE Adopt(own, best)
  /\ pc' = "done"
  /\ UNCHANGED <<start, peers, todo, best>>

ScanNext == (\E e \in todo : Visit(e)) \/ Finish

ScanSpec == ScanInit /\ [][ScanNext]_scanVars

-----------------------------------------------------------------------------
ValidClaims(T) == {e.claim : e \in {f \in T : f.valid}}

ScanTypeOK ==
  /\ own \in Claims
  /\ start \in Claims
  /\ peers \in SUBSET PeerEntries
  /\ todo \in SUBSET peers
  /\ best \in Claims
  /\ pc \in {"scan", "done"}

(***************************************************************************)
(* When awdl_election_run returns, the node follows the candidate that     *)
(* comes first among itself and its valid, eligible peers.  The outcome    *)
(* does not depend on the iteration order of the hash table, although the  *)
(* code only ever compares the next peer with the best one so far.         *)
(***************************************************************************)
ElectsBestCandidate ==
  pc = "done" => Elected(start, ValidClaims(peers)) = {own}

(***************************************************************************)
(* The height a node advertises never exceeds the maximum of the tree,     *)
(* even for a peer whose 32-bit height wraps when the scan increments it.  *)
(***************************************************************************)
HeightBounded == own.height <= MaxHeight

(***************************************************************************)
(* election.c:85 says of the rejected peers "tree would get too large if   *)
(* accepted as sync master": the peer a node synchronises to has room for  *)
(* one more level below it.                                                *)
(***************************************************************************)
ParentHasRoom ==
  own.sync # own.self =>
    \E e \in peers : e.claim.self = own.sync /\ e.claim.height < MaxHeight

=============================================================================

------------------------------ MODULE Election ------------------------------
(***************************************************************************)
(* The master election of src/src/election.c as operators on claims.       *)
(*                                                                         *)
(* A claim is struct awdl_election_state as a node advertises it and as a  *)
(* receiver stores it: which top master the node follows (master), through *)
(* which neighbour it synchronises (sync), the rank of that top master     *)
(* (counter, then metric) and the distance to it (height).  MAC addresses  *)
(* are integers, because compare_ether_addr() is memcmp(), a total order.  *)
(***************************************************************************)
EXTENDS Integers

CONSTANTS
  Addr,        \* MAC addresses
  MaxHeight,   \* AWDL_ELECTION_TREE_MAX_HEIGHT (10 in the code)
  HeightMod    \* the height is a uint32_t: 2^32 in the code

ASSUME ElectionAssumption ==
  /\ Addr \subseteq Int
  /\ MaxHeight \in Nat \ {0}
  /\ HeightMod \in Nat
  /\ HeightMod > MaxHeight + 1

Heights == 0 .. HeightMod - 1

Claims == [self: Addr, master: Addr, sync: Addr,
           counter: Nat, metric: Nat, height: Heights]

\* height + 1 in uint32_t arithmetic.
Incr(h) == IF h + 1 = HeightMod THEN 0 ELSE h + 1

\* awdl_election_reset_self: the claim of a node that follows itself.
SelfClaim(a, ctr, met) ==
  [self |-> a, master |-> a, sync |-> a,
   counter |-> ctr, metric |-> met, height |-> 0]

\* awdl_election_compare_master(a, b) > 0, = 0: counter first, then metric.
RanksAbove(a, b) ==
  \/ a.counter > b.counter
  \/ a.counter = b.counter /\ a.metric > b.metric

RanksSame(a, b) == a.counter = b.counter /\ a.metric = b.metric

\* What the scan requires of a valid peer before it compares it.
MutHeightOffByOne(own, p) == p.height <= MaxHeight /\ p.sync # own.self

Eligible(own, p) ==
  /\ Incr(p.height) <= MaxHeight     \* tree would not get too large
  /\ p.sync # own.self               \* the peer does not synchronise to us

\* Does the scan replace its current best by p?
MutLowerAddress(p, best) ==
  \/ RanksAbove(p, best)
  \/ /\ RanksSame(p, best)
     /\ p.height < best.height \/ (p.height = best.height /\ p.self < best.self)

Better(p, best) ==
  \/ RanksAbove(p, best)
  \/ /\ RanksSame(p, best)
     /\ \/ p.height < best.height
        \/ p.height = best.height /\ p.self > best.self

\* The tail of awdl_election_run: the claim of a node that follows best.
MutAdoptNoWrap(own, best) ==
  [own EXCEPT !.master = best.master, !.sync = best.self,
              !.counter = best.counter, !.metric = best.metric,
              !.height = best.height + 1]

MutAdoptSameHeight(own, best) ==
  [own EXCEPT !.master = best.master, !.sync = best.self,
              !.counter = best.counter, !.metric = best.metric,
              !.height = best.height]

MutAdoptKeepsRank(own, best) ==
  [own EXCEPT !.master = best.master, !.sync = best.self,
              !.height = Incr(best.height)]

Adopt(own, best) ==
  [own EXCEPT !.master = best.master, !.sync = best.self,
              !.counter = best.counter, !.metric = best.metric,
              !.height = Incr(best.height)]

(***************************************************************************)
(* What a run of the election promises, whatever the order in which the    *)
(* hash table yields the peers: own is the node's own claim after          *)
(* awdl_election_reset_self and S the claims of its valid peers.  Of the   *)
(* candidates it follows the first in the lexicographic order of counter,  *)
(* metric, small height, address.                                          *)
(***************************************************************************)
Candidates(own, S) == {own} \cup {p \in S : Eligible(own, p)}

MutKeyLowAddress(c) == <<c.counter, c.metric, HeightMod - c.height, -c.self>>

Key(c) == <<c.counter, c.metric, HeightMod - c.height, c.self>>

\* The lexicographic order.
LexAbove(k, l) ==
  \E i \in 1 .. 4 : k[i] > l[i] /\ \A j \in 1 .. 4 : j < i => k[j] = l[j]

Outranks(a, b) == LexAbove(Key(a), Key(b))

IsWinner(best, own, S) ==
  /\ best \in Candidates(own, S)
  /\ \A c \in Candidates(own, S) : c = best \/ Outranks(best, c)

\* The outcomes of a run: one, because a finite table has one winner.
Elected(own, S) ==
  {IF best = own THEN own ELSE Adopt(own, best) :
     best \in {c \in Candidates(own, S) : IsWinner(c, own, S)}}

=============================================================================

--------------------------- MODULE ElectionLemmas ---------------------------
(***************************************************************************)
(* Facts about the operators of the election: types, the order in which    *)
(* awdl_election_run prefers claims, and what an elected claim looks like. *)
(***************************************************************************)
EXTENDS Election, TLAPS

\* The fields the election compares are integers.
LEMMA ClaimType ==
  ASSUME NEW a \in Claims
  PROVE  a.counter \in Nat /\ a.metric \in Nat /\ a.height \in Nat /\ a.self \in Int
<1>1. /\ a.counter \in Nat /\ a.metric \in Nat
      /\ a.height \in Heights /\ a.self \in Addr
  BY DEF Claims
<1>2. a.height \in Nat  BY <1>1, ElectionAssumption DEF Heights
<1>3. a.self \in Int    BY <1>1, ElectionAssumption, Zenon
<1>. QED  BY <1>1, <1>2, <1>3

\* Following a peer yields a claim, its height again a 32-bit number.
LEMMA AdoptType ==
  ASSUME NEW a \in Claims, NEW b \in Claims
  PROVE  Adopt(a, b) \in Claims
<1>1. Incr(b.height) \in Heights
  <2>1. b.height \in Heights  BY DEF Claims
  <2>. QED  BY <2>1, ElectionAssumption DEF Incr, Heights
<1>. QED  BY <1>1, Zenon DEF Adopt, Claims

(***************************************************************************)
(* The comparison the loop makes (rank, then height, then address) is the  *)
(* lexicographic order that the result is specified with.                  *)
(***************************************************************************)
LEMMA BetterIsOutranks ==
  ASSUME NEW a \in Claims, NEW b \in Claims
  PROVE  Better(a, b) <=> Outranks(a, b)
<1>1. a.counter \in Nat /\ a.metric \in Nat /\ a.height \in Nat /\ a.self \in Int
  BY ClaimType
<1>2. b.counter \in Nat /\ b.metric \in Nat /\ b.height \in Nat /\ b.self \in Int
  BY ClaimType
<1>3. /\ Key(a)[1] = a.counter /\ Key(a)[2] = a.metric
      /\ Key(a)[3] = HeightMod - a.height /\ Key(a)[4] = a.self
      /\ Key(b)[1] = b.counter /\ Key(b)[2] = b.metric
      /\ Key(b)[3] = HeightMod - b.height /\ Key(b)[4] = b.self
  BY DEF Key
<1>4. Outranks(a, b) <=>
        \/ Key(a)[1] > Key(b)[1]
        \/ Key(a)[2] > Key(b)[2] /\ Key(a)[1] = Key(b)[1]
        \/ Key(a)[3] > Key(b)[3] /\ Key(a)[1] = Key(b)[1] /\ Key(a)[2] = Key(b)[2]
        \/ /\ Key(a)[4] > Key(b)[4] /\ Key(a)[1] = Key(b)[1]
           /\ Key(a)[2] = Key(b)[2] /\ Key(a)[3] = Key(b)[3]
  BY DEF Outranks, LexAbove
<1>5. HeightMod \in Nat  BY ElectionAssumption
<1>. QED  BY <1>1, <1>2, <1>3, <1>4, <1>5 DEF Better, RanksAbove, RanksSame

\* Transitivity: it is enough to compare the next peer with the best so far.
LEMMA BetterTransitive ==
  ASSUME NEW a \in Claims, NEW b \in Claims, NEW c \in Claims,
         Better(a, b), Better(b, c)
  PROVE  Better(a, c)
<1>1. a.counter \in Nat /\ a.metric \in Nat /\ a.height \in Nat /\ a.self \in Int
  BY ClaimType
<1>2. b.counter \in Nat /\ b.metric \in Nat /\ b.height \in Nat /\ b.self \in Int
  BY ClaimType
<1>3. c.counter \in Nat /\ c.metric \in Nat /\ c.height \in Nat /\ c.self \in Int
  BY ClaimType
<1>. QED  BY <1>1, <1>2, <1>3 DEF Better, RanksAbove, RanksSame

\* Totality and asymmetry: of the claims of two different nodes exactly one
\* is better, because addresses differ.
LEMMA BetterTotal ==
  ASSUME NEW a \in Claims, NEW b \in Claims
  PROVE  /\ a.self # b.self => Better(a, b) \/ Better(b, a)
         /\ ~(Better(a, b) /\ Better(b, a))
<1>1. a.counter \in Nat /\ a.metric \in Nat /\ a.height \in Nat /\ a.self \in Int
  BY ClaimType
<1>2. b.counter \in Nat /\ b.metric \in Nat /\ b.height \in Nat /\ b.self \in Int
  BY ClaimType
<1>. QED  BY <1>1, <1>2 DEF Better, RanksAbove, RanksSame

\* The winner of a set of candidates is unique.
LEMMA WinnerUnique ==
  ASSUME NEW c \in Claims, NEW S \in SUBSET Claims, NEW b \in Claims,
         b \in Candidates(c, S),
         \A d \in Candidates(c, S) : d = b \/ Better(b, d)
  PROVE  Elected(c, S) = {IF b = c THEN c ELSE Adopt(c, b)}
<1>1. \A d \in Candidates(c, S) : d \in Claims  BY DEF Candidates
<1>2. IsWinner(b, c, S)
  BY <1>1, BetterIsOutranks DEF IsWinner
<1>3. ASSUME NEW d \in Candidates(c, S), IsWinner(d, c, S)
      PROVE  d = b
  <2>1. d \in Claims  BY <1>1
  <2>2. d = b \/ (Better(d, b) /\ Better(b, d))
    BY <1>3, <2>1, BetterIsOutranks DEF IsWinner
  <2>. QED  BY <2>1, <2>2, BetterTotal
<1>4. {d \in Candidates(c, S) : IsWinner(d, c, S)} = {b}
  BY <1>2, <1>3
<1>. QED  BY <1>4 DEF Elected

(***************************************************************************)
(* An elected claim is the node's own one or that of a follower: of an     *)
(* eligible peer with a rank no lower than its own.                        *)
(***************************************************************************)
LEMMA ElectedShape ==
  ASSUME NEW c \in Claims, NEW S \in SUBSET Claims, NEW r \in Elected(c, S)
  PROVE  \/ r = c
         \/ \E b \in S : /\ r = Adopt(c, b) /\ Eligible(c, b)
                         /\ b # c /\ Better(b, c)
<1>1. PICK b \in Candidates(c, S) :
             IsWinner(b, c, S) /\ r = IF b = c THEN c ELSE Adopt(c, b)
  BY DEF Elected
<1>2. b \in Claims  BY DEF Candidates
<1>3. b # c => b \in S /\ Eligible(c, b)  BY DEF Candidates
<1>4. b # c => Better(b, c)
  BY <1>1, <1>2, BetterIsOutranks DEF IsWinner, Candidates
<1>. QED  BY <1>1, <1>3, <1>4

=============================================================================

---------------------------- MODULE ElectionProofs --------------------------
(***************************************************************************)
(* Proof that awdl_election_run elects the best candidate for every peer   *)
(* table, in whatever order the hash table yields the peers, and that the  *)
(* claims of nodes that run it stay sound, in a net of any size and shape, *)
(* whatever frames are lost and whichever nodes stop and restart.  Of the  *)
(* liveness of the election they show the safe half: agreement lasts, and  *)
(* a master that left fades and does not return.                           *)
(***************************************************************************)
EXTENDS ElectionRun, ElectionNet, ElectionLemmas

-----------------------------------------------------------------------------
Visited == peers \ todo

(***************************************************************************)
(* The loop invariant: master_state is a candidate among the peers visited *)
(* so far and better than every other one.                                 *)
(***************************************************************************)
LoopInv ==
  /\ ScanTypeOK
  /\ start.self = Self /\ start.height = 0
  /\ \A e \in peers : e.claim.self # Self
  /\ \A e, f \in peers : e.claim.self = f.claim.self => e = f
  /\ best \in Candidates(start, ValidClaims(Visited))
  /\ \A c \in Candidates(start, ValidClaims(Visited)) : c = best \/ Better(best, c)
  /\ pc = "scan" => own = start
  /\ pc = "done" => /\ todo = {}
                    /\ own = IF best = start THEN start ELSE Adopt(start, best)

LEMMA LoopInit == ScanInit => LoopInv
<1>. SUFFICES ASSUME ScanInit PROVE LoopInv  OBVIOUS
<1>1. own \in Claims /\ own.self = Self /\ own.height = 0 /\ start = own /\ best = own
  BY RunAssumption DEF ScanInit, SelfClaim
<1>2. peers \subseteq PeerEntries /\ todo = peers /\ pc = "scan"
  BY RunAssumption DEF ScanInit
<1>3. /\ \A e \in peers : e.claim.self # Self
      /\ \A e, f \in peers : e.claim.self = f.claim.self => e = f
  BY RunAssumption DEF ScanInit
<1>4. ValidClaims(Visited) = {}
  BY <1>2 DEF Visited, ValidClaims
<1>. QED  BY <1>1, <1>2, <1>3, <1>4 DEF LoopInv, ScanTypeOK, Candidates

\* One iteration of the loop preserves the invariant.
LEMMA LoopVisit ==
  ASSUME LoopInv, NEW e \in todo, Visit(e)
  PROVE  LoopInv'
<1>1. /\ e \in peers /\ e \in PeerEntries /\ e.claim \in Claims /\ e.valid \in BOOLEAN
      /\ e.claim.self # Self
  BY DEF LoopInv, ScanTypeOK, PeerEntries
<1>2. /\ pc = "scan" /\ pc' = pc /\ own' = own /\ start' = start /\ peers' = peers
      /\ todo' = todo \ {e}
      /\ start = own /\ start \in Claims /\ best \in Claims
  BY DEF Visit, LoopInv, ScanTypeOK
<1>3. Visited' = Visited \cup {e}
  BY <1>1, <1>2 DEF Visited, LoopInv, ScanTypeOK
<1>4. ValidClaims(Visited') = ValidClaims(Visited) \cup (IF e.valid THEN {e.claim} ELSE {})
  BY <1>3 DEF ValidClaims
<1>5. Candidates(start, ValidClaims(Visited')) =
        Candidates(start, ValidClaims(Visited)) \cup
          (IF e.valid /\ Eligible(start, e.claim) THEN {e.claim} ELSE {})
  BY <1>4 DEF Candidates
<1>6. \A c \in Candidates(start, ValidClaims(Visited)) : c \in Claims /\ c.self # e.claim.self
  <2>1. \A c \in ValidClaims(Visited) : c \in Claims /\ c.self # e.claim.self
    <3>. SUFFICES ASSUME NEW f \in Visited
                  PROVE  f.claim \in Claims /\ f.claim.self # e.claim.self
      BY DEF ValidClaims
    <3>1. f \in peers /\ f \in PeerEntries /\ f # e
      BY DEF Visited, LoopInv, ScanTypeOK
    <3>. QED  BY <1>1, <3>1 DEF LoopInv, PeerEntries
  <2>. QED  BY <1>1, <1>2, <2>1 DEF Candidates, LoopInv
<1>7. /\ best' \in Candidates(start, ValidClaims(Visited'))
      /\ \A c \in Candidates(start, ValidClaims(Visited')) : c = best' \/ Better(best', c)
      /\ best' \in Claims
  <2>1. CASE e.valid /\ Eligible(start, e.claim) /\ Better(e.claim, best)
    <3>1. best' = e.claim  BY <2>1, <1>2 DEF Visit
    <3>2. \A c \in Candidates(start, ValidClaims(Visited)) : Better(e.claim, c)
      BY <1>1, <1>2, <1>6, <2>1, BetterTransitive DEF LoopInv
    <3>. QED  BY <1>1, <1>5, <2>1, <3>1, <3>2
  <2>2. CASE e.valid /\ Eligible(start, e.claim) /\ ~Better(e.claim, best)
    <3>1. best' = best  BY <2>2, <1>2 DEF Visit
    <3>2. Better(best, e.claim)
      BY <1>1, <1>2, <1>6, <2>2, BetterTotal DEF LoopInv
    <3>. QED  BY <1>2, <1>5, <2>2, <3>1, <3>2 DEF LoopInv
  <2>3. CASE ~(e.valid /\ Eligible(start, e.claim))
    <3>1. best' = best  BY <2>3, <1>2 DEF Visit
    <3>. QED  BY <1>2, <1>5, <2>3, <3>1 DEF LoopInv
  <2>. QED  BY <2>1, <2>2, <2>3
<1>8. ScanTypeOK'
  BY <1>1, <1>2, <1>7 DEF LoopInv, ScanTypeOK
<1>. QED  BY <1>2, <1>7, <1>8 DEF LoopInv

\* Leaving the loop and adopting the winner preserves the invariant.
LEMMA LoopFinish ==
  ASSUME LoopInv, Finish
  PROVE  LoopInv'
<1>1. /\ start' = start /\ peers' = peers /\ todo' = todo /\ best' = best
      /\ pc = "scan" /\ pc' = "done" /\ todo = {} /\ own = start
      /\ own' = IF best = start THEN start ELSE Adopt(start, best)
  BY DEF Finish, LoopInv
<1>2. own' \in Claims
  BY <1>1, AdoptType DEF LoopInv, ScanTypeOK
<1>3. Visited' = Visited
  BY <1>1 DEF Visited
<1>. QED  BY <1>1, <1>2, <1>3 DEF LoopInv, ScanTypeOK

\* Every step of the scan of awdl_election_run preserves the loop invariant.
THEOREM LoopInvariant == ScanSpec => []LoopInv
<1>1. LoopInv /\ [ScanNext]_scanVars => LoopInv'
  <2>. SUFFICES ASSUME LoopInv, [ScanNext]_scanVars PROVE LoopInv'  OBVIOUS
  <2>1. CASE ScanNext  BY <2>1, LoopVisit, LoopFinish DEF ScanNext
  <2>2. CASE UNCHANGED scanVars
    BY <2>2, Zenon DEF scanVars, LoopInv, ScanTypeOK, Visited
  <2>. QED  BY <2>1, <2>2
<1>. QED  BY <1>1, LoopInit, PTL DEF ScanSpec

(***************************************************************************)
(* awdl_election_run follows the best of the node and its valid, eligible  *)
(* peers, for every peer table and every iteration order.                  *)
(***************************************************************************)
THEOREM ElectionCorrect == ScanSpec => []ElectsBestCandidate
<1>1. LoopInv => ElectsBestCandidate
  <2>. SUFFICES ASSUME LoopInv, pc = "done"
                PROVE  Elected(start, ValidClaims(peers)) = {own}
    BY DEF ElectsBestCandidate
  <2>1. Visited = peers /\ start \in Claims /\ best \in Claims
    BY DEF LoopInv, ScanTypeOK, Visited
  <2>2. ValidClaims(peers) \in SUBSET Claims
    BY DEF LoopInv, ScanTypeOK, ValidClaims, PeerEntries
  <2>3. Elected(start, ValidClaims(peers)) =
          {IF best = start THEN start ELSE Adopt(start, best)}
    BY <2>1, <2>2, WinnerUnique DEF LoopInv
  <2>. QED  BY <2>3 DEF LoopInv
<1>. QED  BY <1>1, LoopInvariant, PTL

(***************************************************************************)
(* The height the node advertises stays within the maximum of the tree,    *)
(* the wrap of a peer's 32-bit height included.                            *)
(***************************************************************************)
THEOREM HeightIsBounded == ScanSpec => []HeightBounded
<1>1. LoopInv => HeightBounded
  <2>. SUFFICES ASSUME LoopInv PROVE own.height <= MaxHeight
    BY DEF HeightBounded
  <2>1. MaxHeight \in Nat  BY ElectionAssumption
  <2>2. CASE own = start
    BY <2>1, <2>2 DEF LoopInv
  <2>3. CASE own # start
    <3>1. own = Adopt(start, best) /\ best # start
      BY <2>3 DEF LoopInv, ScanTypeOK
    <3>2. Eligible(start, best)
      BY <3>1 DEF LoopInv, Candidates
    <3>3. own.height = Incr(best.height)
      BY <3>1 DEF Adopt, LoopInv, ScanTypeOK, Claims
    <3>. QED  BY <3>2, <3>3 DEF Eligible
  <2>. QED  BY <2>2, <2>3
<1>. QED  BY <1>1, LoopInvariant, PTL

(***************************************************************************)
(* The claims a scan works on stay claims: in particular the height stays  *)
(* a 32-bit number, whatever the peers advertise.                          *)
(***************************************************************************)
THEOREM ScanTypes == ScanSpec => []ScanTypeOK
<1>1. LoopInv => ScanTypeOK  BY DEF LoopInv
<1>. QED  BY <1>1, LoopInvariant, PTL

-----------------------------------------------------------------------------
\* What RankIsMasters and RootIffSelf say of one claim.
Sound(c) ==
  /\ c \in Claims
  /\ c.master \in All /\ RanksSame(c, OwnClaim(c.master))
  /\ c.master = c.self <=> c.height = 0
  /\ c.sync = c.self <=> c.height = 0
  /\ c.height <= MaxHeight

(***************************************************************************)
(* The inductive invariant: a claim is sound when it is made and, since    *)
(* soundness does not mention who runs, stays so wherever it is kept.      *)
(***************************************************************************)
NetInv ==
  /\ TypeOK
  /\ \A n \in Nodes : Sound(claim[n])
  /\ \A n \in Nodes : \A a \in DOMAIN table[n] : Sound(table[n][a].claim)

LEMMA OwnClaimSound ==
  ASSUME NEW a \in All
  PROVE  Sound(OwnClaim(a)) /\ OwnClaim(a).self = a /\ OwnClaim(a).height = 0
<1>. DEFINE m == IF a \in Nodes THEN MetricInit ELSE ForeignMetric
<1>1. 0 \in Heights /\ MaxHeight \in Nat  BY ElectionAssumption DEF Heights
<1>2. m \in Nat /\ CounterInit \in Nat /\ a \in Addr  BY NetAssumption DEF All
<1>3. OwnClaim(a) = [self |-> a, master |-> a, sync |-> a, counter |-> CounterInit,
                     metric |-> m, height |-> 0]
  BY DEF OwnClaim, SelfClaim
<1>. HIDE DEF m
<1>4. OwnClaim(a) \in Claims  BY <1>1, <1>2, <1>3 DEF Claims
<1>5. /\ OwnClaim(a).self = a /\ OwnClaim(a).master = a /\ OwnClaim(a).sync = a
      /\ OwnClaim(a).height = 0
  BY <1>3
<1>. QED  BY <1>1, <1>4, <1>5 DEF Sound, RanksSame

(***************************************************************************)
(* The heart of the argument: a run of the election on sound claims of     *)
(* other nodes makes a sound claim.  A peer that names n as its top master *)
(* has exactly n's own rank and is not a root, hence it is not better than *)
(* n itself, and n does not follow it.                                     *)
(***************************************************************************)
LEMMA ElectedSound ==
  ASSUME NEW n \in Nodes, NEW S, \A c \in S : Sound(c) /\ c.self # n,
         NEW r \in Elected(OwnClaim(n), S)
  PROVE  Sound(r) /\ r.self = n
<1>. DEFINE mine == OwnClaim(n)
<1>1. Sound(mine) /\ mine.self = n /\ mine.height = 0 /\ mine \in Claims
  BY OwnClaimSound DEF All, Sound
<1>2. S \in SUBSET Claims  BY DEF Sound
<1>. HIDE DEF mine
<1>3. CASE r = mine  BY <1>1, <1>3
<1>4. CASE r # mine
  <2>1. PICK b \in S : r = Adopt(mine, b) /\ Eligible(mine, b) /\ Better(b, mine)
    BY <1>1, <1>2, <1>4, ElectedShape DEF mine
  <2>2. Sound(b) /\ b.self # n /\ b \in Claims  BY DEF Sound
  <2>3. /\ r \in Claims /\ r.self = n /\ r.sync = b.self /\ r.master = b.master
        /\ r.counter = b.counter /\ r.metric = b.metric /\ r.height = Incr(b.height)
    <3>1. r \in Claims  BY <1>1, <2>1, <2>2, AdoptType
    <3>. QED  BY <1>1, <2>1, <3>1 DEF Adopt, Claims
  <2>4. r.height <= MaxHeight /\ r.height # 0
    <3>1. b.height \in Nat /\ b.height <= MaxHeight
      BY <2>2, ClaimType DEF Sound
    <3>2. Incr(b.height) = b.height + 1
      BY <3>1, ElectionAssumption DEF Incr
    <3>. QED  BY <2>1, <2>3, <3>1, <3>2 DEF Eligible
  <2>5. r.master # n
    <3>. SUFFICES ASSUME b.master = n PROVE FALSE  BY <2>3
    <3>1. RanksSame(b, mine)  BY <2>2 DEF Sound, mine
    <3>2. b.height # 0  BY <2>2 DEF Sound
    <3>3. /\ b.height \in Nat /\ b.counter \in Nat /\ b.metric \in Nat
          /\ mine.counter \in Nat /\ mine.metric \in Nat
      BY <1>1, <2>2, ClaimType
    <3>. QED  BY <1>1, <2>1, <3>1, <3>2, <3>3 DEF Better, RanksAbove, RanksSame
  <2>. QED  BY <2>2, <2>3, <2>4, <2>5 DEF Sound, RanksSame
<1>. QED  BY <1>3, <1>4

LEMMA NetInit == Init => NetInv
<1>. SUFFICES ASSUME Init PROVE NetInv  OBVIOUS
<1>1. \A n \in Nodes : claim[n] = OwnClaim(n) /\ Sound(claim[n]) /\ claim[n].self = n
  BY OwnClaimSound DEF Init, All
<1>2. \A n \in Nodes : DOMAIN table[n] = {}  BY DEF Init, NoPeers
<1>3. claim \in [Nodes -> Claims]
  <2>1. \A n \in Nodes : OwnClaim(n) \in Claims  BY <1>1 DEF Sound
  <2>. QED  BY <2>1 DEF Init
<1>4. TypeOK
  <2>1. up \subseteq All  BY DEF Init, Members
  <2>2. changes \in 0 .. MaxChanges  BY NetAssumption DEF Init
  <2>. QED  BY <1>1, <1>2, <1>3, <2>1, <2>2, Zenon DEF Init, TypeOK
<1>. QED  BY <1>1, <1>2, <1>4 DEF NetInv

LEMMA HearInv ==
  ASSUME NetInv, NEW l \in range, Hear(l[2], l[1])
  PROVE  NetInv'
<1>. DEFINE s == l[1]
            r == l[2]
            e == [claim |-> Advertised(s), age |-> 0]
            t == [a \in DOMAIN table[r] \cup {s} |-> IF a = s THEN e ELSE table[r][a]]
<1>1. s \in All /\ r \in Nodes /\ s # r  BY NetAssumption DEF NetInv, TypeOK
<1>2. Sound(Advertised(s)) /\ Advertised(s).self = s
  BY <1>1, OwnClaimSound DEF Advertised, NetInv, TypeOK
<1>3. e \in Entries /\ e.claim = Advertised(s)
  <2>1. Advertised(s) \in Claims  BY <1>2 DEF Sound
  <2>2. 0 \in 0 .. MaxAge  BY NetAssumption
  <2>. QED  BY <2>1, <2>2 DEF Entries
<1>4. /\ up' = up /\ claim' = claim /\ changes' = changes
      /\ range' = range /\ calm' = calm
      /\ table' = [table EXCEPT ![r] = t]
  BY DEF Hear
<1>. HIDE DEF e, s, r
<1>5. /\ DOMAIN table' = Nodes /\ table'[r] = t
      /\ \A n \in Nodes : n # r => table'[n] = table[n]
  BY <1>1, <1>4 DEF NetInv, TypeOK
<1>6. \A a \in DOMAIN t : /\ a \in All \ {r} /\ t[a] \in Entries
                          /\ t[a].claim.self = a /\ Sound(t[a].claim)
  BY <1>1, <1>2, <1>3 DEF NetInv, TypeOK
<1>. HIDE DEF t
<1>7. \A n \in Nodes : \A a \in DOMAIN table'[n] :
        /\ a \in All \ {n} /\ table'[n][a] \in Entries
        /\ table'[n][a].claim.self = a /\ Sound(table'[n][a].claim)
  BY <1>5, <1>6 DEF NetInv, TypeOK
<1>8. TypeOK'
  BY <1>4, <1>5, <1>7 DEF NetInv, TypeOK
<1>. QED  BY <1>4, <1>7, <1>8 DEF NetInv

LEMMA CleanInv ==
  ASSUME NetInv, NEW n \in Nodes, Clean(n)
  PROVE  NetInv'
<1>1. PICK expired \in SUBSET MayExpire(n) : CleanPeers(n, expired)
  BY DEF Clean
<1>. DEFINE kept == DOMAIN table[n] \ expired
            S == {table[n][a].claim : a \in kept}
            t == [a \in kept |-> [claim |-> table[n][a].claim, age |-> table[n][a].age + 1]]
<1>2. PICK c \in Elected(OwnClaim(n), S) : claim' = [claim EXCEPT ![n] = c]
  BY <1>1, Zenon DEF CleanPeers
<1>3. /\ up' = up /\ changes' = changes /\ table' = [table EXCEPT ![n] = t]
      /\ range' = range /\ calm' = calm
  BY <1>1 DEF CleanPeers
<1>4. \A d \in S : Sound(d) /\ d.self # n
  BY DEF NetInv, TypeOK
<1>5. Sound(c) /\ c.self = n /\ c \in Claims
  BY <1>2, <1>4, ElectedSound DEF Sound
<1>6. \A a \in kept : table[n][a].age + 1 \in 0 .. MaxAge
  <2>. SUFFICES ASSUME NEW a \in kept PROVE table[n][a].age + 1 \in 0 .. MaxAge
    OBVIOUS
  <2>1. table[n][a].age \in 0 .. MaxAge  BY DEF NetInv, TypeOK, Entries
  <2>2. ~(table[n][a].age >= MaxAge)  BY <1>1 DEF CleanPeers, MustExpire
  <2>. QED  BY <2>1, <2>2, NetAssumption
<1>7. \A a \in kept : /\ a \in All \ {n} /\ table[n][a].claim.self = a
                      /\ Sound(table[n][a].claim)
  BY DEF NetInv, TypeOK
<1>8. \A a \in DOMAIN t : /\ a \in All \ {n} /\ t[a] \in Entries
                          /\ t[a].claim.self = a /\ Sound(t[a].claim)
  BY <1>6, <1>7, ZenonT(40) DEF Entries, Sound
<1>9. /\ DOMAIN table' = Nodes /\ table'[n] = t
      /\ \A m \in Nodes : m # n => table'[m] = table[m]
  BY <1>3 DEF NetInv, TypeOK
<1>10. /\ claim' \in [Nodes -> Claims] /\ claim'[n] = c
       /\ \A m \in Nodes : m # n => claim'[m] = claim[m]
  BY <1>2, <1>5 DEF NetInv, TypeOK
<1>. HIDE DEF t
<1>11. \A m \in Nodes : \A a \in DOMAIN table'[m] :
         /\ a \in All \ {m} /\ table'[m][a] \in Entries
         /\ table'[m][a].claim.self = a /\ Sound(table'[m][a].claim)
  BY <1>8, <1>9 DEF NetInv, TypeOK
<1>12. \A m \in Nodes : Sound(claim'[m]) /\ claim'[m].self = m
  BY <1>5, <1>10 DEF NetInv, TypeOK
<1>13. TypeOK'
  BY <1>3, <1>9, <1>10, <1>11, <1>12 DEF NetInv, TypeOK
<1>. QED  BY <1>11, <1>12, <1>13 DEF NetInv

LEMMA StopInv ==
  ASSUME NetInv, NEW a \in All, Stop(a)
  PROVE  NetInv'
<1>1. /\ up' = up \ {a} /\ changes' = changes + 1 /\ changes < MaxChanges
      /\ claim' = [n \in Nodes |-> IF n = a THEN OwnClaim(n) ELSE claim[n]]
      /\ table' = [n \in Nodes |-> IF n = a THEN NoPeers ELSE table[n]]
      /\ range' = range /\ calm' = calm
  BY DEF Stop
<1>2. \A n \in Nodes : Sound(claim'[n]) /\ claim'[n].self = n
  BY <1>1, OwnClaimSound DEF NetInv, TypeOK, All
<1>3. claim' \in [Nodes -> Claims]
  <2>1. \A n \in Nodes : claim'[n] \in Claims  BY <1>2 DEF Sound
  <2>. QED  BY <1>1, <2>1
<1>4. \A n \in Nodes : \A b \in DOMAIN table'[n] :
        /\ b \in All \ {n} /\ table'[n][b] \in Entries
        /\ table'[n][b].claim.self = b /\ Sound(table'[n][b].claim)
  BY <1>1 DEF NetInv, TypeOK, NoPeers
<1>5. changes' \in 0 .. MaxChanges
  BY <1>1, NetAssumption DEF NetInv, TypeOK
<1>6. TypeOK'
  BY <1>1, <1>2, <1>3, <1>4, <1>5 DEF NetInv, TypeOK
<1>. QED  BY <1>2, <1>4, <1>6 DEF NetInv

LEMMA StartInv ==
  ASSUME NetInv, NEW a \in All, Start(a)
  PROVE  NetInv'
<1>1. /\ up' = up \cup {a} /\ changes' = changes + 1 /\ changes < MaxChanges
      /\ claim' = claim /\ table' = table /\ range' = range /\ calm' = calm
  BY DEF Start
<1>2. changes' \in 0 .. MaxChanges
  BY <1>1, NetAssumption DEF NetInv, TypeOK
<1>3. TypeOK'
  BY <1>1, <1>2 DEF NetInv, TypeOK
<1>. QED  BY <1>1, <1>3 DEF NetInv

LEMMA CalmDownInv ==
  ASSUME NetInv, CalmDown
  PROVE  NetInv'
<1>1. /\ up' = up /\ claim' = claim /\ table' = table /\ changes' = changes
      /\ range' = range /\ calm' \in BOOLEAN
  BY DEF CalmDown
<1>. QED  BY <1>1 DEF NetInv, TypeOK

(***************************************************************************)
(* The claims of the net are sound in every reachable state.               *)
(***************************************************************************)
THEOREM NetInvariant == Spec => []NetInv
<1>1. NetInv /\ [Next]_vars => NetInv'
  <2>. SUFFICES ASSUME NetInv, [Next]_vars PROVE NetInv'  OBVIOUS
  <2>1. CASE \E l \in range : Hear(l[2], l[1])  BY <2>1, HearInv
  <2>2. CASE \E n \in Nodes : Clean(n)  BY <2>2, CleanInv
  <2>3. CASE \E a \in All : Stop(a) \/ Start(a)  BY <2>3, StopInv, StartInv
  <2>4. CASE CalmDown  BY <2>4, CalmDownInv
  <2>5. CASE UNCHANGED vars
    BY <2>5 DEF vars, NetInv, TypeOK
  <2>. QED  BY <2>1, <2>2, <2>3, <2>4, <2>5 DEF Next
<1>. QED  BY <1>1, NetInit, PTL DEF Spec

\* Every claim in the net is one the invariant speaks of.
LEMMA AllClaimsSound ==
  ASSUME NetInv
  PROVE  \A c \in AllClaims : Sound(c)
BY DEF NetInv, AllClaims

(***************************************************************************)
(* No rank is inflated: a claim carries the counter and metric its top     *)
(* master gives itself, in every net.                                      *)
(***************************************************************************)
THEOREM RanksAreHonest == Spec => []RankIsMasters
<1>1. NetInv => RankIsMasters
  BY AllClaimsSound DEF Sound, RankIsMasters
<1>. QED  BY <1>1, NetInvariant, PTL

(***************************************************************************)
(* No node ever follows a tree it is itself the root of, and no tree is    *)
(* higher than AWDL_ELECTION_TREE_MAX_HEIGHT, in every net.                *)
(***************************************************************************)
THEOREM RootsFollowThemselves == Spec => []RootIffSelf
<1>1. NetInv => RootIffSelf
  BY AllClaimsSound DEF Sound, RootIffSelf
<1>. QED  BY <1>1, NetInvariant, PTL

(***************************************************************************)
(* In every net claims stay claims, and what a node knows of a silent      *)
(* neighbour never gets older than the timeout of awdl_peers_remove.       *)
(***************************************************************************)
THEOREM NetTypes == Spec => []TypeOK
<1>1. NetInv => TypeOK  BY DEF NetInv
<1>. QED  BY <1>1, NetInvariant, PTL

-----------------------------------------------------------------------------
\* In a net that follows b, a claim of b itself or of a foreign node is a
\* root's, and that of any other node is one step away from b.
LEMMA OwnFields ==
  ASSUME NEW a \in All
  PROVE  /\ OwnClaim(a) \in Claims
         /\ OwnClaim(a).self = a /\ OwnClaim(a).master = a /\ OwnClaim(a).sync = a
         /\ OwnClaim(a).height = 0
BY OwnClaimSound, Zenon DEF Sound

LEMMA UnderFields ==
  ASSUME NEW b \in All, NEW a \in All, a # b, a \notin Foreign
  PROVE  LET u == Under(b, a)
         IN  /\ u = Adopt(OwnClaim(a), OwnClaim(b)) /\ u \in Claims
             /\ u.self = a /\ u.master = b /\ u.sync = b /\ u.height = 1
             /\ u.counter = OwnClaim(b).counter /\ u.metric = OwnClaim(b).metric
<1>. DEFINE o == OwnClaim(a)
            d == OwnClaim(b)
            u == Under(b, a)
<1>1. /\ o \in Claims /\ o.self = a
      /\ d \in Claims /\ d.self = b /\ d.master = b /\ d.height = 0
  BY OwnFields, Zenon
<1>2. u = Adopt(o, d)  BY Zenon DEF Under
<1>. HIDE DEF o, d, u
<1>3. u \in Claims  BY <1>1, <1>2, AdoptType
<1>4. Incr(0) = 1  BY ElectionAssumption DEF Incr
<1>5. /\ u.self = o.self /\ u.master = d.master /\ u.sync = d.self
      /\ u.counter = d.counter /\ u.metric = d.metric /\ u.height = Incr(d.height)
  BY <1>1, <1>2 DEF Adopt, Claims
<1>. QED  BY <1>1, <1>2, <1>3, <1>4, <1>5 DEF o, d, u

LEMMA UnderType ==
  ASSUME NEW b \in All, NEW a \in All
  PROVE  Under(b, a) \in Claims /\ Under(b, a).self = a
<1>1. CASE a = b \/ a \in Foreign
  <2>1. Under(b, a) = OwnClaim(a)  BY <1>1 DEF Under
  <2>. QED  BY <2>1, OwnFields
<1>2. CASE ~(a = b \/ a \in Foreign)  BY <1>2, UnderFields
<1>. QED  BY <1>1, <1>2

\* A net that is settled on b follows b, directly.
LEMMA SettledFollows ==
  ASSUME NEW b \in All, Settled(b), NEW n \in up \cap Nodes
  PROVE  claim[n].master = b /\ claim[n].sync = b /\ claim[n].height <= 1
<1>1. claim[n] = Under(b, n)  BY DEF Settled
<1>2. n \in All /\ n \notin Foreign  BY NetAssumption DEF All
<1>3. CASE n = b
  <2>1. claim[n] = OwnClaim(b)  BY <1>1, <1>3 DEF Under
  <2>. QED  BY <2>1, OwnFields
<1>4. CASE n # b  BY <1>1, <1>2, <1>4, UnderFields
<1>. QED  BY <1>3, <1>4

\* Between roots the election prefers the one that beats the other.
LEMMA BeatsBetter ==
  ASSUME NEW a \in All, NEW b \in All, Beats(a, b)
  PROVE  Better(OwnClaim(a), OwnClaim(b))
<1>1. /\ OwnClaim(a).self = a /\ OwnClaim(a).height = 0
      /\ OwnClaim(b).self = b /\ OwnClaim(b).height = 0
  BY OwnFields
<1>. QED  BY <1>1, Zenon DEF Beats, Better

\* The claim of b is better than that of everybody under it.
LEMMA BestIsBetter ==
  ASSUME NEW b \in All, NEW a \in All, a # b, Beats(b, a)
  PROVE  Better(OwnClaim(b), Under(b, a))
<1>1. CASE a \in Foreign
  <2>1. Under(b, a) = OwnClaim(a)  BY <1>1 DEF Under
  <2>. QED  BY <2>1, BeatsBetter
<1>2. CASE a \notin Foreign
  <2>. DEFINE u == Under(b, a)
              d == OwnClaim(b)
  <2>1. u.counter = d.counter /\ u.metric = d.metric /\ u.height = 1
    BY <1>2, UnderFields, Zenon
  <2>0. d.height = 0  BY OwnFields, Zenon
  <2>2. 0 < 1  OBVIOUS
  <2>. HIDE DEF u, d
  <2>3. RanksSame(d, u)  BY <2>1 DEF RanksSame
  <2>4. Better(d, u)  BY <2>0, <2>1, <2>2, <2>3, Zenon DEF Better
  <2>. QED  BY <2>4 DEF u, d
<1>. QED  BY <1>1, <1>2

(***************************************************************************)
(* A node that knows only claims of a net that follows b elects b again:   *)
(* the followers of b are one step further away, and do not count for b    *)
(* itself because they synchronise to it.                                  *)
(***************************************************************************)
LEMMA ElectsBest ==
  ASSUME NEW b \in All, NEW n \in Nodes, NEW kept \in SUBSET (All \ {n}),
         n # b => b \in kept /\ Beats(b, n),
         \A a \in kept : a # b => Beats(b, a),
         NEW c \in Elected(OwnClaim(n), {Under(b, a) : a \in kept})
  PROVE  c = Under(b, n)
<1>. DEFINE mine == OwnClaim(n)
            S == {Under(b, a) : a \in kept}
            d == OwnClaim(b)
<1>1. n \in All /\ n \notin Foreign  BY NetAssumption DEF All
<1>2. mine \in Claims /\ mine.self = n /\ d \in Claims /\ d.self = b /\ d.sync = b /\ d.height = 0
  BY <1>1, OwnFields, Zenon
<1>3. S \in SUBSET Claims  BY UnderType
<1>4. \A e \in S : \E a \in kept : e = Under(b, a)  OBVIOUS
<1>5. \A a \in kept : Under(b, a) \in S  OBVIOUS
<1>6. Under(b, b) = d  BY DEF Under
<1>7. c \in Elected(mine, S)  OBVIOUS
<1>. HIDE DEF mine, S, d
<1>8. CASE n = b
  <2>1. mine = d  BY <1>8 DEF mine, d
  <2>2. ASSUME NEW e \in Candidates(mine, S), e # mine PROVE Better(mine, e)
    <3>1. e \in S  BY <2>2 DEF Candidates
    <3>2. PICK a \in kept : e = Under(b, a)  BY <1>4, <3>1
    <3>3. a # b /\ a \in All  BY <1>8
    <3>4. Beats(b, a)  BY <3>3
    <3>. QED  BY <2>1, <3>2, <3>3, <3>4, BestIsBetter DEF d
  <2>3. mine \in Candidates(mine, S)  BY DEF Candidates
  <2>4. Elected(mine, S) = {mine}
    <3>1. Elected(mine, S) = {IF mine = mine THEN mine ELSE Adopt(mine, mine)}
      BY <1>2, <1>3, <2>2, <2>3, WinnerUnique
    <3>. QED  BY <3>1
  <2>. QED  BY <1>6, <1>7, <1>8, <2>1, <2>4
<1>9. CASE n # b
  <2>1. b \in kept /\ Beats(b, n)  BY <1>9
  <2>2. d \in S  BY <1>5, <1>6, <2>1
  <2>3. Eligible(mine, d)
    <3>1. Incr(0) <= MaxHeight  BY ElectionAssumption DEF Incr
    <3>. QED  BY <1>2, <1>9, <3>1 DEF Eligible
  <2>4. d \in Candidates(mine, S)  BY <2>2, <2>3 DEF Candidates
  <2>5. ASSUME NEW e \in Candidates(mine, S), e # d PROVE Better(d, e)
    <3>1. CASE e = mine  BY <1>1, <2>1, <3>1, BeatsBetter DEF mine, d
    <3>2. CASE e \in S
      <4>1. PICK a \in kept : e = Under(b, a)  BY <1>4, <3>2
      <4>2. a # b /\ a \in All  BY <1>6, <2>5, <4>1
      <4>3. Beats(b, a)  BY <4>2
      <4>. QED  BY <4>1, <4>2, <4>3, BestIsBetter DEF d
    <3>. QED  BY <3>1, <3>2 DEF Candidates
  <2>6. Elected(mine, S) = {IF d = mine THEN mine ELSE Adopt(mine, d)}
    BY <1>2, <1>3, <2>4, <2>5, WinnerUnique
  <2>7. d # mine  BY <1>2, <1>9
  <2>8. Under(b, n) = Adopt(mine, d)  BY <1>1, <1>9 DEF Under, mine, d
  <2>. QED  BY <1>7, <2>6, <2>7, <2>8
<1>. QED  BY <1>8, <1>9

LEMMA SettledHear ==
  ASSUME NetInv, NEW b \in All, Settled(b), NEW l \in range, Hear(l[2], l[1])
  PROVE  Settled(b)'
<1>. DEFINE s == l[1]
            r == l[2]
<1>1. s \in All /\ r \in Nodes /\ s # r  BY NetAssumption DEF NetInv, TypeOK
<1>2. s \in up /\ r \in up  BY DEF Hear
<1>3. up' = up /\ claim' = claim /\ range' = range /\ calm' = calm  BY DEF Hear
<1>4. /\ DOMAIN table' = Nodes
      /\ \A n \in Nodes : n # r => table'[n] = table[n]
      /\ \A a \in DOMAIN table'[r] : \/ a = s /\ table'[r][a].claim = Advertised(s)
                                     \/ a \in DOMAIN table[r] /\ table'[r][a] = table[r][a]
  BY <1>1 DEF Hear, NetInv, TypeOK
<1>5. Advertised(s) = Under(b, s) /\ (s # b => Beats(b, s))
  <2>1. CASE s \in Nodes  BY <1>2, <2>1 DEF Advertised, Settled, IsBest
  <2>2. CASE s \notin Nodes
    <3>1. s \in Foreign  BY <1>1, <2>2 DEF All
    <3>. QED  BY <1>2, <2>2, <3>1 DEF Advertised, Settled, IsBest, Under
  <2>. QED  BY <2>1, <2>2
<1>. HIDE DEF s, r
<1>6. \A n \in up \cap Nodes : \A a \in DOMAIN table'[n] :
        table'[n][a].claim = Under(b, a) /\ (a # b => Beats(b, a))
  <2>. SUFFICES ASSUME NEW n \in up \cap Nodes, NEW a \in DOMAIN table'[n]
                PROVE  table'[n][a].claim = Under(b, a) /\ (a # b => Beats(b, a))
    OBVIOUS
  <2>1. CASE n # r
    <3>1. table'[n] = table[n]  BY <1>4, <2>1, Zenon
    <3>. QED  BY <3>1 DEF Settled
  <2>2. CASE n = r /\ a = s /\ table'[r][a].claim = Advertised(s)  BY <1>5, <2>2, Zenon
  <2>3. CASE n = r /\ a \in DOMAIN table[r] /\ table'[r][a] = table[r][a]
    BY <2>3, Zenon DEF Settled
  <2>. QED  BY <1>4, <2>1, <2>2, <2>3, Zenon
<1>7. AllInRange' /\ IsBest(b)'  BY <1>3 DEF Settled, AllInRange, IsBest
<1>. QED  BY <1>3, <1>6, <1>7 DEF Settled

LEMMA SettledClean ==
  ASSUME NetInv, NEW b \in All, Settled(b), NEW n \in Nodes, Clean(n)
  PROVE  Settled(b)'
<1>1. PICK expired \in SUBSET MayExpire(n) : CleanPeers(n, expired)  BY DEF Clean
<1>. DEFINE kept == DOMAIN table[n] \ expired
            S == {table[n][a].claim : a \in kept}
            t == [a \in kept |-> [claim |-> table[n][a].claim, age |-> table[n][a].age + 1]]
<1>2. PICK c \in Elected(OwnClaim(n), S) : claim' = [claim EXCEPT ![n] = c]
  BY <1>1, Zenon DEF CleanPeers
<1>3. /\ up' = up /\ range' = range /\ calm' = calm /\ table' = [table EXCEPT ![n] = t]
  BY <1>1 DEF CleanPeers
<1>4. n \in up /\ AllHeard(n)  BY <1>1 DEF CleanPeers, Settled
<1>5. n \in All /\ kept \in SUBSET (All \ {n})  BY DEF NetInv, TypeOK, All
<1>6. \A a \in kept : table[n][a].claim = Under(b, a) /\ (a # b => Beats(b, a))
  BY <1>4 DEF Settled
<1>7. S = {Under(b, a) : a \in kept}  BY <1>6
<1>8. n # b => b \in kept /\ Beats(b, n)
  <2>. SUFFICES ASSUME n # b PROVE b \in kept /\ Beats(b, n)  OBVIOUS
  <2>1. b \in up /\ Beats(b, n)  BY <1>4 DEF Settled, IsBest
  <2>2. <<b, n>> \in range  BY <1>4, <2>1 DEF Settled, AllInRange
  <2>3. b \in DOMAIN table[n] /\ table[n][b].age = 0  BY <1>4, <2>1, <2>2 DEF AllHeard
  <2>4. ~(0 > 0)  OBVIOUS
  <2>5. b \notin MayExpire(n)  BY <2>3, <2>4, Zenon DEF MayExpire
  <2>. QED  BY <2>1, <2>3, <2>5
<1>9. c = Under(b, n)
  <2>1. c \in Elected(OwnClaim(n), {Under(b, a) : a \in kept})  BY <1>2, <1>7, Zenon
  <2>. HIDE DEF kept, S
  <2>. QED  BY <1>5, <1>6, <1>8, <2>1, ElectsBest
<1>10. claim'[n] = c /\ \A m \in Nodes : m # n => claim'[m] = claim[m]
  BY <1>2 DEF NetInv, TypeOK
<1>11. /\ table'[n] = t /\ DOMAIN t = kept /\ \A a \in kept : t[a].claim = table[n][a].claim
       /\ \A m \in Nodes : m # n => table'[m] = table[m]
  BY <1>3 DEF NetInv, TypeOK
<1>. HIDE DEF t, kept
<1>12. \A m \in up \cap Nodes :
         /\ claim'[m] = Under(b, m)
         /\ \A a \in DOMAIN table'[m] :
              table'[m][a].claim = Under(b, a) /\ (a # b => Beats(b, a))
  <2>. SUFFICES ASSUME NEW m \in up \cap Nodes
                PROVE  /\ claim'[m] = Under(b, m)
                       /\ \A a \in DOMAIN table'[m] :
                            table'[m][a].claim = Under(b, a) /\ (a # b => Beats(b, a))
    OBVIOUS
  <2>1. CASE m = n
    <3>1. claim'[n] = Under(b, n)  BY <1>9, <1>10
    <3>2. ASSUME NEW a \in DOMAIN table'[n]
          PROVE  table'[n][a].claim = Under(b, a) /\ (a # b => Beats(b, a))
      <4>1. a \in kept /\ table'[n][a].claim = table[n][a].claim  BY <1>11, Zenon
      <4>. QED  BY <1>6, <4>1, Zenon
    <3>. QED  BY <2>1, <3>1, <3>2, Zenon
  <2>2. CASE m # n
    <3>1. table'[m] = table[m] /\ claim'[m] = claim[m]  BY <1>10, <1>11, <2>2, Zenon
    <3>. QED  BY <3>1 DEF Settled
  <2>. QED  BY <2>1, <2>2
<1>13. AllInRange' /\ IsBest(b)'  BY <1>3 DEF Settled, AllInRange, IsBest
<1>. QED  BY <1>3, <1>12, <1>13 DEF Settled

LEMMA SettledStop ==
  ASSUME NetInv, NEW b \in All, Settled(b), NEW a \in All, Stop(a), b \in up'
  PROVE  Settled(b)'
<1>1. /\ up' = up \ {a} /\ range' = range /\ calm' = calm
      /\ \A n \in Nodes \ {a} : claim'[n] = claim[n] /\ table'[n] = table[n]
  BY DEF Stop
<1>2. AllInRange' /\ IsBest(b)'  BY <1>1 DEF Settled, AllInRange, IsBest
<1>. QED  BY <1>1, <1>2 DEF Settled

(***************************************************************************)
(* Agreement lasts (the closure half of Convergence): once all running     *)
(* nodes follow the best of them and know each other as its followers, no  *)
(* frame, no cleaning and no node that leaves makes any of them choose     *)
(* anew, as long as the best one runs and nobody joins.                    *)
(***************************************************************************)
THEOREM AgreementLasts ==
  Spec => [][\A b \in All : Settled(b) /\ b \in up' /\ up' \subseteq up => Settled(b)']_vars
<1>1. ASSUME NetInv, [Next]_vars, NEW b \in All, Settled(b), b \in up', up' \subseteq up
      PROVE  Settled(b)'
  <2>1. CASE \E l \in range : Hear(l[2], l[1])  BY <1>1, <2>1, SettledHear
  <2>2. CASE \E n \in Nodes : Clean(n)  BY <1>1, <2>2, SettledClean
  <2>3. ASSUME NEW a \in All, Stop(a) PROVE Settled(b)'  BY <1>1, <2>3, SettledStop
  <2>4. ASSUME NEW a \in All, Start(a) PROVE FALSE  BY <1>1, <2>4 DEF Start
  <2>5. CASE CalmDown  BY <1>1, <2>5 DEF CalmDown, Settled
  <2>6. CASE UNCHANGED vars
    BY <1>1, <2>6 DEF vars, Settled, AllInRange, IsBest
  <2>. QED  BY <1>1, <2>1, <2>2, <2>3, <2>4, <2>5, <2>6 DEF Next
<1>2. NetInv /\ [Next]_vars =>
        [\A b \in All : Settled(b) /\ b \in up' /\ up' \subseteq up => Settled(b)']_vars
  BY <1>1
<1>. QED  BY <1>2, NetInvariant, PTL DEF Spec

-----------------------------------------------------------------------------
\* a is gone; who still follows it claims a height of at least c, and the claims
\* that are remembered of its followers have one of at least t.
Ghost(a, c, t) ==
  /\ a \notin up
  /\ \A n \in Nodes \ {a} : claim[n].master = a => claim[n].height >= c
  /\ \A n \in Nodes : \A p \in DOMAIN table[n] :
       table[n][p].claim.master = a => table[n][p].claim.height >= t

\* What a step makes anew of the claim of a ghost is higher than what it read.
RisesBy(a, c, t) ==
  /\ \A n \in Nodes : Clean(n) /\ claim'[n].master = a => claim'[n].height > t
  /\ \A l \in range : /\ Hear(l[2], l[1]) /\ table'[l[2]][l[1]].claim.master = a
                      => table'[l[2]][l[1]].claim.height >= c

LEMMA GhostHear ==
  ASSUME NetInv, NEW a \in All, NEW t \in Nat, NEW c \in {t, t + 1}, Ghost(a, c, t),
         NEW l \in range, Hear(l[2], l[1])
  PROVE  /\ Ghost(a, c, t)'
         /\ table'[l[2]][l[1]].claim.master = a => table'[l[2]][l[1]].claim.height >= c
<1>. DEFINE s == l[1]
            r == l[2]
<1>1. s \in All /\ r \in Nodes /\ s # r  BY NetAssumption DEF NetInv, TypeOK
<1>2. s \in up /\ r \in up /\ up' = up /\ claim' = claim  BY DEF Hear
<1>3. /\ \A n \in Nodes : n # r => table'[n] = table[n]
      /\ \A p \in DOMAIN table'[r] : \/ p = s
                                     \/ p \in DOMAIN table[r] /\ table'[r][p] = table[r][p]
      /\ table'[r][s].claim = Advertised(s)
  BY <1>1 DEF Hear, NetInv, TypeOK
<1>4. s # a  BY <1>2 DEF Ghost
<1>5. Advertised(s).master = a => Advertised(s).height >= c
  <2>1. CASE s \in Nodes  BY <1>4, <2>1 DEF Advertised, Ghost
  <2>2. CASE s \notin Nodes  BY <1>1, <1>4, <2>2, OwnFields DEF Advertised
  <2>. QED  BY <2>1, <2>2
<1>6. Advertised(s).master = a => Advertised(s).height >= t
  <2>1. Advertised(s).height \in Nat
    <3>1. Advertised(s) \in Claims  BY <1>1, OwnFields DEF Advertised, NetInv, TypeOK
    <3>. QED  BY <3>1, ClaimType
  <2>2. \A h \in Nat : h >= c => h >= t  OBVIOUS
  <2>. QED  BY <1>5, <2>1, <2>2, Zenon
<1>. HIDE DEF s, r
<1>7. ASSUME NEW n \in Nodes, NEW p \in DOMAIN table'[n], table'[n][p].claim.master = a
      PROVE  table'[n][p].claim.height >= t
  <2>1. CASE n # r
    <3>1. table'[n] = table[n]  BY <1>3, <2>1, Zenon
    <3>. QED  BY <1>7, <3>1, Zenon DEF Ghost
  <2>2. CASE n = r /\ p = s  BY <1>3, <1>6, <1>7, <2>2, Zenon
  <2>3. CASE n = r /\ p \in DOMAIN table[r] /\ table'[r][p] = table[r][p]
    BY <1>7, <2>3, Zenon DEF Ghost
  <2>. QED  BY <1>3, <2>1, <2>2, <2>3, Zenon
<1>8. Ghost(a, c, t)'  BY <1>2, <1>7, Zenon DEF Ghost
<1>. QED  BY <1>3, <1>5, <1>8, Zenon DEF s, r

\* Who elects a follower of the ghost is one step further away than that one.
LEMMA GhostClean ==
  ASSUME NetInv, NEW a \in All, NEW t \in Nat, NEW c \in {t, t + 1}, Ghost(a, c, t),
         NEW n \in Nodes, Clean(n)
  PROVE  /\ Ghost(a, c, t)'
         /\ claim'[n].master = a => claim'[n].height > t
<1>1. PICK expired \in SUBSET MayExpire(n) : CleanPeers(n, expired)  BY DEF Clean
<1>. DEFINE kept == DOMAIN table[n] \ expired
            S == {table[n][p].claim : p \in kept}
            u == [p \in kept |-> [claim |-> table[n][p].claim, age |-> table[n][p].age + 1]]
            mine == OwnClaim(n)
<1>2. PICK e \in Elected(mine, S) : claim' = [claim EXCEPT ![n] = e]
  BY <1>1, Zenon DEF CleanPeers
<1>3. n \in up /\ up' = up /\ table' = [table EXCEPT ![n] = u]
  BY <1>1 DEF CleanPeers
<1>4. n # a /\ n \in All  BY <1>3 DEF Ghost, All
<1>5. mine \in Claims /\ mine.master = n  BY <1>4, OwnFields
<1>6. S \in SUBSET Claims /\ \A d \in S : d.height <= MaxHeight /\ (d.master = a => d.height >= t)
  BY DEF NetInv, Sound, Ghost
<1>7. claim'[n] = e /\ \A m \in Nodes : m # n => claim'[m] = claim[m]
  BY <1>2 DEF NetInv, TypeOK
<1>8. /\ table'[n] = u /\ DOMAIN u = kept /\ \A p \in kept : u[p].claim = table[n][p].claim
      /\ \A m \in Nodes : m # n => table'[m] = table[m]
  BY <1>3 DEF NetInv, TypeOK
<1>. HIDE DEF S, u, mine
<1>9. e.master = a => e.height \in Nat /\ e.height > t
  <2>. SUFFICES ASSUME e.master = a PROVE e.height \in Nat /\ e.height > t  OBVIOUS
  <2>1. e # mine  BY <1>4, <1>5
  <2>2. PICK d \in S : e = Adopt(mine, d)  BY <1>2, <1>5, <1>6, <2>1, ElectedShape
  <2>3. d \in Claims /\ d.height <= MaxHeight  BY <1>6
  <2>4. e.master = d.master /\ e.height = Incr(d.height)  BY <1>5, <2>2 DEF Adopt, Claims
  <2>5. d.height >= t  BY <1>6, <2>4
  <2>6. d.height \in Nat  BY <2>3, ClaimType
  <2>. DEFINE h == d.height
  <2>7. h \in Nat /\ h <= MaxHeight /\ h >= t /\ e.height = Incr(h)  BY <2>3, <2>4, <2>5, <2>6
  <2>. HIDE DEF h
  <2>8. Incr(h) = h + 1  BY <2>7, ElectionAssumption DEF Incr
  <2>9. h + 1 \in Nat /\ h + 1 > t  BY <2>7
  <2>. QED  BY <2>7, <2>8, <2>9, Zenon
<1>10. \A h \in Nat : h > t => h >= c  OBVIOUS
<1>11. ASSUME NEW m \in Nodes \ {a}, claim'[m].master = a PROVE claim'[m].height >= c
  <2>1. CASE m = n  BY <1>7, <1>9, <1>10, <1>11, <2>1, Zenon
  <2>2. CASE m # n
    <3>1. claim'[m] = claim[m]  BY <1>7, <2>2, Zenon
    <3>. QED  BY <1>11, <3>1, Zenon DEF Ghost
  <2>. QED  BY <2>1, <2>2
<1>12. ASSUME NEW m \in Nodes, NEW p \in DOMAIN table'[m], table'[m][p].claim.master = a
       PROVE  table'[m][p].claim.height >= t
  <2>1. CASE m = n
    <3>1. p \in DOMAIN table[n] /\ table'[n][p].claim = table[n][p].claim  BY <1>8, <2>1
    <3>. QED  BY <1>12, <2>1, <3>1, Zenon DEF Ghost
  <2>2. CASE m # n
    <3>1. table'[m] = table[m]  BY <1>8, <2>2, Zenon
    <3>. QED  BY <1>12, <3>1, Zenon DEF Ghost
  <2>. QED  BY <2>1, <2>2
<1>13. Ghost(a, c, t)'  BY <1>3, <1>11, <1>12, Zenon DEF Ghost
<1>. QED  BY <1>7, <1>9, <1>13, Zenon

LEMMA GhostStop ==
  ASSUME NetInv, NEW a \in All, NEW t \in Nat, NEW c \in {t, t + 1}, Ghost(a, c, t),
         NEW b \in All, Stop(b)
  PROVE  Ghost(a, c, t)'
<1>1. /\ up' = up \ {b} /\ b \in up
      /\ \A n \in Nodes \ {b} : claim'[n] = claim[n] /\ table'[n] = table[n]
      /\ b \in Nodes => claim'[b] = OwnClaim(b) /\ DOMAIN table'[b] = {}
  BY DEF Stop, NoPeers
<1>2. b # a  BY <1>1 DEF Ghost
<1>3. ASSUME NEW n \in Nodes \ {a}, claim'[n].master = a PROVE claim'[n].height >= c
  <2>1. n # b  BY <1>1, <1>2, <1>3, OwnFields
  <2>2. claim'[n] = claim[n]  BY <1>1, <2>1
  <2>. QED  BY <1>3, <2>2, Zenon DEF Ghost
<1>4. ASSUME NEW n \in Nodes, NEW p \in DOMAIN table'[n], table'[n][p].claim.master = a
      PROVE  table'[n][p].claim.height >= t
  <2>1. table'[n] = table[n]  BY <1>1, <1>4
  <2>. QED  BY <1>4, <2>1, Zenon DEF Ghost
<1>5. a \notin up'  BY <1>1 DEF Ghost
<1>. QED  BY <1>3, <1>4, <1>5, Zenon DEF Ghost

(***************************************************************************)
(* A ghost only rises (the ranking argument of GhostForgotten): as long as *)
(* the master a is gone, no step lowers the least height at which a is     *)
(* still claimed or remembered, a cleaning that elects a follower of a     *)
(* claims more than every remembered height, and a frame passes on no less *)
(* than what is claimed.  So each round of cleaning and hearing lifts the  *)
(* ghost by one, and AWDL_ELECTION_TREE_MAX_HEIGHT ends it.                *)
(***************************************************************************)
THEOREM GhostsRise ==
  Spec => [][\A a \in All, t \in Nat : \A c \in {t, t + 1} :
               Ghost(a, c, t) /\ a \notin up' => Ghost(a, c, t)' /\ RisesBy(a, c, t)]_vars
<1>1. ASSUME NetInv, [Next]_vars, NEW a \in All, NEW t \in Nat, NEW c \in {t, t + 1},
             Ghost(a, c, t), a \notin up'
      PROVE  Ghost(a, c, t)' /\ RisesBy(a, c, t)
  <2>1. RisesBy(a, c, t)  BY <1>1, GhostHear, GhostClean, Zenon DEF RisesBy
  <2>2. ASSUME NEW l \in range, Hear(l[2], l[1]) PROVE Ghost(a, c, t)'
    BY <1>1, <2>2, GhostHear, Zenon
  <2>3. ASSUME NEW n \in Nodes, Clean(n) PROVE Ghost(a, c, t)'
    BY <1>1, <2>3, GhostClean, Zenon
  <2>4. ASSUME NEW b \in All, Stop(b) PROVE Ghost(a, c, t)'  BY <1>1, <2>4, GhostStop
  <2>5. ASSUME claim' = claim, table' = table PROVE Ghost(a, c, t)'
    BY <1>1, <2>5, Zenon DEF Ghost
  <2>6. ASSUME NEW b \in All, Start(b) PROVE Ghost(a, c, t)'  BY <2>5, <2>6 DEF Start
  <2>7. CalmDown => Ghost(a, c, t)'  BY <2>5 DEF CalmDown
  <2>8. UNCHANGED vars => Ghost(a, c, t)'  BY <2>5 DEF vars
  <2>9. Ghost(a, c, t)'  BY <1>1, <2>2, <2>3, <2>4, <2>6, <2>7, <2>8, Zenon DEF Next
  <2>. QED  BY <2>1, <2>9
<1>2. NetInv /\ [Next]_vars =>
        [\A a \in All, t \in Nat : \A c \in {t, t + 1} :
           Ghost(a, c, t) /\ a \notin up' => Ghost(a, c, t)' /\ RisesBy(a, c, t)]_vars
  BY <1>1, Zenon
<1>. QED  BY <1>2, NetInvariant, PTL DEF Spec

\* No node follows a, and none remembers a claim that does.
Forgotten(a) ==
  /\ a \notin up
  /\ \A n \in Nodes \ {a} : claim[n].master # a
  /\ \A n \in Nodes : \A p \in DOMAIN table[n] : table[n][p].claim.master # a

\* To be above the highest tree is to be forgotten.
ForgottenIfHigh ==
  \A a \in All : Forgotten(a) <=> Ghost(a, MaxHeight + 1, MaxHeight + 1)

LEMMA ForgottenIsHigh == NetInv => ForgottenIfHigh
<1>. SUFFICES ASSUME NetInv PROVE ForgottenIfHigh  OBVIOUS
<1>1. \A h \in Nat : h <= MaxHeight => ~(h >= MaxHeight + 1)  BY ElectionAssumption
<1>2. \A n \in Nodes : claim[n].height \in Nat /\ claim[n].height <= MaxHeight
  BY ClaimType, Zenon DEF NetInv, Sound
<1>3. \A n \in Nodes : \A p \in DOMAIN table[n] :
        table[n][p].claim.height \in Nat /\ table[n][p].claim.height <= MaxHeight
  BY ClaimType, Zenon DEF NetInv, Sound
<1>. QED  BY <1>1, <1>2, <1>3, Zenon DEF ForgottenIfHigh, Forgotten, Ghost

(***************************************************************************)
(* A master that is gone and forgotten does not come back from some stale  *)
(* table: until it runs again nobody follows or remembers it.              *)
(***************************************************************************)
THEOREM ForgottenForGood ==
  Spec => [][\A a \in All : Forgotten(a) /\ a \notin up' => Forgotten(a)']_vars
<1>. DEFINE H == MaxHeight + 1
            Rise == \A a \in All, t \in Nat : \A c \in {t, t + 1} :
                      Ghost(a, c, t) /\ a \notin up' => Ghost(a, c, t)' /\ RisesBy(a, c, t)
            Gone == \A a \in All : Forgotten(a) /\ a \notin up' => Forgotten(a)'
<1>1. H \in Nat /\ H \in {H, H + 1}  BY ElectionAssumption
<1>2. NetInv' => ForgottenIfHigh'  BY ForgottenIsHigh, PTL
<1>3. NetInv /\ NetInv' /\ [Rise]_vars => [Gone]_vars
  <2>. SUFFICES ASSUME NetInv, NetInv', Rise, NEW a \in All, Forgotten(a), a \notin up'
                PROVE  Forgotten(a)'
    BY Zenon
  <2>1. Ghost(a, H, H)  BY ForgottenIsHigh, Zenon DEF ForgottenIfHigh
  <2>2. Ghost(a, H, H)'  BY <1>1, <2>1, Zenon
  <2>. QED  BY <1>2, <2>2, Zenon DEF ForgottenIfHigh
<1>. QED  BY <1>3, NetInvariant, GhostsRise, PTL

=============================================================================

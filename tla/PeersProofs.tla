----------------------------- MODULE PeersProofs ----------------------------
(***************************************************************************)
(* The invariants of the peer table for every set of neighbours, every     *)
(* content of their frames, every timeout and every interval.              *)
(***************************************************************************)
EXTENDS Peers, ElectionLemmas

(***************************************************************************)
(* The inductive invariant.  Beyond the properties it says that an entry's *)
(* time stamp is the time its owner was last heard, that the frame being   *)
(* parsed arrived just now, and that the cleaning timer is due before any  *)
(* entry has been silent for longer than the timeout and one interval.     *)
(***************************************************************************)
Timing ==
  /\ \A a \in DOMAIN peers : /\ peers[a].last_update = heard[a]
                             /\ heard[a] <= now
                             /\ cleanAt <= heard[a] + Timeout + CleanInterval
  /\ rx # NoFrame => heard[rx.src] = now
  /\ now <= cleanAt + Late
  /\ cleanAt <= now + CleanInterval

PeersInv ==
  /\ TypeOK
  /\ NeighborsAreValidPeers
  /\ SyncMasterIsValidPeer
  /\ NeverFollowsWorse
  /\ Timing

\* The node's own claim after awdl_election_reset_self.
LEMMA OwnSelfType ==
  /\ OwnSelfClaim \in Claims
  /\ OwnSelfClaim.self = Self /\ OwnSelfClaim.sync = Self /\ OwnSelfClaim.height = 0
<1>1. 0 \in Heights  BY ElectionAssumption DEF Heights
<1>. QED  BY <1>1, PeersAssumption DEF OwnSelfClaim, SelfClaim, Claims

LEMMA PeerNewType ==
  ASSUME NEW a \in Others
  PROVE  PeerNew(a) \in PeerRecs /\ PeerNew(a).claim.self = a
<1>1. 0 \in Heights  BY ElectionAssumption DEF Heights
<1>2. SelfClaim(a, CounterInit, MetricInit) \in Claims
  BY <1>1, PeersAssumption DEF SelfClaim, Claims
<1>. QED  BY <1>2 DEF PeerNew, PeerRecs, SelfClaim

LEMMA InitInv == Init => PeersInv
<1>. SUFFICES ASSUME Init PROVE PeersInv  OBVIOUS
<1>1. DOMAIN peers = {}  BY DEF Init
<1>2. TypeOK
  BY <1>1, OwnSelfType, PeersAssumption DEF Init, TypeOK
<1>3. NeighborsAreValidPeers /\ SyncMasterIsValidPeer
  BY <1>1, OwnSelfType DEF Init, NeighborsAreValidPeers, SyncMasterIsValidPeer, ValidPeers
<1>4. NeverFollowsWorse
  <2>1. OwnSelfClaim.counter \in Nat /\ OwnSelfClaim.metric \in Nat
    BY OwnSelfType, ClaimType
  <2>. QED  BY <2>1, OwnSelfType, ElectionAssumption DEF Init, NeverFollowsWorse, RanksAbove
<1>5. Timing
  BY <1>1, PeersAssumption DEF Init, Timing
<1>. QED  BY <1>2, <1>3, <1>4, <1>5 DEF PeersInv

-----------------------------------------------------------------------------
\* Storing an entry changes that entry only.
LEMMA SetPeerFacts ==
  ASSUME TypeOK, NEW a \in Others, NEW p \in PeerRecs, p.claim.self = a,
         peers' = SetPeer(a, p)
  PROVE  /\ DOMAIN peers' = DOMAIN peers \cup {a}
         /\ peers'[a] = p
         /\ \A b \in DOMAIN peers : b # a => peers'[b] = peers[b]
         /\ DOMAIN peers' \subseteq Others
         /\ peers' = [b \in DOMAIN peers' |-> peers'[b]]
         /\ \A b \in DOMAIN peers' : peers'[b] \in PeerRecs /\ peers'[b].claim.self = b
         /\ ValidPeers' = (ValidPeers \ {a}) \cup (IF p.is_valid THEN {a} ELSE {})
<1>1. DOMAIN peers' = DOMAIN peers \cup {a}  BY DEF SetPeer
<1>2. peers'[a] = p  BY DEF SetPeer
<1>3. \A b \in DOMAIN peers : b # a => peers'[b] = peers[b]  BY DEF SetPeer
<1>4. DOMAIN peers' \subseteq Others  BY <1>1 DEF TypeOK
<1>5. peers' = [b \in DOMAIN peers' |-> peers'[b]]  BY DEF SetPeer
<1>6. \A b \in DOMAIN peers' : peers'[b] \in PeerRecs /\ peers'[b].claim.self = b
  BY <1>1, <1>2, <1>3 DEF TypeOK
<1>7. ValidPeers' = (ValidPeers \ {a}) \cup (IF p.is_valid THEN {a} ELSE {})
  BY <1>1, <1>2, <1>3 DEF ValidPeers
<1>. QED  BY <1>1, <1>2, <1>3, <1>4, <1>5, <1>6, <1>7

(***************************************************************************)
(* awdl_peer_add keeps the neighbour table in step with the valid peers:   *)
(* the callback runs exactly when the entry turns valid.                   *)
(***************************************************************************)
LEMMA PeerAddFacts ==
  ASSUME TypeOK, NeighborsAreValidPeers,
         NEW a \in Others, NEW p \in PeerRecs, p.claim.self = a,
         p.is_valid <=> a \in ValidPeers, PeerAdd(a, p)
  PROVE  /\ DOMAIN peers' = DOMAIN peers \cup {a}
         /\ peers'[a].last_update = now
         /\ \A b \in DOMAIN peers : b # a => peers'[b] = peers[b]
         /\ DOMAIN peers' \subseteq Others
         /\ peers' = [b \in DOMAIN peers' |-> peers'[b]]
         /\ \A b \in DOMAIN peers' : peers'[b] \in PeerRecs /\ peers'[b].claim.self = b
         /\ ValidPeers \subseteq ValidPeers'
         /\ neighbors' \subseteq Others /\ netlinkErr' \subseteq Others
         /\ NeighborsAreValidPeers'
<1>. DEFINE q == [p EXCEPT !.last_update = now, !.is_valid = p.is_valid \/ Qualifies(p)]
<1>1. /\ q \in PeerRecs /\ q.claim.self = a /\ q.last_update = now
      /\ q.is_valid <=> p.is_valid \/ Qualifies(p)
  <2>1. now \in Nat  BY DEF TypeOK
  <2>2. (p.is_valid \/ Qualifies(p)) \in BOOLEAN  OBVIOUS
  <2>. QED  BY <2>1, <2>2, Zenon DEF PeerRecs
<1>2. peers' = SetPeer(a, q)  BY DEF PeerAdd
<1>. HIDE DEF q
<1>3. /\ DOMAIN peers' = DOMAIN peers \cup {a}
      /\ peers'[a] = q
      /\ \A b \in DOMAIN peers : b # a => peers'[b] = peers[b]
      /\ DOMAIN peers' \subseteq Others
      /\ peers' = [b \in DOMAIN peers' |-> peers'[b]]
      /\ \A b \in DOMAIN peers' : peers'[b] \in PeerRecs /\ peers'[b].claim.self = b
      /\ ValidPeers' = (ValidPeers \ {a}) \cup (IF q.is_valid THEN {a} ELSE {})
  BY <1>1, <1>2, SetPeerFacts, ZenonT(40)
<1>4. ValidPeers \subseteq ValidPeers'  BY <1>1, <1>3
<1>5. CASE ~p.is_valid /\ Qualifies(p)
  <2>1. ValidPeers' = ValidPeers \cup {a}  BY <1>1, <1>3, <1>5
  <2>2. NeighborAdd(a)  BY <1>5 DEF PeerAdd
  <2>3. neighbors' \subseteq Others /\ netlinkErr' \subseteq Others
    BY <2>2 DEF NeighborAdd, TypeOK
  <2>4. NeighborsAreValidPeers'
    BY <2>1, <2>2 DEF NeighborAdd, NeighborsAreValidPeers
  <2>. QED  BY <1>1, <1>3, <1>4, <2>3, <2>4
<1>6. CASE ~(~p.is_valid /\ Qualifies(p))
  <2>1. ValidPeers' = ValidPeers  BY <1>1, <1>3, <1>6
  <2>2. neighbors' = neighbors /\ netlinkErr' = netlinkErr  BY <1>6 DEF PeerAdd
  <2>3. NeighborsAreValidPeers'
    BY <2>1, <2>2 DEF NeighborsAreValidPeers
  <2>. QED  BY <1>1, <1>3, <1>4, <2>2, <2>3 DEF TypeOK
<1>. QED  BY <1>5, <1>6

\* Receiving keeps the sync master valid: no entry loses its validity.
LEMMA OwnKept ==
  ASSUME TypeOK, SyncMasterIsValidPeer, NeverFollowsWorse,
         own' = own, ValidPeers \subseteq ValidPeers'
  PROVE  own' \in Claims /\ own'.self = Self /\ SyncMasterIsValidPeer' /\ NeverFollowsWorse'
BY DEF TypeOK, SyncMasterIsValidPeer, NeverFollowsWorse

LEMMA RxBeginInv ==
  ASSUME PeersInv, NEW a \in Others, NEW mif \in BOOLEAN, NEW rssi \in Rssi,
         RxBegin(a, mif, rssi)
  PROVE  PeersInv'
<1>. USE DEF PeersInv
<1>. DEFINE p == IF Known(a) THEN peers[a] ELSE PeerNew(a)
<1>1. p \in PeerRecs /\ p.claim.self = a /\ (p.is_valid <=> a \in ValidPeers)
  <2>1. CASE Known(a)  BY <2>1 DEF TypeOK, Known, ValidPeers
  <2>2. CASE ~Known(a)
    <3>1. p = PeerNew(a) /\ a \notin ValidPeers /\ ~PeerNew(a).is_valid
      BY <2>2 DEF Known, ValidPeers, PeerNew
    <3>. QED  BY <3>1, PeerNewType
  <2>. QED  BY <2>1, <2>2
<1>2. PeerAdd(a, p)  BY DEF RxBegin
<1>3. /\ rx' = [src |-> a, mif |-> mif] /\ heard' = [heard EXCEPT ![a] = now]
      /\ own' = own /\ now' = now /\ cleanAt' = cleanAt
  BY DEF RxBegin
<1>. HIDE DEF p
<1>4. /\ DOMAIN peers' = DOMAIN peers \cup {a}
      /\ peers'[a].last_update = now
      /\ \A b \in DOMAIN peers : b # a => peers'[b] = peers[b]
      /\ DOMAIN peers' \subseteq Others
      /\ peers' = [b \in DOMAIN peers' |-> peers'[b]]
      /\ \A b \in DOMAIN peers' : peers'[b] \in PeerRecs /\ peers'[b].claim.self = b
      /\ ValidPeers \subseteq ValidPeers'
      /\ neighbors' \subseteq Others /\ netlinkErr' \subseteq Others
      /\ NeighborsAreValidPeers'
  BY <1>1, <1>2, PeerAddFacts, Zenon
<1>5. own' \in Claims /\ own'.self = Self /\ SyncMasterIsValidPeer' /\ NeverFollowsWorse'
  BY <1>3, <1>4, OwnKept
<1>6. TypeOK'
  <2>1. heard' \in [Others -> Nat] /\ now' \in Nat /\ cleanAt' \in Nat
    BY <1>3 DEF TypeOK
  <2>2. rx' \in {NoFrame} \cup [src: DOMAIN peers', mif: BOOLEAN]
    BY <1>3, <1>4
  <2>. QED  BY <1>4, <1>5, <2>1, <2>2 DEF TypeOK
<1>7. Timing'
  <2>1. heard'[a] = now /\ \A b \in DOMAIN peers : b # a => heard'[b] = heard[b]
    BY <1>3 DEF TypeOK
  <2>2. rx'.src = a  BY <1>3
  <2>. QED  BY <1>3, <1>4, <2>1, <2>2, PeersAssumption DEF Timing, TypeOK
<1>. QED  BY <1>4, <1>5, <1>6, <1>7

(***************************************************************************)
(* A TLV handler may store anything in the fields it parses, whether it    *)
(* succeeds or not: the time stamp and the latched validity stay.          *)
(***************************************************************************)
LEMMA TlvInv ==
  ASSUME PeersInv, rx # NoFrame, NEW p \in PeerRecs, NEW ok \in BOOLEAN,
         p.claim.self = rx.src, p.is_valid <=> rx.src \in ValidPeers,
         p.last_update = peers[rx.src].last_update, TlvResult(p, ok)
  PROVE  PeersInv'
<1>. USE DEF PeersInv
<1>1. rx \in [src: DOMAIN peers, mif: BOOLEAN] /\ rx.src \in DOMAIN peers /\ rx.src \in Others
  BY DEF TypeOK
<1>2. /\ peers' = SetPeer(rx.src, p) /\ rx' \in {rx, NoFrame}
      /\ own' = own /\ neighbors' = neighbors /\ netlinkErr' = netlinkErr
      /\ heard' = heard /\ now' = now /\ cleanAt' = cleanAt
  BY DEF TlvResult
<1>3. /\ DOMAIN peers' = DOMAIN peers \cup {rx.src}
      /\ peers'[rx.src] = p
      /\ \A b \in DOMAIN peers : b # rx.src => peers'[b] = peers[b]
      /\ DOMAIN peers' \subseteq Others
      /\ peers' = [b \in DOMAIN peers' |-> peers'[b]]
      /\ \A b \in DOMAIN peers' : peers'[b] \in PeerRecs /\ peers'[b].claim.self = b
      /\ ValidPeers' = (ValidPeers \ {rx.src}) \cup (IF p.is_valid THEN {rx.src} ELSE {})
  BY <1>1, <1>2, SetPeerFacts, ZenonT(40)
<1>4. ValidPeers' = ValidPeers /\ DOMAIN peers' = DOMAIN peers
  <2>. DEFINE V == ValidPeers
              s == rx.src
              W == IF p.is_valid THEN {s} ELSE {}
  <2>1. DOMAIN peers' = DOMAIN peers \cup {s} /\ s \in DOMAIN peers  BY <1>1, <1>3, Zenon
  <2>2. ValidPeers' = (V \ {s}) \cup W  BY <1>3, Zenon
  <2>3. W = IF s \in V THEN {s} ELSE {}  BY Zenon
  <2>. HIDE DEF V, s, W
  <2>4. (V \ {s}) \cup W = V  BY <2>3
  <2>. QED  BY <2>1, <2>2, <2>4 DEF V
<1>5. own' \in Claims /\ own'.self = Self /\ SyncMasterIsValidPeer' /\ NeverFollowsWorse'
  BY <1>2, <1>4, OwnKept
<1>6. TypeOK'
  <2>1. rx' \in {NoFrame} \cup [src: DOMAIN peers', mif: BOOLEAN]
    BY <1>1, <1>2, <1>4
  <2>. QED  BY <1>2, <1>3, <1>5, <2>1 DEF TypeOK
<1>7. NeighborsAreValidPeers'
  BY <1>2, <1>4 DEF NeighborsAreValidPeers
<1>8. Timing'
  <2>1. \A b \in DOMAIN peers' : peers'[b].last_update = peers[b].last_update
    BY <1>1, <1>3, <1>4
  <2>. QED  BY <1>2, <1>4, <2>1 DEF Timing
<1>. QED  BY <1>5, <1>6, <1>7, <1>8

LEMMA HandleElectionV1Inv ==
  ASSUME PeersInv, NEW adv \in Adverts, NEW reads \in 0 .. 4, HandleElectionV1(adv, reads)
  PROVE  PeersInv'
<1>. DEFINE p == peers[rx.src]
            q == [p EXCEPT
                   !.claim.height = IF reads >= 1 THEN adv.height ELSE @,
                   !.claim.master = IF reads >= 2 THEN adv.master ELSE @,
                   !.claim.metric = IF reads >= 3 THEN adv.metric ELSE @]
<1>1. rx # NoFrame  BY DEF HandleElectionV1
<1>2. /\ rx.src \in DOMAIN peers /\ p \in PeerRecs /\ p.claim.self = rx.src
      /\ p.is_valid <=> rx.src \in ValidPeers
  BY <1>1 DEF PeersInv, TypeOK, ValidPeers
<1>3. adv.height \in Heights /\ adv.master \in Addr /\ adv.metric \in Nat
  BY PeersAssumption
<1>4. CASE p.supports_v2
  <2>1. TlvResult(p, TRUE)  BY <1>4, Zenon DEF HandleElectionV1
  <2>. QED  BY <1>1, <1>2, <2>1, TlvInv, Zenon
<1>5. CASE ~p.supports_v2
  <2>1. TlvResult(q, reads = 4)  BY <1>5 DEF HandleElectionV1
  <2>2. /\ q \in PeerRecs /\ q.claim.self = rx.src
        /\ q.is_valid = p.is_valid /\ q.last_update = p.last_update
    BY <1>2, <1>3, ZenonT(40) DEF PeerRecs, Claims
  <2>3. (reads = 4) \in BOOLEAN  OBVIOUS
  <2>. HIDE DEF q
  <2>. QED  BY <1>1, <1>2, <2>1, <2>2, <2>3, TlvInv, Zenon
<1>. QED  BY <1>4, <1>5

LEMMA HandleElectionV2Inv ==
  ASSUME PeersInv, NEW adv \in Adverts, NEW reads \in 0 .. 3, HandleElectionV2(adv, reads)
  PROVE  PeersInv'
<1>. DEFINE p == peers[rx.src]
            c == [p.claim EXCEPT
                   !.height  = IF reads >= 1 THEN adv.height ELSE @,
                   !.master  = IF reads >= 1 THEN adv.master ELSE @,
                   !.sync    = IF reads >= 1 THEN adv.sync ELSE @,
                   !.counter = IF reads >= 1 THEN adv.counter ELSE @,
                   !.metric  = IF reads >= 2 THEN adv.metric ELSE @]
            q == [p EXCEPT !.claim = c, !.supports_v2 = @ \/ reads = 3]
<1>1. rx # NoFrame  BY DEF HandleElectionV2
<1>2. /\ rx.src \in DOMAIN peers /\ p \in PeerRecs /\ p.claim.self = rx.src
      /\ p.is_valid <=> rx.src \in ValidPeers
  BY <1>1 DEF PeersInv, TypeOK, ValidPeers
<1>3. /\ adv.height \in Heights /\ adv.master \in Addr /\ adv.sync \in Addr
      /\ adv.counter \in Nat /\ adv.metric \in Nat
  BY PeersAssumption
<1>4. TlvResult(q, reads = 3)  BY DEF HandleElectionV2
<1>5. /\ q \in PeerRecs /\ q.claim.self = rx.src
      /\ q.is_valid = p.is_valid /\ q.last_update = p.last_update
  <2>1. p.claim \in Claims  BY <1>2 DEF PeerRecs
  <2>2. c \in Claims /\ c.self = rx.src  BY <1>2, <1>3, <2>1, ZenonT(40) DEF Claims
  <2>. HIDE DEF c
  <2>. QED  BY <1>2, <2>2, Zenon DEF PeerRecs
<1>6. (reads = 3) \in BOOLEAN  OBVIOUS
<1>. HIDE DEF q
<1>. QED  BY <1>1, <1>2, <1>4, <1>5, <1>6, TlvInv, Zenon

LEMMA HandleVersionInv ==
  ASSUME PeersInv, NEW v \in Versions, HandleVersion(v)
  PROVE  PeersInv'
<1>. DEFINE p == peers[rx.src]
            q == [p EXCEPT !.version = v.version, !.devclass = v.devclass]
<1>1. rx # NoFrame  BY DEF HandleVersion
<1>2. /\ rx.src \in DOMAIN peers /\ p \in PeerRecs /\ p.claim.self = rx.src
      /\ p.is_valid <=> rx.src \in ValidPeers
  BY <1>1 DEF PeersInv, TypeOK, ValidPeers
<1>3. v.version \in Nat /\ v.devclass \in Nat  BY PeersAssumption
<1>4. TlvResult(q, TRUE)  BY Zenon DEF HandleVersion
<1>5. /\ q \in PeerRecs /\ q.claim.self = rx.src
      /\ q.is_valid = p.is_valid /\ q.last_update = p.last_update
  BY <1>2, <1>3, Zenon DEF PeerRecs
<1>. HIDE DEF q
<1>. QED  BY <1>1, <1>2, <1>4, <1>5, TlvInv, Zenon

LEMMA RxRejectInv ==
  ASSUME PeersInv, RxReject
  PROVE  PeersInv'
<1>1. rx # NoFrame /\ TlvResult(peers[rx.src], FALSE)  BY Zenon DEF RxReject
<1>2. /\ peers[rx.src] \in PeerRecs /\ peers[rx.src].claim.self = rx.src
      /\ peers[rx.src].is_valid <=> rx.src \in ValidPeers
  BY <1>1 DEF PeersInv, TypeOK, ValidPeers
<1>. QED  BY <1>1, <1>2, TlvInv, Zenon

LEMMA RxEndInv ==
  ASSUME PeersInv, RxEnd
  PROVE  PeersInv'
<1>. USE DEF PeersInv
<1>. DEFINE p == [peers[rx.src] EXCEPT !.sent_mif = @ \/ rx.mif]
<1>1. rx \in [src: DOMAIN peers, mif: BOOLEAN] /\ rx.src \in DOMAIN peers /\ rx.src \in Others
  BY DEF TypeOK, RxEnd
<1>2. /\ p \in PeerRecs /\ p.claim.self = rx.src
      /\ p.is_valid <=> rx.src \in ValidPeers
  <2>1. peers[rx.src] \in PeerRecs /\ peers[rx.src].claim.self = rx.src
    BY <1>1 DEF TypeOK
  <2>. QED  BY <1>1, <2>1 DEF PeerRecs, ValidPeers
<1>3. /\ PeerAdd(rx.src, p) /\ rx' = NoFrame
      /\ own' = own /\ heard' = heard /\ now' = now /\ cleanAt' = cleanAt
  BY DEF RxEnd
<1>. HIDE DEF p
<1>4. /\ DOMAIN peers' = DOMAIN peers \cup {rx.src}
      /\ peers'[rx.src].last_update = now
      /\ \A b \in DOMAIN peers : b # rx.src => peers'[b] = peers[b]
      /\ DOMAIN peers' \subseteq Others
      /\ peers' = [b \in DOMAIN peers' |-> peers'[b]]
      /\ \A b \in DOMAIN peers' : peers'[b] \in PeerRecs /\ peers'[b].claim.self = b
      /\ ValidPeers \subseteq ValidPeers'
      /\ neighbors' \subseteq Others /\ netlinkErr' \subseteq Others
      /\ NeighborsAreValidPeers'
  BY <1>1, <1>2, <1>3, PeerAddFacts, Zenon
<1>5. own' \in Claims /\ own'.self = Self /\ SyncMasterIsValidPeer' /\ NeverFollowsWorse'
  BY <1>3, <1>4, OwnKept
<1>6. TypeOK'  BY <1>3, <1>4, <1>5 DEF TypeOK
<1>7. Timing'
  <2>1. heard[rx.src] = now  BY DEF Timing, RxEnd
  <2>. QED  BY <1>1, <1>3, <1>4, <2>1 DEF Timing
<1>. QED  BY <1>4, <1>5, <1>6, <1>7

\* Only entries within the timeout survive a cleaning.
LEMMA SurvivorsFresh ==
  ASSUME TypeOK, Timing, NEW a \in DOMAIN peers \ Expired
  PROVE  now <= heard[a] + Timeout
<1>1. heard[a] \in Nat /\ now \in Nat /\ heard[a] <= now /\ ~(heard[a] < Cutoff)
  BY DEF TypeOK, Timing, Expired
<1>. QED  BY <1>1, PeersAssumption DEF Cutoff

(***************************************************************************)
(* Removing the expired peers, calling back for the valid ones and voting  *)
(* again: whoever is elected has survived the cleaning.                    *)
(***************************************************************************)
LEMMA CleanPeersInv ==
  ASSUME PeersInv, CleanPeers
  PROVE  PeersInv'
<1>. USE DEF PeersInv
<1>1. /\ peers' = [a \in DOMAIN peers \ Expired |-> peers[a]]
      /\ rx = NoFrame /\ rx' = rx /\ heard' = heard /\ now' = now
      /\ cleanAt' = now + CleanInterval /\ own' \in Elected(OwnSelfClaim, Voters)
  BY DEF CleanPeers, PeersRemove
<1>2. PICK failed \in SUBSET (Expired \cap ValidPeers) :
        /\ neighbors' = neighbors \ ((Expired \cap ValidPeers) \ failed)
        /\ netlinkErr' = (netlinkErr \ (Expired \cap ValidPeers)) \cup failed
  BY DEF CleanPeers, PeersRemove
<1>3. /\ DOMAIN peers' = DOMAIN peers \ Expired
      /\ \A a \in DOMAIN peers' : peers'[a] = peers[a]
  BY <1>1
<1>4. ValidPeers' = ValidPeers \ Expired
  BY <1>3 DEF ValidPeers
<1>5. Voters \in SUBSET Claims
  BY DEF Voters, ValidPeers, TypeOK, PeerRecs
<1>6. /\ own' \in Claims /\ own'.self = Self
      /\ SyncMasterIsValidPeer' /\ NeverFollowsWorse'
  <2>0. /\ MaxHeight \in Nat
        /\ OwnSelfClaim.counter \in Nat /\ OwnSelfClaim.metric \in Nat
    BY OwnSelfType, ClaimType, ElectionAssumption
  <2>1. CASE own' = OwnSelfClaim
    BY <2>0, <2>1, OwnSelfType DEF SyncMasterIsValidPeer, NeverFollowsWorse, RanksAbove
  <2>2. CASE own' # OwnSelfClaim
    <3>1. PICK b \in Voters :
            own' = Adopt(OwnSelfClaim, b) /\ Eligible(OwnSelfClaim, b) /\ Better(b, OwnSelfClaim)
      BY <1>1, <1>5, <2>2, OwnSelfType, ElectedShape
    <3>2. b \in Claims  BY <1>5
    <3>3. PICK a \in ValidPeers \ Expired : b = peers[a].claim
      BY DEF Voters
    <3>4. b.self = a /\ a \in ValidPeers'
      BY <1>4, <3>3 DEF TypeOK, ValidPeers
    <3>5. own' \in Claims  BY <3>1, <3>2, OwnSelfType, AdoptType
    <3>6. /\ own'.self = Self /\ own'.sync = b.self /\ own'.counter = b.counter
          /\ own'.metric = b.metric /\ own'.height = Incr(b.height)
      BY <3>1, OwnSelfType DEF Adopt, Claims
    <3>7. SyncMasterIsValidPeer'  BY <3>4, <3>6 DEF SyncMasterIsValidPeer
    <3>8. ~RanksAbove(OwnSelfClaim, b)
      <4>1. b.counter \in Nat /\ b.metric \in Nat  BY <3>2, ClaimType
      <4>. QED  BY <2>0, <3>1, <4>1 DEF Better, RanksAbove, RanksSame
    <3>9. NeverFollowsWorse'
      BY <3>1, <3>6, <3>8 DEF NeverFollowsWorse, Eligible, RanksAbove
    <3>. QED  BY <3>5, <3>6, <3>7, <3>9
  <2>. QED  BY <2>1, <2>2
<1>7. TypeOK'
  <2>1. now' \in Nat /\ cleanAt' \in Nat  BY <1>1, PeersAssumption DEF TypeOK
  <2>2. DOMAIN peers' \subseteq Others /\ peers' = [a \in DOMAIN peers' |-> peers'[a]]
    BY <1>1, <1>3 DEF TypeOK
  <2>3. neighbors' \subseteq Others /\ netlinkErr' \subseteq Others
    BY <1>2 DEF TypeOK, ValidPeers
  <2>. QED  BY <1>1, <1>3, <1>6, <2>1, <2>2, <2>3 DEF TypeOK
<1>8. NeighborsAreValidPeers'
  BY <1>2, <1>4 DEF NeighborsAreValidPeers
<1>9. Timing'
  <2>1. \A a \in DOMAIN peers' : now <= heard[a] + Timeout
    BY <1>3, SurvivorsFresh
  <2>2. /\ now \in Nat /\ CleanInterval \in Nat /\ Timeout \in Nat /\ Late \in Nat
        /\ \A a \in DOMAIN peers' : heard[a] \in Nat
    BY <1>3, PeersAssumption DEF TypeOK
  <2>3. \A a \in DOMAIN peers' : cleanAt' <= heard'[a] + Timeout + CleanInterval
    BY <1>1, <2>1, <2>2
  <2>4. now' <= cleanAt' + Late /\ cleanAt' <= now' + CleanInterval
    BY <1>1, <2>2
  <2>. QED  BY <1>1, <1>3, <2>3, <2>4 DEF Timing
<1>. QED  BY <1>6, <1>7, <1>8, <1>9

LEMMA TickInv ==
  ASSUME PeersInv, Tick
  PROVE  PeersInv'
<1>. USE DEF PeersInv
<1>1. /\ peers' = peers /\ own' = own /\ rx' = rx /\ rx = NoFrame /\ heard' = heard
      /\ neighbors' = neighbors /\ netlinkErr' = netlinkErr /\ cleanAt' = cleanAt
      /\ now' = now + 1 /\ now < cleanAt + Late
  BY DEF Tick
<1>2. TypeOK'  BY <1>1 DEF TypeOK
<1>3. NeighborsAreValidPeers' /\ SyncMasterIsValidPeer' /\ NeverFollowsWorse'
  BY <1>1 DEF NeighborsAreValidPeers, SyncMasterIsValidPeer, NeverFollowsWorse, ValidPeers
<1>4. Timing'
  <2>1. /\ now \in Nat /\ cleanAt \in Nat /\ CleanInterval \in Nat /\ Late \in Nat
        /\ \A a \in DOMAIN peers : heard[a] \in Nat
    BY PeersAssumption DEF TypeOK
  <2>2. \A a \in DOMAIN peers : heard[a] <= now'
    BY <1>1, <2>1 DEF Timing
  <2>3. now' <= cleanAt' + Late /\ cleanAt' <= now' + CleanInterval
    BY <1>1, <2>1 DEF Timing
  <2>. QED  BY <1>1, <2>2, <2>3 DEF Timing
<1>. QED  BY <1>2, <1>3, <1>4

-----------------------------------------------------------------------------
(***************************************************************************)
(* The invariant holds in every state of the peer table's life.            *)
(***************************************************************************)
THEOREM PeersInvariant == Spec => []PeersInv
<1>1. PeersInv /\ [Next]_vars => PeersInv'
  <2>. SUFFICES ASSUME PeersInv, [Next]_vars PROVE PeersInv'  OBVIOUS
  <2>1. CASE \E a \in Others, mif \in BOOLEAN, rssi \in Rssi : RxBegin(a, mif, rssi)
    BY <2>1, RxBeginInv
  <2>2. CASE \E adv \in Adverts, reads \in 0 .. 4 : HandleElectionV1(adv, reads)
    BY <2>2, HandleElectionV1Inv
  <2>3. CASE \E adv \in Adverts, reads \in 0 .. 3 : HandleElectionV2(adv, reads)
    BY <2>3, HandleElectionV2Inv
  <2>4. CASE \E v \in Versions : HandleVersion(v)  BY <2>4, HandleVersionInv
  <2>5. CASE RxReject  BY <2>5, RxRejectInv
  <2>6. CASE RxEnd  BY <2>6, RxEndInv
  <2>7. CASE CleanPeers  BY <2>7, CleanPeersInv
  <2>8. CASE Tick  BY <2>8, TickInv
  <2>9. CASE UNCHANGED vars
    BY <2>9 DEF vars, PeersInv, TypeOK, NeighborsAreValidPeers, SyncMasterIsValidPeer,
                NeverFollowsWorse, Timing, ValidPeers
  <2>. QED
    BY <2>1, <2>2, <2>3, <2>4, <2>5, <2>6, <2>7, <2>8, <2>9 DEF Next
<1>. QED  BY <1>1, InitInv, PTL DEF Spec

(***************************************************************************)
(* The kernel's neighbour table follows the valid peers, up to failed      *)
(* netlink requests (callbacks of awdl_peer_add and awdl_peers_remove).    *)
(***************************************************************************)
THEOREM NeighborsFollowPeers == Spec => []NeighborsAreValidPeers
BY PeersInvariant, PTL DEF PeersInv

(***************************************************************************)
(* The sync master is always a valid entry of the peer table, because      *)
(* awdl_clean_peers votes again right after it has removed entries.        *)
(***************************************************************************)
THEOREM SyncMasterKnown == Spec => []SyncMasterIsValidPeer
BY PeersInvariant, PTL DEF PeersInv

(***************************************************************************)
(* Nobody below the node's own rank is followed, whatever peers advertise. *)
(***************************************************************************)
THEOREM NeverWorse == Spec => []NeverFollowsWorse
BY PeersInvariant, PTL DEF PeersInv

(***************************************************************************)
(* Silent peers are forgotten within the timeout, one cleaning interval    *)
(* and the delay of the event loop.                                        *)
(***************************************************************************)
THEOREM SilentPeersForgotten == Spec => []NoStalePeer
<1>1. PeersInv => NoStalePeer
  <2>. SUFFICES ASSUME PeersInv, NEW a \in DOMAIN peers
                PROVE  now <= heard[a] + Timeout + CleanInterval + Late
    BY DEF NoStalePeer
  <2>1. /\ now \in Nat /\ cleanAt \in Nat /\ heard[a] \in Nat
        /\ CleanInterval \in Nat /\ Late \in Nat /\ Timeout \in Nat
    BY PeersAssumption DEF PeersInv, TypeOK
  <2>2. now <= cleanAt + Late /\ cleanAt <= heard[a] + Timeout + CleanInterval
    BY DEF PeersInv, Timing
  <2>. QED  BY <2>1, <2>2
<1>. QED  BY <1>1, PeersInvariant, PTL

(***************************************************************************)
(* Once the clock is past the timeout, awdl_clean_peers removes only peers *)
(* that were silent for longer than the timeout.                           *)
(***************************************************************************)
THEOREM FreshPeersSurvive == Spec => FreshPeersKept
<1>. DEFINE Kept == now >= Timeout =>
       \A a \in DOMAIN peers \ DOMAIN peers' : heard[a] + Timeout < now
<1>1. PeersInv /\ PeersInv' /\ [Next]_vars => [Kept]_vars
  <2>. SUFFICES ASSUME PeersInv, [Next]_vars, now >= Timeout,
                       NEW a \in DOMAIN peers, a \notin DOMAIN peers'
                PROVE  heard[a] + Timeout < now
    OBVIOUS
  <2>1. CASE CleanPeers
    <3>1. a \in Expired
      BY <2>1 DEF CleanPeers, PeersRemove
    <3>2. heard[a] \in Nat /\ now \in Nat /\ heard[a] < Cutoff
      BY <3>1 DEF Expired, PeersInv, TypeOK, Timing
    <3>. QED  BY <3>2, PeersAssumption DEF Cutoff
  <2>2. CASE ~CleanPeers
    <3>. DEFINE Stored == \E b, p : peers' = SetPeer(b, p)
    <3>1. ~Stored  BY Zenon DEF SetPeer
    <3>2. peers' # peers  OBVIOUS
    <3>3. ASSUME NEW p, NEW ok, TlvResult(p, ok) PROVE Stored  BY <3>3 DEF TlvResult
    <3>4. ASSUME NEW b, NEW p, PeerAdd(b, p) PROVE Stored  BY <3>4 DEF PeerAdd
    <3>. HIDE DEF Stored
    <3>5. ASSUME NEW b, NEW mif, NEW rssi, RxBegin(b, mif, rssi) PROVE Stored
      BY <3>4, <3>5 DEF RxBegin
    <3>6. ASSUME NEW adv, NEW reads, HandleElectionV1(adv, reads) PROVE Stored
      BY <3>3, <3>6, Zenon DEF HandleElectionV1
    <3>7. ASSUME NEW adv, NEW reads, HandleElectionV2(adv, reads) PROVE Stored
      BY <3>3, <3>7 DEF HandleElectionV2
    <3>8. ASSUME NEW v, HandleVersion(v) PROVE Stored  BY <3>3, <3>8, Zenon DEF HandleVersion
    <3>9. CASE RxReject  BY <3>1, <3>3, <3>9, Zenon DEF RxReject
    <3>10. CASE RxEnd
      <4>1. \E p : PeerAdd(rx.src, p)  BY <3>10, Zenon DEF RxEnd
      <4>. QED  BY <3>1, <3>4, <4>1
    <3>11. CASE Tick  BY <3>2, <3>11 DEF Tick
    <3>12. CASE UNCHANGED vars  BY <3>2, <3>12 DEF vars
    <3>. QED
      BY <2>2, <3>1, <3>5, <3>6, <3>7, <3>8, <3>9, <3>10, <3>11, <3>12 DEF Next
  <2>. QED  BY <2>1, <2>2
<1>. QED  BY <1>1, PeersInvariant, PTL DEF Spec, FreshPeersKept

(***************************************************************************)
(* Entries, own claim and frame keep their types: in particular the        *)
(* adopted height stays a 32-bit number, whatever the peers advertise.     *)
(***************************************************************************)
THEOREM PeersTypes == Spec => []TypeOK
<1>1. PeersInv => TypeOK  BY DEF PeersInv
<1>. QED  BY <1>1, PeersInvariant, PTL

=============================================================================

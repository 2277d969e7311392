-------------------------------- MODULE Peers -------------------------------
(***************************************************************************)
(* The peer table of one node (src/src/peers.c), driven by the action      *)
(* frames it receives (awdl_rx_action in src/src/rx.c), by the cleaning    *)
(* timer and by the election that follows every cleaning (awdl_clean_peers *)
(* in src/daemon/core.c).                                                  *)
(*                                                                         *)
(* The daemon is one thread: a frame is parsed TLV by TLV, and no other    *)
(* callback runs until awdl_rx_action returns.  rx is the frame being      *)
(* parsed; its TLVs are chosen as they are read.  A short TLV stops the    *)
(* parsing half way, with the fields read so far already stored.           *)
(***************************************************************************)
EXTENDS Election

CONSTANTS
  Self, Others,                   \* the node and the nodes in radio range
  CounterInit, MetricInit,        \* AWDL_ELECTION_*_INIT (0 and 60)
  Timeout, CleanInterval,         \* peers.timeout, peers.clean_interval
  Late,                           \* how late the event loop may run a timer
  ClockMod,                       \* the clock is a uint64_t
  Boot, MaxTime,                  \* clock at start; bound on the clock
  FilterRssi,                     \* state->filter_rssi
  Adverts,                        \* contents of the election TLVs received
  Versions,                       \* contents of the version TLVs received
  NoFrame

ASSUME PeersAssumption ==
  /\ Self \in Addr /\ Others \subseteq Addr \ {Self}
  /\ CounterInit \in Nat /\ MetricInit \in Nat
  /\ Timeout \in Nat /\ CleanInterval \in Nat \ {0} /\ Late \in Nat
  /\ ClockMod \in Nat /\ ClockMod > Timeout
  /\ Boot \in Nat /\ MaxTime \in Nat
  /\ FilterRssi \in BOOLEAN
  /\ Adverts \subseteq [master: Addr, sync: Addr, counter: Nat,
                        metric: Nat, height: Heights]
  /\ Versions \subseteq [version: Nat, devclass: Nat]
  /\ NoFrame \notin [src: Others, mif: BOOLEAN]

VARIABLES
  peers,       \* address -> struct awdl_peer, the hash table
  own,         \* state->election
  rx,          \* the action frame being parsed, or NoFrame
  neighbors,   \* entries of the kernel's neighbour table
  netlinkErr,  \* history: addresses whose last netlink request failed
  heard,       \* history: when a frame of the address was last accepted
  now,         \* clock_time_us()
  cleanAt      \* when peer_timer is due

vars == <<peers, own, rx, neighbors, netlinkErr, heard, now, cleanAt>>

PeerRecs == [last_update: Nat, claim: Claims, version: Nat, devclass: Nat,
             supports_v2: BOOLEAN, sent_mif: BOOLEAN, is_valid: BOOLEAN]

Known(a) == a \in DOMAIN peers

ValidPeers == {a \in DOMAIN peers : peers[a].is_valid}

OwnSelfClaim == SelfClaim(Self, CounterInit, MetricInit)

Init ==
  /\ peers = [a \in {} |-> a]
  /\ own = OwnSelfClaim
  /\ rx = NoFrame
  /\ neighbors = {}
  /\ netlinkErr = {}
  /\ heard = [a \in Others |-> 0]
  /\ now = Boot
  /\ cleanAt = Boot + CleanInterval

-----------------------------------------------------------------------------
\* awdl_peer_new
PeerNew(a) ==
  [last_update |-> 0, claim |-> SelfClaim(a, CounterInit, MetricInit),
   version |-> 0, devclass |-> 0, supports_v2 |-> FALSE,
   sent_mif |-> FALSE, is_valid |-> FALSE]

\* awdl_peer_is_valid
Qualifies(p) == p.sent_mif /\ p.devclass # 0 /\ p.version # 0

SetPeer(a, p) == [b \in DOMAIN peers \cup {a} |-> IF b = a THEN p ELSE peers[b]]

\* awdl_neighbor_add: a netlink request whose failure nobody looks at.
NeighborAdd(a) ==
  \/ /\ neighbors' = neighbors \cup {a}
     /\ netlinkErr' = netlinkErr \ {a}
  \/ /\ neighbors' = neighbors
     /\ netlinkErr' = netlinkErr \cup {a}

\* awdl_peer_add for an entry p: refresh it; the first time it qualifies it
\* turns valid and the callback installs the neighbour.
MutValidFollowsFields(a, p) ==
  /\ peers' = SetPeer(a, [p EXCEPT !.last_update = now, !.is_valid = Qualifies(p)])
  /\ IF ~p.is_valid /\ Qualifies(p)
     THEN NeighborAdd(a)
     ELSE UNCHANGED <<neighbors, netlinkErr>>

PeerAdd(a, p) ==
  /\ peers' = SetPeer(a, [p EXCEPT !.last_update = now,
                                   !.is_valid = p.is_valid \/ Qualifies(p)])
  /\ IF ~p.is_valid /\ Qualifies(p)
     THEN NeighborAdd(a)
     ELSE UNCHANGED <<neighbors, netlinkErr>>

-----------------------------------------------------------------------------
\* Received signal strength relative to rssi_threshold and its grace.
Rssi == {"strong", "grace", "weak"}

RssiPasses(a, rssi) ==
  \/ ~FilterRssi
  \/ rssi = "strong"
  \/ Known(a) /\ rssi = "grace"

\* The head of awdl_rx_action: filter, then add or refresh the sender.  When
\* hashmap_put has no memory for a new peer (PEERS_INTERNAL) the frame is
\* ignored, a step that changes nothing here; what a rehash that fails half
\* way does to the other entries is the subject of module Hashmap.
RxBegin(a, mif, rssi) ==
  /\ rx = NoFrame
  /\ RssiPasses(a, rssi)
  /\ PeerAdd(a, IF Known(a) THEN peers[a] ELSE PeerNew(a))
  /\ rx' = [src |-> a, mif |-> mif]
  /\ heard' = [heard EXCEPT ![a] = now]
  /\ UNCHANGED <<own, now, cleanAt>>

\* Store p for the sender and go on with the next TLV, or give up.
TlvResult(p, ok) ==
  /\ peers' = SetPeer(rx.src, p)
  /\ rx' = IF ok THEN rx ELSE NoFrame
  /\ UNCHANGED <<own, neighbors, netlinkErr, heard, now, cleanAt>>

\* awdl_handle_election_params_tlv: reads is how many of its four reads the
\* TLV was long enough for.
HandleElectionV1(adv, reads) ==
  /\ rx # NoFrame
  /\ LET p == peers[rx.src]
     IN  IF p.supports_v2
         THEN TlvResult(p, TRUE)
         ELSE TlvResult([p EXCEPT
                !.claim.height = IF reads >= 1 THEN adv.height ELSE @,
                !.claim.master = IF reads >= 2 THEN adv.master ELSE @,
                !.claim.metric = IF reads >= 3 THEN adv.metric ELSE @], reads = 4)

\* awdl_handle_election_params_v2_tlv.  The height, at offset 16, is read
\* first: a TLV too short for it stores nothing, a longer one (reads = 1)
\* stores all that lies before the metric.
HandleElectionV2(adv, reads) ==
  /\ rx # NoFrame
  /\ LET p == peers[rx.src]
         c == [p.claim EXCEPT
                !.height  = IF reads >= 1 THEN adv.height ELSE @,
                !.master  = IF reads >= 1 THEN adv.master ELSE @,
                !.sync    = IF reads >= 1 THEN adv.sync ELSE @,
                !.counter = IF reads >= 1 THEN adv.counter ELSE @,
                !.metric  = IF reads >= 2 THEN adv.metric ELSE @]
     IN  TlvResult([p EXCEPT !.claim = c, !.supports_v2 = @ \/ reads = 3], reads = 3)

\* awdl_handle_version_tlv
HandleVersion(v) ==
  /\ rx # NoFrame
  /\ TlvResult([peers[rx.src] EXCEPT !.version = v.version,
                                     !.devclass = v.devclass], TRUE)

\* Any other TLV the parser rejects, and bytes left over after the last one.
RxReject ==
  /\ rx # NoFrame
  /\ TlvResult(peers[rx.src], FALSE)

\* The tail of awdl_rx_action: all TLVs parsed.
RxEnd ==
  /\ rx # NoFrame
  /\ PeerAdd(rx.src, [peers[rx.src] EXCEPT !.sent_mif = @ \/ rx.mif])
  /\ rx' = NoFrame
  /\ UNCHANGED <<own, heard, now, cleanAt>>

-----------------------------------------------------------------------------
\* clock_time_us() - timeout in uint64_t arithmetic.
MutCutoffIgnoresTimeout == now

MutCutoffSaturates == IF now >= 2 * Timeout THEN now - 2 * Timeout ELSE 0

Cutoff == IF now >= Timeout THEN now - Timeout ELSE ClockMod + now - Timeout

Expired == {a \in DOMAIN peers : peers[a].last_update < Cutoff}

\* awdl_peers_remove: drop the expired entries; those that were valid leave
\* the neighbour table unless their netlink request fails.
PeersRemove ==
  /\ peers' = [a \in DOMAIN peers \ Expired |-> peers[a]]
  /\ \E failed \in SUBSET (Expired \cap ValidPeers) :
       /\ neighbors' = neighbors \ ((Expired \cap ValidPeers) \ failed)
       /\ netlinkErr' = (netlinkErr \ (Expired \cap ValidPeers)) \cup failed

\* The claims awdl_election_run looks at after the removal.
MutVotersBeforeRemoval == {peers[a].claim : a \in ValidPeers}

Voters == {peers[a].claim : a \in ValidPeers \ Expired}

\* awdl_clean_peers: removal, election on what is left, ev_timer_again.
CleanPeers ==
  /\ rx = NoFrame
  /\ now >= cleanAt
  /\ PeersRemove
  /\ own' \in Elected(OwnSelfClaim, Voters)
  /\ cleanAt' = now + CleanInterval
  /\ UNCHANGED <<rx, heard, now>>

\* Time passes between callbacks; a due timer waits at most Late.
Tick ==
  /\ rx = NoFrame
  /\ now < cleanAt + Late
  /\ now < MaxTime
  /\ now' = now + 1
  /\ UNCHANGED <<peers, own, rx, neighbors, netlinkErr, heard, cleanAt>>

Next ==
  \/ \E a \in Others, mif \in BOOLEAN, rssi \in Rssi : RxBegin(a, mif, rssi)
  \/ \E adv \in Adverts, reads \in 0 .. 4 : HandleElectionV1(adv, reads)
  \/ \E adv \in Adverts, reads \in 0 .. 3 : HandleElectionV2(adv, reads)
  \/ \E v \in Versions : HandleVersion(v)
  \/ RxReject
  \/ RxEnd
  \/ CleanPeers
  \/ Tick

Spec == Init /\ [][Next]_vars

-----------------------------------------------------------------------------
TypeOK ==
  /\ DOMAIN peers \subseteq Others
  /\ peers = [a \in DOMAIN peers |-> peers[a]]
  /\ \A a \in DOMAIN peers : peers[a] \in PeerRecs /\ peers[a].claim.self = a
  /\ own \in Claims /\ own.self = Self
  /\ rx \in {NoFrame} \cup [src: DOMAIN peers, mif: BOOLEAN]
  /\ neighbors \subseteq Others
  /\ netlinkErr \subseteq Others
  /\ heard \in [Others -> Nat]
  /\ now \in Nat /\ cleanAt \in Nat

(***************************************************************************)
(* Between the callbacks and at every TLV, the kernel's neighbour table is *)
(* the set of valid peers, except for addresses whose last netlink request *)
(* failed: validity is latched, so that the add and remove callbacks come  *)
(* in pairs although the fields that qualify a peer change with any frame. *)
(***************************************************************************)
NeighborsAreValidPeers ==
  \A a \in Others : (a \in neighbors) # (a \in ValidPeers) => a \in netlinkErr

(***************************************************************************)
(* The node never synchronises to a node it does not know: its sync master *)
(* is a valid entry of the table, since peers are only removed right       *)
(* before the election is repeated (awdl_clean_peers).                     *)
(***************************************************************************)
SyncMasterIsValidPeer == own.sync # Self => own.sync \in ValidPeers

(***************************************************************************)
(* A peer that fell silent is forgotten: a frame of every entry, the sync  *)
(* master's included, was accepted within the timeout plus one cleaning    *)
(* interval, also when the cutoff wraps around because the host has just   *)
(* booted.                                                                 *)
(***************************************************************************)
NoStalePeer ==
  \A a \in DOMAIN peers :
    now <= heard[a] + Timeout + CleanInterval + Late

(***************************************************************************)
(* A peer that is heard from is kept: once the clock is past the timeout,  *)
(* a cleaning removes only peers of whom no frame was accepted for longer  *)
(* than the timeout.                                                       *)
(***************************************************************************)
FreshPeersKept ==
  [][now >= Timeout =>
       \A a \in DOMAIN peers \ DOMAIN peers' : heard[a] + Timeout < now]_vars

(***************************************************************************)
(* Whatever the peers advertise, truncated TLVs included, the node never   *)
(* follows a top master that ranks below itself, nor at a height beyond    *)
(* the maximum of the tree.                                                *)
(***************************************************************************)
NeverFollowsWorse == ~RanksAbove(OwnSelfClaim, own) /\ own.height <= MaxHeight

=============================================================================

------------------------------ MODULE Reception ------------------------------
(***************************************************************************)
(* What becomes of a captured frame: awdl_receive_frame of                 *)
(* src/daemon/core.c and awdl_rx of src/src/rx.c with all they call.       *)
(*                                                                         *)
(* One neighbour sends action frames, data frames and aggregates of data   *)
(* frames (A-MSDUs) whose parts may come from anybody; air is the frame    *)
(* that waits in the capture.  The neighbour's state changes from one      *)
(* generation to the next, it is forgotten when its frames stay away, and  *)
(* elections make it the sync master or not.                               *)
(***************************************************************************)
EXTENDS ActionFrame

CONSTANTS
  ActionFrames,   \* frames the neighbour may send, without their generation
  DataFrames,
  Gens,           \* generations of the neighbour's state: 1 .. n
  MaxPayload,     \* ETHER_MAX_LEN without the Ethernet header (1504)
  MaxNumAmpdu,    \* MAX_NUM_AMPDU (16)
  Channel,        \* the neighbour's channel in each generation
  OwnChannel,
  None

ASSUME ReceptionAssumption ==
  /\ MaxPayload \in Nat /\ MaxNumAmpdu \in Nat \ {0}
  /\ Gens \subseteq Nat \ {0} /\ 1 \in Gens
  /\ Channel \in [Gens -> Nat] /\ OwnChannel \in Nat
  /\ \A f \in ActionFrames \cup DataFrames : f.from \in {"neighbour", "self"} /\ f.cut \in Nat
  /\ \A f \in ActionFrames : f.kind = "action" /\ f.enc \in Encodings /\ f.name \in Nat
  /\ \A f \in DataFrames : f.kind # "action"

VARIABLES
  gen,      \* the neighbour's generation
  master,   \* whether it is our sync master
  air,      \* the captured frame, or None
  known,    \* whether the neighbour is in the peer table
  peer,     \* what has been stored of it
  own,      \* what our own synchronisation has taken from it
  last      \* result of the callback that has just run, or None

vars == <<gen, master, air, known, peer, own, last>>

Nothing == <<"none", 0>>

\* awdl_peer_new
NewPeer ==
  [info |-> [x \in PeerFields |-> Nothing],
   v2 |-> FALSE, torn |-> FALSE, mif |-> FALSE, enc |-> "opclass"]

Init ==
  /\ gen = 1 /\ master = FALSE /\ air = None
  /\ known = FALSE /\ peer = NewPeer /\ own = [x \in SyncFields |-> Nothing]
  /\ last = None

-----------------------------------------------------------------------------
Result(f, r, out, lost) ==
  [frame |-> f, gen |-> air.gen, result |-> r, out |-> out, lost |-> lost]

\* What the handlers make of each frame does not depend on the peer.
EffectsOf == [f \in ActionFrames |-> Effects(f)]

\* struct ieee80211_hdr, struct awdl_action, struct llc_hdr, struct awdl_data
HdrLen == 24
ActionLen == 16
LlcLen == 8
DataLen == 8

\* awdl_parse_action_hdr: another vendor's action frames are not ours.
ValidAction(f, len) == len >= ActionLen /\ f.awdl

\* awdl_rx_action with len bytes left.  A weak signal, or one that the
\* radio does not report, may be filtered.  There may be no memory for a new
\* peer: then the result is RX_IGNORE too.  awdl_peer_get finds what
\* awdl_peer_add has added.
RxAction(f, len) ==
  \/ /\ ~ValidAction(f, len)
     /\ last' = Result(f, "RX_IGNORE", <<>>, 0)
     /\ UNCHANGED <<known, peer, own>>
  \/ /\ ValidAction(f, len)
     /\ last' = Result(f, "RX_IGNORE_RSSI", <<>>, 0)
     /\ UNCHANGED <<known, peer, own>>
  \/ /\ ValidAction(f, len) /\ ~known
     /\ last' = Result(f, "PEERS_INTERNAL", <<>>, 0)
     /\ UNCHANGED <<known, peer, own>>
  \/ /\ ValidAction(f, len)
     /\ LET acc == ParseTlvs(f, EffectsOf[f], air.gen,
                             [info |-> [x \in PeerFields \cup SyncFields |->
                                          IF x \in PeerFields THEN peer.info[x] ELSE own[x]],
                              v2 |-> peer.v2, torn |-> peer.torn, enc |-> peer.enc,
                              master |-> master, ok |-> TRUE], len - ActionLen)
        IN  /\ peer' = [info |-> [x \in PeerFields |-> acc.info[x]], v2 |-> acc.v2,
                        torn |-> acc.torn, enc |-> acc.enc,
                        mif |-> peer.mif \/ (acc.ok /\ f.mif)]
            /\ own' = [x \in SyncFields |-> acc.info[x]]
            /\ last' = Result(f, IF acc.ok THEN "RX_OK" ELSE "RX_UNEXPECTED_FORMAT", <<>>, 0)
     /\ known' = TRUE

\* awdl_peer_get
InTable(src) == src = "neighbour" /\ known

\* llc_parse and awdl_valid_llc_header
ValidLlc(s, len) == len >= LlcLen /\ s.llc

\* awdl_rx_data for part s, of which len bytes are there
RxData(s, len) ==
  IF ~InTable(s.src) THEN "RX_IGNORE_PEER"
  ELSE IF ~ValidLlc(s, len) THEN "RX_UNEXPECTED_FORMAT"
  ELSE IF len < LlcLen + DataLen THEN "RX_TOO_SHORT"
  ELSE "RX_OK"

\* The Ethernet frame for the host.  write_bytes refuses a payload that is
\* too long, and nobody notices; a shorter one is followed by bytes that were
\* never written, as the buffer has its full length in any case.
Ethernet(i, len) ==
  LET payload == len - LlcLen - DataLen
  IN  [part |-> i, payload |-> IF payload <= MaxPayload THEN payload ELSE 0,
       len |-> 14 + MaxPayload]

\* err < 0: the results of frames to ignore are positive.
MutIsError(r) == r # "RX_OK"

IsError(r) == r \in {"RX_UNEXPECTED_FORMAT", "RX_TOO_SHORT"}

MutPad(len) == (14 + len) % 4

Pad(len) == (4 - ((14 + len) % 4)) % 4

\* Where part i of an aggregate begins: parts are aligned to 4 bytes.
Aligned(n) == 4 * ((n + 3) \div 4)

StartOf(f, i) == SumTo([j \in 1 .. Len(f.parts) |-> Aligned(14 + f.parts[j].len)], i - 1)

\* Where its payload ends.
EndOfPart(f, i) == StartOf(f, i) + 14 + f.parts[i].len

\* A data frame has one part, an aggregate as many as awdl_receive_frame has
\* room for, the last one with or without padding.  Nothing in the code looks
\* at the number of parts: what longer aggregates do is not defined.
ASSUME DataFramesAssumption ==
  \A f \in DataFrames : f.kind = "data" =>
    /\ f.qos \in BOOLEAN /\ f.amsdu \in BOOLEAN
    /\ Len(f.parts) \in 1 .. MaxNumAmpdu /\ (f.amsdu \/ Len(f.parts) = 1)
    /\ \A i \in 1 .. Len(f.parts) : f.parts[i].len \in Nat /\ f.parts[i].llc \in BOOLEAN
    /\ f.tail \in {0, Pad(f.parts[Len(f.parts)].len)}

(***************************************************************************)
(* One round of awdl_rx_data_amsdu for part i of len bytes: acc has the    *)
(* position, the frames for the host and the result so far.                *)
(***************************************************************************)
AmsduPart(f, len, acc, i) ==
  LET s == f.parts[i]
      left == len - acc.pos
      end == acc.pos + 14 + s.len
      r == RxData(s, s.len)
  IN  IF acc.result # "RX_OK" \/ left = 0 THEN acc
      ELSE IF acc.pos # StartOf(f, i) \/ left < 14 \/ s.len > left - 14
           THEN [acc EXCEPT !.result = "RX_TOO_SHORT"]
      ELSE IF IsError(r) THEN [acc EXCEPT !.result = r]
      ELSE [pos    |-> IF len = end THEN end ELSE end + Pad(s.len),
            out    |-> IF r = "RX_OK" THEN Append(acc.out, Ethernet(i, s.len)) ELSE acc.out,
            result |-> IF len # end /\ Pad(s.len) > len - end THEN "RX_TOO_SHORT" ELSE "RX_OK"]

RxAmsdu(f, len) ==
  LET round[i \in 0 .. Len(f.parts)] ==
        IF i = 0 THEN [pos |-> 0, out |-> <<>>, result |-> "RX_OK"]
        ELSE AmsduPart(f, len, round[i - 1], i)
  IN  round[Len(f.parts)]

\* Data frames with len bytes left.  awdl_receive_frame passes the frames on
\* and frees them when all went well, and forgets them otherwise.
RxDataFrame(f, len) ==
  /\ LET body == IF f.qos THEN len - 2 ELSE len
         r == IF body < 0 THEN [out |-> <<>>, result |-> "RX_TOO_SHORT"]
              ELSE IF f.amsdu THEN RxAmsdu(f, body)
              ELSE LET d == RxData(f.parts[1], body)
                   IN  [out |-> IF d = "RX_OK" THEN <<Ethernet(1, body)>> ELSE <<>>, result |-> d]
     IN  last' = IF r.result = "RX_OK" THEN Result(f, r.result, r.out, 0)
                 ELSE Result(f, r.result, <<>>, Len(r.out))
  /\ UNCHANGED <<known, peer, own>>

-----------------------------------------------------------------------------
\* Length of the frame from the 802.11 header on, without check sum
BodyLen(f) ==
  CASE f.kind = "action" -> ActionLen + FrameLen(f)
    [] f.kind = "data"   -> (IF f.qos THEN 2 ELSE 0) +
                            (IF f.amsdu
                             THEN EndOfPart(f, Len(f.parts)) + f.tail
                             ELSE f.parts[1].len)
    [] OTHER             -> 0

FcsLen(flags) == IF flags = "fcs" THEN 4 ELSE 0

\* The captured bytes: the check sum belongs to them if the flags say so.
CapLen == [f \in ActionFrames \cup DataFrames |->
             HdrLen + BodyLen(f) + FcsLen(f.flags) - f.cut]

\* check_fcs
CheckFcs(flags, len) == flags # "bad" /\ len >= FcsLen(flags)

\* Without flags in the radiotap header the variable is not initialised.
FlagsRead(f) == IF f.flags = "absent" THEN {"none", "fcs", "bad"} ELSE {f.flags}

Discard(f, r) == last' = Result(f, r, <<>>, 0) /\ UNCHANGED <<known, peer, own>>

\* awdl_rx: radiotap_parse, check_fcs, the 802.11 header and the dispatch
AwdlRx(f) ==
  IF f.flags = "invalid" THEN Discard(f, "RX_UNEXPECTED_FORMAT")
  ELSE \E flags \in FlagsRead(f) :
    LET len == CapLen[f] - FcsLen(flags)
    IN  IF ~CheckFcs(flags, CapLen[f]) THEN Discard(f, "RX_IGNORE_FAILED_CRC")
        ELSE IF len < HdrLen THEN Discard(f, "RX_TOO_SHORT")
        ELSE IF f.from = "self" THEN Discard(f, "RX_IGNORE_FROM_SELF")
        ELSE CASE f.kind = "action" -> RxAction(f, len - HdrLen)
               [] f.kind = "data"   -> RxDataFrame(f, len - HdrLen)
               [] OTHER             -> Discard(f, "RX_UNEXPECTED_TYPE")

\* wlan_device_ready, pcap_dispatch and awdl_receive_frame
ReceiveFrame ==
  /\ air # None
  /\ AwdlRx(air.frame)
  /\ air' = None
  /\ UNCHANGED <<gen, master>>

\* The callback returns to the event loop, before anything else happens.
Return ==
  /\ last # None
  /\ last' = None
  /\ UNCHANGED <<gen, master, air, known, peer, own>>

-----------------------------------------------------------------------------
\* The neighbour sends: an action frame carries its state of the moment.
Send(f) ==
  /\ air = None /\ last = None
  /\ air' = [frame |-> f, gen |-> gen]
  /\ UNCHANGED <<gen, master, known, peer, own, last>>

NeighbourChanges ==
  /\ gen + 1 \in Gens /\ last = None
  /\ gen' = gen + 1
  /\ UNCHANGED <<master, air, known, peer, own, last>>

\* awdl_clean_peers: the election picks the neighbour, or does not ...
Elect ==
  /\ known /\ last = None
  /\ master' = ~master
  /\ UNCHANGED <<gen, air, known, peer, own, last>>

\* ... or it is forgotten.
MutForget ==
  /\ known /\ last = None
  /\ known' = FALSE /\ peer' = NewPeer
  /\ UNCHANGED <<gen, air, own, master, last>>

Forget ==
  /\ known /\ last = None
  /\ known' = FALSE /\ peer' = NewPeer /\ master' = FALSE
  /\ UNCHANGED <<gen, air, own, last>>

Next ==
  \/ \E f \in ActionFrames \cup DataFrames : Send(f)
  \/ ReceiveFrame \/ Return
  \/ NeighbourChanges \/ Elect \/ Forget

Spec == Init /\ [][Next]_vars

-----------------------------------------------------------------------------
\* Every stored value is a field of the neighbour's frames, or bytes of
\* several, of a generation that it has had.  A node that is not in the table
\* is not our master.
TypeOK ==
  /\ gen \in Gens /\ master \in BOOLEAN /\ known \in BOOLEAN
  /\ \A x \in PeerFields : peer.info[x][2] \in 0 .. gen
  /\ \A x \in SyncFields : own[x][2] \in 0 .. gen
  /\ peer.v2 \in BOOLEAN /\ peer.torn \in BOOLEAN /\ peer.mif \in BOOLEAN
  /\ peer.enc \in Encodings
  /\ master => known
  /\ ~known => peer = NewPeer

Just(kind) == last # None /\ last.frame.kind = kind

\* A frame that has come through unharmed, from a sender that keeps to the
\* structures of frame.h.
Unharmed(f) == f.from # "self" /\ f.cut = 0 /\ f.flags \in {"none", "fcs"}

WellFormed(f) == Unharmed(f) /\ f.awdl /\ f.odd = "none" /\ f.short.at = 0 /\ f.name <= NameMax

\* The fields that a frame has: its TLVs hold them under the same names.
Carries ==
  [f \in ActionFrames |->
     {x \in PeerFields :
        \E i \in 1 .. Len(Types(f.mif)) :
          \E k \in 1 .. Len(Layout(Types(f.mif)[i], f)) : Layout(Types(f.mif)[i], f)[k].name = x}]

\* What awdl_init_full_action_frame writes, awdl_rx_action understands: a
\* frame that has arrived whole is accepted, unless it is filtered for its
\* signal or there is no memory for its sender, and afterwards each field it carries is stored under its own name as of this
\* frame, not shifted by a byte, not left over from an earlier frame, and not
\* in the form of the older TLV.  The clock of our master is taken over.
FrameUnderstood ==
  (Just("action") /\ WellFormed(last.frame)
     /\ last.result \notin {"RX_IGNORE_RSSI", "PEERS_INTERNAL"}) =>
    /\ last.result = "RX_OK" /\ known
    /\ \A x \in Carries[last.frame] : peer.info[x] = <<x, last.gen>>
    /\ last.frame.mif => peer.mif
    /\ master => \A x \in SyncFields : own[x] = <<x, last.gen>>

\* Handlers store while they read, and a frame that is rejected half way has
\* changed the record.  Still, for a peer that sends the second form of the
\* election parameters the election sees those of two frames mixed only after
\* that TLV itself has come too short, until it comes in full again: wherever
\* else a frame is cut or wrong, and whatever the older form says, which
\* awdl_handle_election_params_tlv leaves alone, they are those of one frame.
ElectionFieldsTogether ==
  peer.v2 /\ ~peer.torn => \A x, y \in ElectionFields : peer.info[x][2] = peer.info[y][2]

\* The parts of a data frame that are from peers, of those which have
\* arrived completely.
Arrived(f) ==
  LET len == CapLen[f] - HdrLen - FcsLen(f.flags) - (IF f.qos THEN 2 ELSE 0)
  IN  {i \in 1 .. Len(f.parts) : InTable(f.parts[i].src) /\ (f.amsdu => EndOfPart(f, i) <= len)}

\* The frames of out are the parts in set, each once and in order.
Lists(out, set) ==
  /\ \A j, k \in 1 .. Len(out) : j < k => out[j].part < out[k].part
  /\ {out[k].part : k \in 1 .. Len(out)} = set

Fine(s) == s.llc /\ s.len >= LlcLen + DataLen

\* The host gets the parts of a data frame in order, each once, those of
\* peers and no others: all of them when the frame is sound, and all that
\* have arrived or none when it is not, up to an aggregate that fills the
\* array of awdl_receive_frame.  A payload that fits an Ethernet frame
\* reaches the host in full, whatever follows it there.
HostGetsFrame ==
  (Just("data") /\ last.frame.flags # "absent") =>
    /\ last.out # <<>> => Lists(last.out, Arrived(last.frame))
    /\ Unharmed(last.frame) /\ (\A i \in 1 .. Len(last.frame.parts) :
                                  InTable(last.frame.parts[i].src) => Fine(last.frame.parts[i]))
         => Lists(last.out, Arrived(last.frame))
    /\ \A k \in 1 .. Len(last.out) :
         LET s == last.frame.parts[last.out[k].part]
         IN  /\ Fine(s)
             /\ ((last.frame.amsdu \/ Unharmed(last.frame))
                  /\ s.len <= MaxPayload + LlcLen + DataLen) =>
                  last.out[k].payload = s.len - LlcLen - DataLen

\* Frames that awdl_receive_frame neither passes on nor frees come from
\* aggregates that are rejected, never from one that is accepted or that has
\* parts of strangers.
LostOnlyIfRejected ==
  last # None /\ last.lost > 0 =>
    last.result \in {"RX_UNEXPECTED_FORMAT", "RX_TOO_SHORT"} /\ last.frame.amsdu

-----------------------------------------------------------------------------
\* The two bytes of a channel in each encoding; awdl_chan_num takes them apart.
ChanBytes(enc, chan) ==
  CASE enc = "simple" -> <<chan, 0>> [] enc = "legacy" -> <<1, chan>> [] enc = "opclass" -> <<chan, 128>>

ChanNum(bytes, enc) == IF enc = "legacy" THEN bytes[2] ELSE bytes[1]

\* awdl_same_channel_as_peer, with an own sequence of one channel in the
\* encoding that awdl_init_state sets
PeerChan == IF peer.info.sequence = Nothing THEN 0
            ELSE ChanNum(ChanBytes(peer.enc, Channel[peer.info.sequence[2]]), "opclass")

SameChannelAsPeer == OwnChannel # 0 /\ OwnChannel = PeerChan

\* schedule.h says of awdl_same_channel_as_peer: "true if we and {@code peer}
\* are on the same non-zero channel, false otherwise".
SameChannelTold ==
  peer.info.sequence[1] = "sequence" =>
    (SameChannelAsPeer <=> OwnChannel # 0 /\ Channel[peer.info.sequence[2]] = OwnChannel)

=============================================================================

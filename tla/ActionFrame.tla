----------------------------- MODULE ActionFrame -----------------------------
(***************************************************************************)
(* Action frames as bytes in a row: how awdl_init_full_action_frame of     *)
(* src/src/tx.c lays them out in the structures of src/src/frame.h, and    *)
(* how the handlers of src/src/rx.c read them back, each at the offsets it *)
(* counts for itself, with the checked reads of src/src/wire.c.            *)
(*                                                                         *)
(* What a field says is abstracted to where it comes from: its name, and   *)
(* the generation of the sender's state it was written from.  Both sides   *)
(* convert between little endian and their own byte order.                 *)
(***************************************************************************)
EXTENDS Integers, Sequences

Encodings == {"simple", "legacy", "opclass"}

\* awdl_chan_encoding_size, awdl_chan_encoding_length
EncodingSize(enc) == IF enc = "simple" THEN 1 ELSE 2

SeqLength == 16       \* AWDL_CHANSEQ_LENGTH

NameMax == 64         \* HOST_NAME_LENGTH_MAX

\* The fields of a structure, one after the other.
Field(name, width) == [name |-> name, width |-> width]

\* The first k numbers of w, added up.
SumTo(w, k) ==
  LET sum[j \in 0 .. Len(w)] == IF j = 0 THEN 0 ELSE sum[j - 1] + w[j] IN sum[k]

\* Where the field after the k-th begins.
Offset(fields, k) == SumTo([j \in 1 .. Len(fields) |-> fields[j].width], k)

Width(fields) == Offset(fields, Len(fields))

\* struct awdl_chanseq and the channels after it, with padding
Chanseq(enc, pad) ==
  <<Field("count", 1), Field("encoding", 1), Field("duplicate_count", 1),
    Field("step_count", 1), Field("fill_channel", 2),
    Field("sequence", SeqLength * EncodingSize(enc)), Field("pad", pad)>>

SyncParams(f) ==
  <<Field("next_aw_channel", 1), Field("tx_down_counter", 2), Field("master_channel", 1),
    Field("guard_time", 1), Field("aw_period", 2), Field("af_period", 2), Field("flags", 2),
    Field("aw_ext_length", 2), Field("aw_com_length", 2), Field("remaining_aw_length", 2),
    Field("min_ext", 1), Field("max_ext", 3), Field("sync_master", 6),
    Field("presence_mode", 1), Field("reserved", 1), Field("next_aw_seq", 2),
    Field("ap_alignment", 2)>> \o Chanseq(f.enc, 2)

\* distancetop is a byte: it holds the height only while that is below 256.
ElectionParams ==
  <<Field("flags", 1), Field("id", 2), Field("distancetop", 1), Field("unknown", 1),
    Field("master_addr", 6), Field("master_metric", 4), Field("self_metric", 4), Field("pad", 2)>>

ElectionParamsV2 ==
  <<Field("master_addr", 6), Field("sync_addr", 6), Field("master_counter", 4),
    Field("height", 4), Field("master_metric", 4), Field("self_metric", 4),
    Field("unknown", 4), Field("reserved", 4), Field("self_counter", 4)>>

\* OWL writes the first form; other nodes also report their infrastructure.
DataPathState(f) ==
  IF f.infra
  THEN <<Field("flags", 2), Field("country_code", 3), Field("social_channels", 2),
         Field("bssid", 6), Field("channel", 2), Field("infra_addr", 6),
         Field("awdl_addr", 6), Field("ext_flags", 2)>>
  ELSE <<Field("flags", 2), Field("country_code", 3), Field("social_channels", 2),
         Field("awdl_addr", 6), Field("ext_flags", 2)>>

Arpa(f) ==
  <<Field("flags", 1), Field("name_length", 1), Field("name", f.name), Field("suffix", 2)>>

ServiceParams == <<Field("unknown", 3), Field("sui", 2), Field("bitmask", 4)>>

HtCapabilities ==
  <<Field("unknown", 2), Field("ht_capabilities", 2), Field("ampdu_params", 1),
    Field("rx_mcs", 1), Field("unknown2", 2)>>

Version == <<Field("version", 1), Field("devclass", 1)>>

Layout(type, f) ==
  CASE type = "sync"      -> SyncParams(f)
    [] type = "election"  -> ElectionParams
    [] type = "chanseq"   -> Chanseq(f.enc, 3)
    [] type = "v2"        -> ElectionParamsV2
    [] type = "service"   -> ServiceParams
    [] type = "ht"        -> HtCapabilities
    [] type = "arpa"      -> Arpa(f)
    [] type = "data_path" -> DataPathState(f)
    [] type = "version"   -> Version

\* awdl_init_full_action_frame: the TLVs of a frame, in order
Types(mif) ==
  <<"sync", "election", "chanseq", "v2", "service">> \o
  (IF mif THEN <<"ht", "arpa">> ELSE <<>>) \o <<"data_path", "version">>

(***************************************************************************)
(* A frame is described by what its sender puts in: mif or psf, the        *)
(* encoding of the channels, the length of the name, infra.  Nodes that do *)
(* not run OWL may also write a channel sequence with an unusual field     *)
(* odd, or a TLV that is shorter than the structure (only the first len    *)
(* bytes of TLV number at).  A frame may have lost its last cut bytes.     *)
(***************************************************************************)
TlvLen(f, i) ==
  IF f.short.at = i THEN f.short.len ELSE Width(Layout(Types(f.mif)[i], f))

\* Bytes up to the end of the i-th TLV, with type and length (struct tl).
EndOf(f, i) == SumTo([j \in 1 .. Len(Types(f.mif)) |-> 3 + TlvLen(f, j)], i)

FrameLen(f) == EndOf(f, Len(Types(f.mif)))

-----------------------------------------------------------------------------
\* A read at an offset: into a field of the record, into nothing, or to
\* compare it with the only value that is supported.
Read(at, width, to) == [at |-> at, width |-> width, to |-> to]

Skip == "skip"
Check == "check"

SyncReads == <<Read(1, 2, "tx_down_counter"), Read(29, 2, "next_aw_seq")>>

\* Anything but 16 channels, without duplicates or steps of its own, in a
\* known encoding, is refused.
ChanseqReads(f) ==
  <<Read(0, 1, Check), Read(2, 1, Check), Read(3, 1, Check), Read(4, 2, Check),
    Read(1, 1, Check), Read(6, SeqLength * EncodingSize(f.enc), "sequence")>>

ElectionReads ==
  <<Read(3, 1, "height"), Read(5, 6, "master_addr"),
    Read(11, 4, "master_metric"), Read(15, 4, "self_metric")>>

MutElectionV2Reads ==
  <<Read(16, 4, "height"), Read(0, 6, "master_addr"), Read(6, 6, "sync_addr"),
    Read(12, 4, "master_counter"), Read(20, 4, "master_metric"),
    Read(24, 4, "self_metric"), Read(32, 4, "self_counter")>>

ElectionV2Reads ==
  <<Read(16, 4, "height"), Read(0, 6, "master_addr"), Read(6, 6, "sync_addr"),
    Read(12, 4, "master_counter"), Read(20, 4, "master_metric"),
    Read(24, 4, "self_metric"), Read(36, 4, "self_counter")>>

\* read_int_string: a length, and that many bytes as far as there is room
ArpaReads(f) ==
  <<Read(1, 1, Skip), Read(2, IF f.name > NameMax THEN NameMax ELSE f.name, "name")>>

\* The parts that the flags announce.
DataPathReads(f) ==
  <<Read(0, 2, Skip), Read(2, 3, "country_code"), Read(5, 2, Skip)>> \o
  (IF f.infra
   THEN <<Read(7, 6, Skip), Read(13, 2, Skip), Read(15, 6, "infra_addr"), Read(21, 6, Skip)>>
   ELSE <<Read(7, 6, Skip)>>)

VersionReads == <<Read(0, 1, "version"), Read(1, 1, "devclass")>>

\* awdl_handle_tlv
Reads(type, f) ==
  CASE type = "sync"      -> SyncReads
    [] type = "election"  -> ElectionReads
    [] type = "chanseq"   -> ChanseqReads(f)
    [] type = "v2"        -> ElectionV2Reads
    [] type = "arpa"      -> ArpaReads(f)
    [] type = "data_path" -> DataPathReads(f)
    [] type = "version"   -> VersionReads
    [] OTHER              -> <<>>

\* These handlers read everything before they store anything.
StoresAtEnd == {"sync", "chanseq", "arpa", "version"}

\* The field that lies at an offset, or some bytes of one or several.
FieldAt(fields, r) ==
  LET hits == {k \in 1 .. Len(fields) :
                 fields[k].width = r.width /\ Offset(fields, k - 1) = r.at}
  IN  IF hits = {} THEN "bytes" ELSE fields[CHOOSE k \in hits : TRUE].name

\* The fields of struct awdl_peer that the handlers fill in, those of its
\* election state, and those of the synchronisation.
PeerFields == {"height", "master_addr", "sync_addr", "master_metric", "master_counter",
               "self_metric", "self_counter", "sequence", "name", "country_code",
               "infra_addr", "version", "devclass"}

ElectionFields == {"height", "master_addr", "sync_addr", "master_metric", "master_counter",
                   "self_metric", "self_counter"}

SyncFields == {"tx_down_counter", "next_aw_seq"}

\* What the handler of the i-th TLV does: stores says which field of the
\* frame ends up in which field of the record.
Effect(f, i) ==
  LET type   == Types(f.mif)[i]
      fields == Layout(type, f)
      reads  == Reads(type, f)
      Fails(r) ==
        \/ r.at + r.width > TlvLen(f, i)                       \* RX_TOO_SHORT
        \/ r.to = Check /\ FieldAt(fields, r) = f.odd          \* RX_UNEXPECTED_VALUE
      bad    == {k \in 1 .. Len(reads) : Fails(reads[k])}
      done   == IF bad # {} /\ type \in StoresAtEnd THEN {}
                ELSE {k \in 1 .. Len(reads) : \A b \in bad : k < b}
      stores == {reads[k].to : k \in done} \ {Skip, Check}
  IN  [type |-> type, ok |-> bad = {}, end |-> EndOf(f, i),
       stores |-> [x \in stores |->
                     FieldAt(fields, reads[CHOOSE k \in done : reads[k].to = x])]]

Effects(f) == [i \in 1 .. Len(Types(f.mif)) |-> Effect(f, i)]

\* A handler ignores the synchronisation of nodes that are not our master,
\* and the first form of election parameters once it has seen the second.
MutIgnores(type, acc) == type = "sync" /\ ~acc.master

Ignores(type, acc) ==
  \/ type = "sync" /\ ~acc.master
  \/ type = "election" /\ acc.v2

(***************************************************************************)
(* acc is what the parser has got to: info, the fields it has stored (the  *)
(* peer's, and those of the synchronisation); v2, whether the peer has     *)
(* sent the second form of election parameters; torn, whether the last one *)
(* was too short, so that only its first fields were stored (the handler   *)
(* notes this nowhere); enc, the encoding of the channel sequence it has   *)
(* stored; ok, whether no handler has failed.                              *)
(***************************************************************************)
HandleTlv(f, gen, acc, e) ==
  IF ~acc.ok \/ Ignores(e.type, acc) THEN acc
  ELSE [acc EXCEPT
         !.info = [x \in DOMAIN acc.info |->
                     IF x \in DOMAIN e.stores THEN <<e.stores[x], gen>> ELSE acc.info[x]],
         !.v2   = @ \/ (e.type = "v2" /\ e.ok),
         !.torn = IF e.type = "v2" THEN ~e.ok ELSE @,
         !.enc  = IF e.type = "chanseq" /\ e.ok THEN f.enc ELSE @,
         !.ok   = e.ok]

\* The loop of awdl_rx_action over len bytes: read_tlv finds the TLVs that
\* are there in full, and nothing may be left over.
ParseTlvs(f, effects, gen, acc, len) ==
  LET parsed[i \in 0 .. Len(effects)] ==
        IF i = 0 THEN acc
        ELSE IF effects[i].end > len THEN parsed[i - 1]
        ELSE HandleTlv(f, gen, parsed[i - 1], effects[i])
      done == parsed[Len(effects)]
  IN  [done EXCEPT !.ok = @ /\ \E e \in {0} \cup {effects[i].end : i \in DOMAIN effects} : e = len]

=============================================================================

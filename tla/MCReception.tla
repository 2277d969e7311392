----------------------------- MODULE MCReception -----------------------------
(***************************************************************************)
(* Frames for Reception.  Action frames: both kinds, the three encodings,  *)
(* with and without infrastructure, names of no, some and the longest      *)
(* length, every check of the channel sequence, a channel sequence and     *)
(* election parameters that are too short, every place where the end of a  *)
(* frame can be missing.                                                   *)
(* Data frames: plain and aggregated, parts from the neighbour and from a  *)
(* stranger, of every alignment, longer than an Ethernet frame, too short, *)
(* without the right header, and cut at every byte of the last parts.  The *)
(* longest aggregates have as many parts as there is room for.             *)
(***************************************************************************)
EXTENDS Reception

Whole == [at |-> 0, len |-> 0]

Action(mif, enc, name, infra, odd, short, cut, flags, from) ==
  [kind |-> "action", awdl |-> TRUE, mif |-> mif, enc |-> enc, name |-> name, infra |-> infra,
   odd |-> odd, short |-> short, cut |-> cut, flags |-> flags, from |-> from]

Mif == Action(TRUE, "simple", 5, FALSE, "none", Whole, 0, "none", "neighbour")

\* Frames that end with a TLV, a byte before or a byte after; in the middle
\* of the headers; and before them.
Cuts == {FrameLen(Mif) - EndOf(Mif, i) + d : i \in {1, 2, 3, 4, 6, 8}, d \in {-1, 0, 1}} \cup
        {FrameLen(Mif) + d : d \in {0, 1, ActionLen, ActionLen + 1, ActionLen + HdrLen}}

MCActionFrames ==
  {Action(mif, enc, 5, infra, "none", Whole, 0, "fcs", "neighbour") :
     mif \in BOOLEAN, enc \in {"legacy", "opclass"}, infra \in BOOLEAN} \cup
  {Action(TRUE, "simple", name, FALSE, "none", Whole, 0, "none", "neighbour") :
     name \in {0, 64, 65}} \cup
  {Action(TRUE, "opclass", 5, FALSE, odd, Whole, 0, "none", "neighbour") :
     odd \in {"count", "duplicate_count", "step_count", "fill_channel", "encoding"}} \cup
  {Action(FALSE, "opclass", 5, TRUE, "none", [at |-> 3, len |-> len], 0, "none", "neighbour") :
     len \in {37, 38}} \cup
  {Action(FALSE, "opclass", 5, FALSE, "none", [at |-> 4, len |-> len], 0, "none", "neighbour") :
     len \in {19, 39}} \cup
  {[Mif EXCEPT !.cut = cut] : cut \in Cuts} \cup
  {Action(FALSE, "opclass", 5, FALSE, "none", Whole, 0, flags, "neighbour") :
     flags \in {"invalid", "bad", "absent"}} \cup
  {[Mif EXCEPT !.from = "self"], [Mif EXCEPT !.awdl = FALSE]}

Part(src, len, llc) == [src |-> src, len |-> len, llc |-> llc]

Data(qos, amsdu, parts, tail, cut, flags) ==
  [kind |-> "data", qos |-> qos, amsdu |-> amsdu, parts |-> parts, tail |-> tail,
   cut |-> cut, flags |-> flags, from |-> "neighbour"]

Parts == {Part("neighbour", len, TRUE) : len \in {15, 16, 17, 18, 19, 1520, 1521}} \cup
         {Part("neighbour", 16, FALSE), Part("stranger", 17, TRUE)}

MCDataFrames ==
  {Data(qos, FALSE, <<s>>, 0, 0, "fcs") : qos \in BOOLEAN, s \in Parts} \cup
  {Data(TRUE, TRUE, <<Part("neighbour", 17, TRUE), s>>, 0, 0, "fcs") : s \in Parts} \cup
  {Data(TRUE, TRUE, <<s, Part("neighbour", 17, TRUE)>>, 0, 0, "none") : s \in Parts} \cup
  {Data(TRUE, TRUE, <<Part("neighbour", 17, TRUE), Part("stranger", 18, TRUE),
                      Part("neighbour", 19, TRUE)>>, 0, cut, "none") :
     cut \in {0, 1, 33, 34, 65, 66, 67}} \cup
  {Data(TRUE, TRUE, <<Part("neighbour", 16, TRUE)>>, 2, 0, "none")} \cup
  {Data(FALSE, FALSE, <<Part("neighbour", 20, TRUE)>>, 0, cut, "absent") : cut \in {0, 2}} \cup
  {Data(TRUE, FALSE, <<Part("neighbour", 20, TRUE)>>, 0, cut, "none") : cut \in {21, 22}} \cup
  {[kind |-> "other", flags |-> "none", cut |-> 0, from |-> "neighbour"]}

MCChannel == <<6, 44>>
=============================================================================

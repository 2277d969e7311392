--------------------------- MODULE ReceptionProofs ---------------------------
(***************************************************************************)
(* What a received frame leaves behind, for every set of frames: whatever  *)
(* their fields, however short their TLVs and wherever they are cut.       *)
(***************************************************************************)
EXTENDS Reception, ActionFrameProofs

\* What awdl_rx_data_amsdu has got to after each of n rounds.
IsRounds(f, len, n, p) ==
  p = [i \in 0 .. n |-> IF i = 0 THEN [pos |-> 0, out |-> <<>>, result |-> "RX_OK"]
                        ELSE AmsduPart(f, len, p[i - 1], i)]

LEMMA RoundsExist ==
  ASSUME NEW f, NEW len, NEW n \in Nat
  PROVE  \E p : IsRounds(f, len, n, p)
<1>. DEFINE first == [pos |-> 0, out |-> <<>>, result |-> "RX_OK"]
            Is(k, p) == p = [i \in 0 .. k |-> IF i = 0 THEN first
                                             ELSE AmsduPart(f, len, p[i - 1], i)]
            T == {k \in 0 .. n : \E p : Is(k, p)}
<1>. HIDE DEF first
<1>1. 0 \in T
  <2>. DEFINE p == [i \in 0 .. 0 |-> first]
  <2>1. \A i \in 0 .. 0 : i = 0  OBVIOUS
  <2>2. Is(0, p)  BY <2>1
  <2>3. \E r : Is(0, r)  BY <2>2, Zenon
  <2>. QED  BY <2>3
<1>2. ASSUME NEW k \in 1 .. n, k - 1 \in T PROVE k \in T
  <2>1. PICK p : Is(k - 1, p)  BY <1>2
  <2>. DEFINE q == [i \in 0 .. k |-> IF i = k THEN AmsduPart(f, len, p[k - 1], k) ELSE p[i]]
  <2>2. \A i \in 0 .. k - 1 : p[i] = IF i = 0 THEN first ELSE AmsduPart(f, len, p[i - 1], i)
    BY <2>1
  <2>3. ASSUME NEW i \in 0 .. k
        PROVE  q[i] = IF i = 0 THEN first ELSE AmsduPart(f, len, q[i - 1], i)
    <3>1. CASE i = k
      <4>1. i # 0 /\ i - 1 \in 0 .. k /\ i - 1 # k  BY <3>1
      <4>2. q[i - 1] = p[i - 1]  BY <4>1
      <4>. QED  BY <3>1, <4>1, <4>2
    <3>2. CASE i # k
      <4>1. i \in 0 .. k - 1  BY <3>2
      <4>2. q[i] = p[i]  BY <3>2
      <4>3. i # 0 => i - 1 \in 0 .. k /\ i - 1 # k  BY <4>1
      <4>4. i # 0 => q[i - 1] = p[i - 1]  BY <4>3
      <4>. HIDE DEF q
      <4>. QED  BY <2>2, <4>1, <4>2, <4>4
    <3>. QED  BY <3>1, <3>2
  <2>4. q = [i \in 0 .. k |-> q[i]]  OBVIOUS
  <2>. HIDE DEF q
  <2>5. Is(k, q)  BY <2>3, <2>4, Zenon
  <2>. QED  BY <2>5
<1>. HIDE DEF T
<1>3. n \in T  BY <1>1, <1>2, UpTo
<1>. QED  BY <1>3, Zenon DEF T, IsRounds, first

LEMMA AmsduRounds ==
  ASSUME NEW f, NEW len, Len(f.parts) \in Nat
  PROVE  \E p : /\ p[0] = [pos |-> 0, out |-> <<>>, result |-> "RX_OK"]
                /\ \A i \in 1 .. Len(f.parts) : p[i] = AmsduPart(f, len, p[i - 1], i)
                /\ RxAmsdu(f, len) = p[Len(f.parts)]
<1>. DEFINE n == Len(f.parts)
            first == [pos |-> 0, out |-> <<>>, result |-> "RX_OK"]
            p == CHOOSE p : p = [i \in 0 .. n |-> IF i = 0 THEN first
                                                  ELSE AmsduPart(f, len, p[i - 1], i)]
<1>1. \E q : q = [i \in 0 .. n |-> IF i = 0 THEN first ELSE AmsduPart(f, len, q[i - 1], i)]
  <2>1. n \in Nat  OBVIOUS
  <2>. HIDE DEF n
  <2>2. PICK q : IsRounds(f, len, n, q)  BY <2>1, RoundsExist, Zenon
  <2>. QED  BY <2>2, Zenon DEF IsRounds
<1>2. p = [i \in 0 .. n |-> IF i = 0 THEN first ELSE AmsduPart(f, len, p[i - 1], i)]
  <2>. HIDE DEF first
  <2>. QED  BY <1>1, Zenon DEF first
<1>3. RxAmsdu(f, len) = p[n]
  BY DEF RxAmsdu
<1>. HIDE DEF p
<1>4. p[0] = first
  <2>. HIDE DEF first
  <2>. QED  BY <1>2
<1>5. ASSUME NEW i \in 1 .. n PROVE p[i] = AmsduPart(f, len, p[i - 1], i)
  <2>1. i \in 0 .. n /\ i # 0  OBVIOUS
  <2>. HIDE DEF first
  <2>. QED  BY <1>2, <2>1, Zenon
<1>. QED  BY <1>3, <1>4, <1>5

-----------------------------------------------------------------------------
LEMMA PadAligns ==
  ASSUME NEW l \in Nat
  PROVE  Pad(l) \in Nat /\ Aligned(14 + l) = 14 + l + Pad(l)
<1>. DEFINE n == 14 + l
            q == n \div 4
            r == n % 4
<1>1. n = 4 * q + r /\ q \in Nat /\ r \in 0 .. 3 /\ n \in Nat  OBVIOUS
<1>. HIDE DEF q, r
<1>2. CASE r = 0
  <2>1. (n + 3) \div 4 = q  BY <1>1, <1>2
  <2>2. Pad(l) = 0  BY <1>2 DEF Pad, r
  <2>. QED  BY <1>1, <1>2, <2>1, <2>2 DEF Aligned
<1>3. CASE r # 0
  <2>1. (n + 3) \div 4 = q + 1  BY <1>1, <1>3
  <2>2. Pad(l) = 4 - r
    <3>1. Pad(l) = (4 - r) % 4  BY DEF Pad, r
    <3>. QED  BY <1>1, <1>3, <3>1
  <2>. QED  BY <1>1, <1>3, <2>1, <2>2 DEF Aligned
<1>. QED  BY <1>2, <1>3

\* Where the parts of an aggregate are.
LEMMA StartFacts ==
  ASSUME NEW f \in DataFrames, f.kind = "data"
  PROVE  /\ StartOf(f, 1) = 0
         /\ \A i \in 1 .. Len(f.parts) :
              /\ StartOf(f, i) \in Nat /\ Pad(f.parts[i].len) \in Nat
              /\ EndOfPart(f, i) \in Nat /\ EndOfPart(f, i) = StartOf(f, i) + 14 + f.parts[i].len
              /\ StartOf(f, i + 1) = EndOfPart(f, i) + Pad(f.parts[i].len)
         /\ \A i, j \in 1 .. Len(f.parts) : i <= j => StartOf(f, i) <= StartOf(f, j)
<1>. DEFINE n == Len(f.parts)
            w == [j \in 1 .. n |-> Aligned(14 + f.parts[j].len)]
<1>1. n \in Nat /\ \A i \in 1 .. n : f.parts[i].len \in Nat  BY DataFramesAssumption
<1>2. \A i : StartOf(f, i) = SumTo(w, i - 1)  BY DEF StartOf
<1>. HIDE DEF n
<1>3. Len(w) = n /\ \A i \in 1 .. n : w[i] = Aligned(14 + f.parts[i].len)  BY <1>1
<1>4. \A i \in 1 .. n : Pad(f.parts[i].len) \in Nat /\ w[i] = 14 + f.parts[i].len + Pad(f.parts[i].len)
  BY <1>1, <1>3, PadAligns
<1>. HIDE DEF w
<1>5. \A i \in 1 .. n : w[i] \in Nat  BY <1>1, <1>4
<1>6. SumTo(w, 0) = 0 /\ \A i \in 1 .. n : SumTo(w, i) = SumTo(w, i - 1) + w[i]
  BY <1>1, <1>3, SumToNext
<1>7. /\ \A k \in 0 .. n : SumTo(w, k) \in Nat
      /\ \A j, k \in 0 .. n : j <= k => SumTo(w, j) <= SumTo(w, k)
  BY <1>1, <1>3, <1>5, SumToGrows, Zenon
<1>8. StartOf(f, 1) = 0  BY <1>2, <1>6
<1>9. ASSUME NEW i \in 1 .. n
      PROVE  /\ StartOf(f, i) \in Nat /\ Pad(f.parts[i].len) \in Nat
             /\ EndOfPart(f, i) \in Nat /\ EndOfPart(f, i) = StartOf(f, i) + 14 + f.parts[i].len
             /\ StartOf(f, i + 1) = EndOfPart(f, i) + Pad(f.parts[i].len)
  <2>1. i - 1 \in 0 .. n  BY <1>1
  <2>2. StartOf(f, i) \in Nat  BY <1>2, <1>7, <2>1
  <2>3. StartOf(f, i + 1) = StartOf(f, i) + w[i]
    <3>1. i + 1 - 1 = i  OBVIOUS
    <3>. QED  BY <1>2, <1>6, <3>1
  <2>4. EndOfPart(f, i) = StartOf(f, i) + 14 + f.parts[i].len  BY DEF EndOfPart
  <2>. QED  BY <1>1, <1>4, <2>2, <2>3, <2>4
<1>10. \A i, j \in 1 .. n : i <= j => StartOf(f, i) <= StartOf(f, j)
  <2>. SUFFICES ASSUME NEW i \in 1 .. n, NEW j \in 1 .. n, i <= j
                PROVE  StartOf(f, i) <= StartOf(f, j)
    OBVIOUS
  <2>1. i - 1 \in 0 .. n /\ j - 1 \in 0 .. n /\ i - 1 <= j - 1  BY <1>1
  <2>. QED  BY <1>2, <1>7, <2>1
<1>. QED  BY <1>8, <1>9, <1>10 DEF n

HostFrames == [part : Nat, payload : Int, len : Nat]

\* The first i parts, those of them that are from peers and have arrived.
Wanted(f, len, i) ==
  {j \in 1 .. i : InTable(f.parts[j].src) /\ EndOfPart(f, j) <= len}

\* A frame for the host, from one of the first i parts.
Sound(f, i, h) ==
  /\ h.part \in 1 .. i /\ Fine(f.parts[h.part])
  /\ f.parts[h.part].len <= MaxPayload + LlcLen + DataLen =>
       h.payload = f.parts[h.part].len - LlcLen - DataLen

\* What awdl_rx_data_amsdu has got to after i parts.
Walked(f, len, i, x) ==
  /\ x = [pos |-> x.pos, out |-> x.out, result |-> x.result]
  /\ x.pos \in Nat /\ x.out \in Seq(HostFrames)
  /\ x.result \in {"RX_OK", "RX_TOO_SHORT", "RX_UNEXPECTED_FORMAT"}
  /\ \A k \in 1 .. Len(x.out) : Sound(f, i, x.out[k])
  /\ x.result = "RX_OK" =>
       /\ x.pos <= len
       /\ x.pos = StartOf(f, i + 1) \/ (x.pos = len /\ len <= StartOf(f, i + 1))
       /\ Lists(x.out, Wanted(f, len, i))

\* awdl_rx_data
LEMMA RxDataFacts ==
  ASSUME NEW s, s.llc \in BOOLEAN, NEW len \in Nat
  PROVE  /\ RxData(s, len) \in {"RX_OK", "RX_IGNORE_PEER", "RX_TOO_SHORT", "RX_UNEXPECTED_FORMAT"}
         /\ RxData(s, len) = "RX_OK" => InTable(s.src) /\ s.llc /\ len >= LlcLen + DataLen
         /\ RxData(s, len) = "RX_IGNORE_PEER" => ~InTable(s.src)
         /\ InTable(s.src) /\ s.llc /\ len >= LlcLen + DataLen => RxData(s, len) = "RX_OK"
         /\ ~InTable(s.src) => RxData(s, len) = "RX_IGNORE_PEER"
BY DEF RxData, ValidLlc, LlcLen, DataLen

\* A part more for the host.
LEMMA ListsAppend ==
  ASSUME NEW out \in Seq(HostFrames), NEW S, NEW i \in Nat, NEW h \in HostFrames, h.part = i,
         Lists(out, S), \A j \in S : j \in Nat /\ j < i
  PROVE  Lists(Append(out, h), S \cup {i})
<1>. DEFINE new == Append(out, h)
            m == Len(out)
<1>1. /\ m \in Nat /\ Len(new) = m + 1 /\ new[m + 1] = h
      /\ \A k \in 1 .. m : new[k] = out[k]
  OBVIOUS
<1>. HIDE DEF new, m
<1>2. /\ \A j, k \in 1 .. m : j < k => out[j].part < out[k].part
      /\ {out[k].part : k \in 1 .. m} = S
  BY DEF Lists, m
<1>3. \A k \in 1 .. m : out[k].part \in S /\ out[k].part < i  BY <1>2
<1>4. ASSUME NEW j \in 1 .. m + 1, NEW k \in 1 .. m + 1, j < k PROVE new[j].part < new[k].part
  <2>1. j \in 1 .. m  BY <1>1, <1>4
  <2>2. CASE k = m + 1  BY <1>1, <1>3, <2>1, <2>2
  <2>3. CASE k # m + 1
    <3>1. k \in 1 .. m  BY <1>1, <2>3
    <3>. QED  BY <1>1, <1>2, <1>4, <2>1, <3>1
  <2>. QED  BY <2>2, <2>3
<1>5. {new[k].part : k \in 1 .. m + 1} = S \cup {i}
  <2>1. \A k \in 1 .. m + 1 : new[k].part \in S \cup {i}
    <3>. TAKE k \in 1 .. m + 1
    <3>1. CASE k = m + 1  BY <1>1, <3>1
    <3>2. CASE k # m + 1
      <4>1. k \in 1 .. m  BY <1>1, <3>2
      <4>. QED  BY <1>1, <1>3, <4>1
    <3>. QED  BY <3>1, <3>2
  <2>2. \A x \in S : \E k \in 1 .. m + 1 : new[k].part = x
    <3>. TAKE x \in S
    <3>1. PICK k \in 1 .. m : out[k].part = x  BY <1>2
    <3>2. k \in 1 .. m + 1 /\ new[k].part = x  BY <1>1, <3>1
    <3>. QED  BY <3>2
  <2>3. m + 1 \in 1 .. m + 1 /\ new[m + 1].part = i  BY <1>1
  <2>. QED  BY <2>1, <2>2, <2>3
<1>. QED  BY <1>1, <1>4, <1>5, Zenon DEF Lists, new

\* One round of awdl_rx_data_amsdu.  It ends in an error only where a part
\* is not complete, its padding is not, or a peer's part is not sound.
LEMMA AmsduPartOK ==
  ASSUME NEW f \in DataFrames, f.kind = "data", NEW len \in Nat,
         NEW i \in 1 .. Len(f.parts), NEW x, Walked(f, len, i - 1, x)
  PROVE  /\ Walked(f, len, i, AmsduPart(f, len, x, i))
         /\ /\ x.result = "RX_OK" /\ EndOfPart(f, i) <= len
            /\ len = EndOfPart(f, i) \/ StartOf(f, i + 1) <= len
            /\ InTable(f.parts[i].src) => Fine(f.parts[i])
            => AmsduPart(f, len, x, i).result = "RX_OK"
<1>. DEFINE s == f.parts[i]
            left == len - x.pos
            end == x.pos + 14 + s.len
            pad == Pad(s.len)
            r == RxData(s, s.len)
            new == AmsduPart(f, len, x, i)
            start == StartOf(f, i)
            stop == EndOfPart(f, i)
            after == StartOf(f, i + 1)
<1>1. /\ s.len \in Nat /\ s.llc \in BOOLEAN
      /\ start \in Nat /\ pad \in Nat /\ stop \in Nat
      /\ stop = start + 14 + s.len /\ after = stop + pad
  BY DataFramesAssumption, StartFacts, ZenonT(40)
<1>2. /\ x = [pos |-> x.pos, out |-> x.out, result |-> x.result]
      /\ x.pos \in Nat /\ x.out \in Seq(HostFrames)
      /\ x.result \in {"RX_OK", "RX_TOO_SHORT", "RX_UNEXPECTED_FORMAT"}
      /\ \A k \in 1 .. Len(x.out) : Sound(f, i - 1, x.out[k])
      /\ x.result = "RX_OK" =>
           /\ x.pos <= len
           /\ x.pos = start \/ (x.pos = len /\ len <= start)
           /\ Lists(x.out, Wanted(f, len, i - 1))
  <2>1. i - 1 + 1 = i  OBVIOUS
  <2>. QED  BY <2>1, Zenon DEF Walked
<1>3. \A k \in 1 .. Len(x.out) : Sound(f, i, x.out[k])
  <2>1. \A j \in 1 .. i - 1 : j \in 1 .. i  OBVIOUS
  <2>. QED  BY <1>2, <2>1, Zenon DEF Sound
<1>4. Wanted(f, len, i) = IF InTable(s.src) /\ stop <= len THEN Wanted(f, len, i - 1) \cup {i}
                          ELSE Wanted(f, len, i - 1)
  <2>1. 1 .. i = (1 .. i - 1) \cup {i}  OBVIOUS
  <2>. QED  BY <2>1, Zenon DEF Wanted
<1>5. new = IF x.result # "RX_OK" \/ left = 0 THEN x
            ELSE IF x.pos # start \/ left < 14 \/ s.len > left - 14
                 THEN [x EXCEPT !.result = "RX_TOO_SHORT"]
            ELSE IF IsError(r) THEN [x EXCEPT !.result = r]
            ELSE [pos    |-> IF len = end THEN end ELSE end + pad,
                  out    |-> IF r = "RX_OK" THEN Append(x.out, Ethernet(i, s.len)) ELSE x.out,
                  result |-> IF len # end /\ pad > len - end THEN "RX_TOO_SHORT" ELSE "RX_OK"]
  BY Zenon DEF AmsduPart
<1>6. /\ r \in {"RX_OK", "RX_IGNORE_PEER", "RX_TOO_SHORT", "RX_UNEXPECTED_FORMAT"}
      /\ r = "RX_OK" => InTable(s.src) /\ s.llc /\ s.len >= LlcLen + DataLen
      /\ r = "RX_IGNORE_PEER" => ~InTable(s.src)
      /\ InTable(s.src) /\ s.llc /\ s.len >= LlcLen + DataLen => r = "RX_OK"
      /\ ~InTable(s.src) => r = "RX_IGNORE_PEER"
  <2>. HIDE DEF s, start, stop, after, pad, new
  <2>1. s.len \in Nat /\ s.llc \in BOOLEAN  BY <1>1
  <2>. QED  BY <2>1, RxDataFacts
<1>. DEFINE good == /\ x.result = "RX_OK" /\ stop <= len
                    /\ len = stop \/ after <= len
                    /\ InTable(s.src) => Fine(s)
<1>. SUFFICES Walked(f, len, i, new) /\ (good => new.result = "RX_OK")
  OBVIOUS
<1>. HIDE DEF s, new, start, stop, after, pad, r
<1>n. /\ s.len \in Nat /\ start \in Nat /\ pad \in Nat
      /\ stop = start + 14 + s.len /\ after = stop + pad
  BY <1>1, Zenon
<1>7. CASE x.result # "RX_OK"
  <2>1. new = x  BY <1>5, <1>7
  <2>2. Walked(f, len, i, x)  BY <1>2, <1>3, <1>7, Zenon DEF Walked
  <2>. QED  BY <1>7, <2>1, <2>2
<1>8. CASE x.result = "RX_OK" /\ left = 0
  <2>1. new = x  BY <1>5, <1>8
  <2>2. x.pos = len /\ len <= start  BY <1>1, <1>2, <1>8
  <2>3. ~(stop <= len) /\ len <= after
    <3>1. len <= start  BY <2>2
    <3>. QED  BY <1>n, <3>1
  <2>4. Lists(x.out, Wanted(f, len, i))  BY <1>2, <1>4, <1>8, <2>3, Zenon
  <2>5. Walked(f, len, i, x)
    <3>1. x.pos <= len  BY <1>2, <1>8
    <3>. QED  BY <1>2, <1>3, <2>2, <2>3, <2>4, <3>1, Zenon DEF Walked, after
  <2>. QED  BY <1>8, <2>1, <2>5
<1>9. CASE x.result = "RX_OK" /\ left # 0
  <2>1. x.pos = start /\ end = stop  BY <1>1, <1>2, <1>9
  <2>2. CASE left < 14 \/ s.len > left - 14
    <3>1. new = [pos |-> x.pos, out |-> x.out, result |-> "RX_TOO_SHORT"]
      BY <1>2, <1>5, <1>9, <2>2, SMTT(30)
    <3>2. new.pos = x.pos /\ new.out = x.out /\ new.result = "RX_TOO_SHORT"  BY <3>1
    <3>3. ~(stop <= len)
      <4>1. left = len - start  BY <2>1
      <4>. HIDE DEF left
      <4>. QED  BY <1>n, <2>2, <4>1
    <3>4. Walked(f, len, i, new)
      BY <1>2, <1>3, <3>1, <3>2 DEF Walked
    <3>. QED  BY <3>3, <3>4
  <2>3. CASE ~(left < 14 \/ s.len > left - 14) /\ IsError(r)
    <3>1. new = [pos |-> x.pos, out |-> x.out, result |-> r]
      BY <1>2, <1>5, <1>9, <2>1, <2>3, SMTT(30)
    <3>2. new.pos = x.pos /\ new.out = x.out /\ new.result = r  BY <3>1
    <3>3. r \in {"RX_TOO_SHORT", "RX_UNEXPECTED_FORMAT"} /\ r # "RX_OK"  BY <2>3 DEF IsError
    <3>4. Walked(f, len, i, new)
      BY <1>2, <1>3, <3>1, <3>2, <3>3 DEF Walked
    <3>5. ~good  BY <1>6, <3>3 DEF Fine
    <3>. QED  BY <3>4, <3>5
  <2>4. CASE ~(left < 14 \/ s.len > left - 14) /\ ~IsError(r)
    <3>. DEFINE pos == IF len = end THEN end ELSE end + pad
                h == Ethernet(i, s.len)
                out == IF r = "RX_OK" THEN Append(x.out, h) ELSE x.out
                res == IF len # end /\ pad > len - end THEN "RX_TOO_SHORT" ELSE "RX_OK"
    <3>1. new = [pos |-> pos, out |-> out, result |-> res]
      BY <1>5, <1>9, <2>1, <2>4, Zenon
    <3>2. /\ pos \in Nat /\ res \in {"RX_OK", "RX_TOO_SHORT"}
          /\ res = "RX_OK" => pos <= len /\ (pos = after \/ (pos = len /\ len <= after))
          /\ stop <= len
          /\ len = stop \/ after <= len => res = "RX_OK"
      <4>1. stop <= len /\ stop \in Nat /\ pad \in Nat /\ after = stop + pad /\ end = stop
        <5>. DEFINE m == s.len
        <5>1. /\ m \in Nat /\ start \in Nat /\ pad \in Nat
              /\ stop = start + 14 + m /\ after = stop + pad
          BY <1>n, Zenon
        <5>2. left = len - start /\ end = stop  BY <2>1
        <5>3. ~(m > left - 14)  BY <2>4, Zenon
        <5>. HIDE DEF m, left, end
        <5>. QED  BY <5>1, <5>2, <5>3
      <4>. HIDE DEF end
      <4>2. CASE len = end  BY <4>1, <4>2
      <4>3. CASE len # end  BY <4>1, <4>3
      <4>. QED  BY <4>2, <4>3
    <3>3. r \in {"RX_OK", "RX_IGNORE_PEER"}  BY <1>6, <2>4 DEF IsError
    <3>4. /\ out \in Seq(HostFrames)
          /\ \A k \in 1 .. Len(out) : Sound(f, i, out[k])
          /\ Lists(out, Wanted(f, len, i))
      <4>1. CASE r = "RX_OK"
        <5>0. s.len \in Nat /\ MaxPayload \in Nat  BY <1>1, ReceptionAssumption
        <5>1. h \in HostFrames /\ h.part = i
              /\ (s.len - LlcLen - DataLen <= MaxPayload => h.payload = s.len - LlcLen - DataLen)
          BY <5>0 DEF Ethernet, HostFrames, LlcLen, DataLen
        <5>2. Sound(f, i, h)
          <6>2. s.len <= MaxPayload + LlcLen + DataLen => s.len - LlcLen - DataLen <= MaxPayload
            BY <5>0 DEF LlcLen, DataLen
          <6>3. Fine(s)  BY <1>6, <4>1 DEF Fine
          <6>4. h.part \in 1 .. i /\ f.parts[h.part] = s  BY <5>1 DEF s
          <6>. HIDE DEF h
          <6>. QED  BY <5>1, <6>2, <6>3, <6>4, Zenon DEF Sound
        <5>. HIDE DEF h
        <5>2a. x.out \in Seq(HostFrames)  BY <1>2
        <5>3. /\ out = Append(x.out, h) /\ out \in Seq(HostFrames)
              /\ Len(x.out) \in Nat /\ Len(out) = Len(x.out) + 1
              /\ \A k \in 1 .. Len(x.out) : out[k] = x.out[k]
              /\ out[Len(x.out) + 1] = h
          BY <4>1, <5>1, <5>2a
        <5>4. ASSUME NEW k \in 1 .. Len(out) PROVE Sound(f, i, out[k])
          <6>1. CASE k = Len(x.out) + 1  BY <5>2, <5>3, <6>1
          <6>2. CASE k # Len(x.out) + 1
            <7>1. k \in 1 .. Len(x.out)  BY <5>3, <6>2
            <7>. QED  BY <1>3, <5>3, <7>1
          <6>. QED  BY <6>1, <6>2
        <5>5. Wanted(f, len, i) = Wanted(f, len, i - 1) \cup {i}
          BY <1>4, <1>6, <3>2, <4>1, Zenon
        <5>6. \A j \in Wanted(f, len, i - 1) : j \in Nat /\ j < i  BY DEF Wanted
        <5>7. Lists(x.out, Wanted(f, len, i - 1))  BY <1>2, <1>9
        <5>8. Lists(Append(x.out, h), Wanted(f, len, i - 1) \cup {i})
          BY <5>1, <5>2a, <5>6, <5>7, ListsAppend
        <5>. QED  BY <5>3, <5>4, <5>5, <5>8
      <4>2. CASE r # "RX_OK"
        <5>1. out = x.out  BY <4>2
        <5>2. ~InTable(s.src)  BY <1>6, <3>3, <4>2
        <5>3. Wanted(f, len, i) = Wanted(f, len, i - 1)  BY <1>4, <5>2, Zenon
        <5>. QED  BY <1>2, <1>3, <1>9, <5>1, <5>3
      <4>. QED  BY <4>1, <4>2
    <3>. HIDE DEF pos, out, res
    <3>5. new.pos = pos /\ new.out = out /\ new.result = res  BY <3>1
    <3>6. Walked(f, len, i, new)
      BY <3>1, <3>2, <3>4, <3>5, Zenon DEF Walked, after
    <3>. QED  BY <3>2, <3>5, <3>6
  <2>. QED  BY <2>2, <2>3, <2>4
<1>. QED  BY <1>2, <1>7, <1>8, <1>9

\* awdl_rx_data_amsdu.  It accepts an aggregate that is there in full, when
\* the parts of peers are sound.
LEMMA RxAmsduOK ==
  ASSUME NEW f \in DataFrames, f.kind = "data", NEW len \in Nat
  PROVE  /\ Walked(f, len, Len(f.parts), RxAmsdu(f, len))
         /\ /\ len = EndOfPart(f, Len(f.parts)) + f.tail
            /\ \A i \in 1 .. Len(f.parts) : InTable(f.parts[i].src) => Fine(f.parts[i])
            => RxAmsdu(f, len).result = "RX_OK"
<1>. DEFINE n == Len(f.parts)
            sound == /\ len = EndOfPart(f, n) + f.tail
                     /\ \A i \in 1 .. n : InTable(f.parts[i].src) => Fine(f.parts[i])
<1>1. n \in Nat /\ n # 0 /\ f.tail \in {0, Pad(f.parts[n].len)}  BY DataFramesAssumption
<1>2. PICK p : /\ p[0] = [pos |-> 0, out |-> <<>>, result |-> "RX_OK"]
               /\ \A i \in 1 .. n : p[i] = AmsduPart(f, len, p[i - 1], i)
               /\ RxAmsdu(f, len) = p[n]
  BY <1>1, AmsduRounds
<1>3. /\ StartOf(f, 1) = 0
      /\ \A i \in 1 .. n : /\ StartOf(f, i) \in Nat /\ Pad(f.parts[i].len) \in Nat
                           /\ EndOfPart(f, i) \in Nat
                           /\ StartOf(f, i) <= EndOfPart(f, i)
                           /\ StartOf(f, i + 1) = EndOfPart(f, i) + Pad(f.parts[i].len)
      /\ \A i, j \in 1 .. n : i <= j => StartOf(f, i) <= StartOf(f, j)
  <2>1. \A i \in 1 .. n : f.parts[i].len \in Nat  BY DataFramesAssumption
  <2>2. \A i, j \in 1 .. n : i <= j => StartOf(f, i) <= StartOf(f, j)  BY StartFacts
  <2>3. ASSUME NEW i \in 1 .. n
        PROVE  /\ StartOf(f, i) \in Nat /\ Pad(f.parts[i].len) \in Nat
               /\ EndOfPart(f, i) \in Nat /\ StartOf(f, i) <= EndOfPart(f, i)
               /\ StartOf(f, i + 1) = EndOfPart(f, i) + Pad(f.parts[i].len)
    <3>1. /\ StartOf(f, i) \in Nat /\ Pad(f.parts[i].len) \in Nat
          /\ EndOfPart(f, i) \in Nat /\ EndOfPart(f, i) = StartOf(f, i) + 14 + f.parts[i].len
          /\ StartOf(f, i + 1) = EndOfPart(f, i) + Pad(f.parts[i].len)
      BY StartFacts
    <3>. QED  BY <2>1, <3>1
  <2>4. StartOf(f, 1) = 0  BY StartFacts
  <2>. QED  BY <2>2, <2>3, <2>4
<1>. HIDE DEF n
<1>. DEFINE T == {i \in 0 .. n : Walked(f, len, i, p[i]) /\ (sound => p[i].result = "RX_OK")}
<1>4. 0 \in T
  <2>. DEFINE x == p[0]
  <2>1. /\ x = [pos |-> x.pos, out |-> x.out, result |-> x.result]
        /\ x.pos = 0 /\ x.out = <<>> /\ x.result = "RX_OK"
    BY <1>2
  <2>. HIDE DEF x
  <2>2. x.out \in Seq(HostFrames) /\ Len(x.out) = 0  BY <2>1
  <2>3. Wanted(f, len, 0) = {}  BY DEF Wanted
  <2>4. Lists(x.out, Wanted(f, len, 0))  BY <2>2, <2>3 DEF Lists
  <2>5. x.pos = StartOf(f, 0 + 1)  BY <1>3, <2>1
  <2>6. Walked(f, len, 0, x)  BY <2>1, <2>2, <2>4, <2>5 DEF Walked
  <2>. QED  BY <1>1, <2>1, <2>6 DEF x
<1>5. ASSUME NEW i \in 1 .. n, i - 1 \in T PROVE i \in T
  <2>1. Walked(f, len, i - 1, p[i - 1]) /\ (sound => p[i - 1].result = "RX_OK")  BY <1>5
  <2>2. p[i] = AmsduPart(f, len, p[i - 1], i)  BY <1>2
  <2>3. /\ Walked(f, len, i, p[i])
        /\ /\ p[i - 1].result = "RX_OK" /\ EndOfPart(f, i) <= len
           /\ len = EndOfPart(f, i) \/ StartOf(f, i + 1) <= len
           /\ InTable(f.parts[i].src) => Fine(f.parts[i])
           => p[i].result = "RX_OK"
    BY <2>1, <2>2, AmsduPartOK DEF n
  <2>4. ASSUME sound PROVE p[i].result = "RX_OK"
    <3>1. n \in 1 .. n /\ i <= n  BY <1>1
    <3>2. CASE i = n
      <4>1. /\ EndOfPart(f, n) \in Nat /\ Pad(f.parts[n].len) \in Nat
            /\ StartOf(f, n + 1) = EndOfPart(f, n) + Pad(f.parts[n].len)
        BY <1>3, <3>1
      <4>2. EndOfPart(f, n) <= len /\ (len = EndOfPart(f, n) \/ StartOf(f, n + 1) <= len)
        BY <1>1, <2>4, <4>1
      <4>. QED  BY <2>1, <2>3, <2>4, <3>2, <4>2
    <3>3. CASE i # n
      <4>1. i + 1 \in 1 .. n /\ i + 1 <= n  BY <3>1, <3>3
      <4>2. StartOf(f, i + 1) <= StartOf(f, n)  BY <1>3, <3>1, <4>1
      <4>3. /\ StartOf(f, n) \in Nat /\ EndOfPart(f, n) \in Nat /\ Pad(f.parts[n].len) \in Nat
            /\ StartOf(f, n) <= EndOfPart(f, n)
        BY <1>3, <3>1
      <4>4. /\ EndOfPart(f, i) \in Nat /\ Pad(f.parts[i].len) \in Nat
            /\ StartOf(f, i + 1) = EndOfPart(f, i) + Pad(f.parts[i].len)
        BY <1>3
      <4>5. EndOfPart(f, n) <= len  BY <1>1, <2>4, <4>3
      <4>6. EndOfPart(f, i) <= len /\ StartOf(f, i + 1) <= len  BY <4>2, <4>3, <4>4, <4>5
      <4>. QED  BY <2>1, <2>3, <2>4, <4>6
    <3>. QED  BY <3>2, <3>3
  <2>5. i \in 0 .. n  BY <1>1
  <2>. QED  BY <2>3, <2>4, <2>5
<1>6. n \in T
  <2>. HIDE DEF T
  <2>1. \A i \in 0 .. n : i \in T  BY <1>1, <1>4, <1>5, UpTo
  <2>. QED  BY <1>1, <2>1
<1>. QED  BY <1>2, <1>6 DEF n

LEMMA BodyFacts ==
  ASSUME NEW f \in DataFrames, f.kind = "data"
  PROVE  /\ BodyLen(f) = (IF f.qos THEN 2 ELSE 0) +
                         (IF f.amsdu THEN EndOfPart(f, Len(f.parts)) + f.tail ELSE f.parts[1].len)
         /\ (IF f.amsdu THEN EndOfPart(f, Len(f.parts)) + f.tail ELSE f.parts[1].len) \in Nat
         /\ BodyLen(f) \in Nat
         /\ CapLen[f] = HdrLen + BodyLen(f) + FcsLen(f.flags) - f.cut /\ f.cut \in Nat
<1>1. BodyLen(f) = (IF f.qos THEN 2 ELSE 0) +
                   (IF f.amsdu THEN EndOfPart(f, Len(f.parts)) + f.tail ELSE f.parts[1].len)
  BY DEF BodyLen
<1>2. Len(f.parts) \in 1 .. Len(f.parts) /\ 1 \in 1 .. Len(f.parts)  BY DataFramesAssumption
<1>3. EndOfPart(f, Len(f.parts)) \in Nat /\ f.parts[1].len \in Nat /\ f.tail \in Nat
  <2>1. /\ EndOfPart(f, Len(f.parts)) \in Nat
        /\ Pad(f.parts[Len(f.parts)].len) \in Nat
    BY <1>2, StartFacts, ZenonT(40)
  <2>. QED  BY <1>2, <2>1, DataFramesAssumption
<1>4. CapLen[f] = HdrLen + BodyLen(f) + FcsLen(f.flags) - f.cut  BY DEF CapLen
<1>5. f.cut \in Nat  BY ReceptionAssumption
<1>6. (IF f.amsdu THEN EndOfPart(f, Len(f.parts)) + f.tail ELSE f.parts[1].len) \in Nat
  BY <1>3
<1>7. BodyLen(f) \in Nat  BY <1>1, <1>6
<1>. QED  BY <1>1, <1>4, <1>5, <1>6, <1>7

-----------------------------------------------------------------------------
\* What HostGetsFrame says of frame f when the host gets out.
HostOK(f, out) ==
  /\ out # <<>> => Lists(out, Arrived(f))
  /\ Unharmed(f) /\ (\A i \in 1 .. Len(f.parts) : InTable(f.parts[i].src) => Fine(f.parts[i]))
       => Lists(out, Arrived(f))
  /\ \A k \in 1 .. Len(out) :
       /\ Fine(f.parts[out[k].part])
       /\ (f.amsdu \/ Unharmed(f)) /\ f.parts[out[k].part].len <= MaxPayload + LlcLen + DataLen =>
            out[k].payload = f.parts[out[k].part].len - LlcLen - DataLen

\* What LostOnlyIfRejected says.
LostOK(f, r, lost) ==
  lost > 0 => r \in {"RX_UNEXPECTED_FORMAT", "RX_TOO_SHORT"} /\ f.amsdu

LEMMA RxDataFrameOK ==
  ASSUME NEW f \in DataFrames, f.kind = "data", NEW flags \in FlagsRead(f), NEW len \in Nat,
         len = CapLen[f] - FcsLen(flags) - HdrLen, RxDataFrame(f, len)
  PROVE  \E r, out, lost :
            /\ last' = Result(f, r, out, lost) /\ LostOK(f, r, lost)
            /\ f.flags # "absent" => HostOK(f, out)
<1>. DEFINE body == IF f.qos THEN len - 2 ELSE len
            d == RxData(f.parts[1], body)
            n == Len(f.parts)
            sound == \A i \in 1 .. n : InTable(f.parts[i].src) => Fine(f.parts[i])
            whole == IF f.amsdu THEN EndOfPart(f, n) + f.tail ELSE f.parts[1].len
            c == IF body < 0 THEN [out |-> <<>>, result |-> "RX_TOO_SHORT"]
                 ELSE IF f.amsdu THEN RxAmsdu(f, body)
                 ELSE [out |-> IF d = "RX_OK" THEN <<Ethernet(1, body)>> ELSE <<>>, result |-> d]
            out == IF c.result = "RX_OK" THEN c.out ELSE <<>>
            lost == IF c.result = "RX_OK" THEN 0 ELSE Len(c.out)
<1>1. /\ f.qos \in BOOLEAN /\ f.amsdu \in BOOLEAN /\ n \in Nat /\ n # 0 /\ (f.amsdu \/ n = 1)
      /\ f.parts[1].len \in Nat /\ f.parts[1].llc \in BOOLEAN
  <2>1. 1 \in 1 .. n  BY DataFramesAssumption
  <2>. QED  BY <2>1, DataFramesAssumption
<1>2. last' = Result(f, c.result, out, lost)
  <2>1. last' = IF c.result = "RX_OK" THEN Result(f, c.result, c.out, 0)
                ELSE Result(f, c.result, <<>>, Len(c.out))
    BY Zenon DEF RxDataFrame
  <2>. HIDE DEF c
  <2>. QED  BY <2>1
<1>3. /\ BodyLen(f) = (IF f.qos THEN 2 ELSE 0) + whole /\ BodyLen(f) \in Nat
      /\ CapLen[f] = HdrLen + BodyLen(f) + FcsLen(f.flags) - f.cut /\ f.cut \in Nat
      /\ whole \in Nat
  BY BodyFacts
<1>4. f.flags # "absent" => flags = f.flags  BY DEF FlagsRead
<1>5. body \in Int  BY <1>1
<1>6. f.flags # "absent" => body = whole - f.cut
  <2>. SUFFICES ASSUME f.flags # "absent" PROVE body = whole - f.cut
    OBVIOUS
  <2>. DEFINE q == IF f.qos THEN 2 ELSE 0
  <2>1. FcsLen(flags) \in Nat /\ HdrLen \in Nat /\ flags = f.flags
    BY <1>4 DEF FcsLen, HdrLen
  <2>2. body = len - q /\ q \in Nat  BY <1>1
  <2>3. BodyLen(f) = q + whole  BY <1>3
  <2>. HIDE DEF whole, body, q
  <2>4. len = BodyLen(f) - f.cut  BY <1>3, <2>1
  <2>. QED  BY <1>3, <2>2, <2>3, <2>4
<1>7. f.flags # "absent" =>
        Arrived(f) = {i \in 1 .. n : InTable(f.parts[i].src) /\ (f.amsdu => EndOfPart(f, i) <= body)}
  <2>. SUFFICES ASSUME f.flags # "absent"
                PROVE  Arrived(f) = {i \in 1 .. n : InTable(f.parts[i].src) /\
                                                    (f.amsdu => EndOfPart(f, i) <= body)}
    OBVIOUS
  <2>1. CapLen[f] \in Int /\ HdrLen \in Int /\ FcsLen(f.flags) \in Int
    BY <1>3 DEF HdrLen, FcsLen
  <2>2. CapLen[f] - HdrLen - FcsLen(f.flags) - (IF f.qos THEN 2 ELSE 0) = body
    BY <1>1, <1>4, <2>1
  <2>. QED  BY <2>2, Zenon DEF Arrived
<1>8. ASSUME Unharmed(f) PROVE body = whole /\ f.flags # "absent" /\ ~(body < 0)
  <2>1. f.cut = 0 /\ f.flags # "absent"  BY <1>8 DEF Unharmed
  <2>. HIDE DEF whole, body
  <2>. QED  BY <1>3, <1>5, <1>6, <2>1
<1>. HIDE DEF body, whole, n
<1>9. CASE body < 0
  <2>1. c.out = <<>> /\ c.result = "RX_TOO_SHORT"  BY <1>9
  <2>. HIDE DEF c
  <2>2. out = <<>> /\ lost = 0  BY <2>1
  <2>3. HostOK(f, out)  BY <1>8, <1>9, <2>2 DEF HostOK
  <2>4. LostOK(f, c.result, lost)  BY <2>2 DEF LostOK
  <2>. QED  BY <1>2, <2>3, <2>4
<1>10. CASE ~(body < 0) /\ f.amsdu
  <2>1. body \in Nat /\ c = RxAmsdu(f, body)  BY <1>5, <1>10
  <2>2. /\ Walked(f, body, n, c)
        /\ body = EndOfPart(f, n) + f.tail /\ sound => c.result = "RX_OK"
    BY <2>1, RxAmsduOK DEF n
  <2>3. /\ c.out \in Seq(HostFrames)
        /\ c.result \in {"RX_OK", "RX_TOO_SHORT", "RX_UNEXPECTED_FORMAT"}
        /\ \A k \in 1 .. Len(c.out) : Sound(f, n, c.out[k])
        /\ c.result = "RX_OK" => Lists(c.out, Wanted(f, body, n))
    BY <2>2, Zenon DEF Walked
  <2>. HIDE DEF c
  <2>4. LostOK(f, c.result, lost)  BY <1>10, <2>3 DEF LostOK
  <2>5. ASSUME f.flags # "absent" PROVE HostOK(f, out)
    <3>1. Arrived(f) = Wanted(f, body, n)  BY <1>7, <1>10, <2>5 DEF Wanted
    <3>2. CASE c.result = "RX_OK"
      <4>1. out = c.out  BY <3>2
      <4>2. Lists(out, Arrived(f))  BY <2>3, <3>1, <3>2, <4>1
      <4>3. \A k \in 1 .. Len(out) : Sound(f, n, out[k])  BY <2>3, <4>1
      <4>. HIDE DEF out
      <4>. QED  BY <4>2, <4>3, Zenon DEF HostOK, Sound
    <3>3. CASE c.result # "RX_OK"
      <4>1. out = <<>>  BY <3>3
      <4>2. ~(Unharmed(f) /\ sound)  BY <1>8, <1>10, <2>2, <3>3 DEF whole
      <4>. HIDE DEF out
      <4>. QED  BY <4>1, <4>2 DEF HostOK, n
    <3>. QED  BY <3>2, <3>3
  <2>. QED  BY <1>2, <2>4, <2>5
<1>11. CASE ~(body < 0) /\ ~f.amsdu
  <2>. DEFINE s == f.parts[1]
              h == Ethernet(1, body)
  <2>1. c.out = (IF d = "RX_OK" THEN <<h>> ELSE <<>>) /\ c.result = d  BY <1>11
  <2>2. /\ d = "RX_OK" => InTable(s.src) /\ s.llc /\ body >= LlcLen + DataLen
        /\ InTable(s.src) /\ s.llc /\ body >= LlcLen + DataLen => d = "RX_OK"
    <3>1. body \in Nat  BY <1>5, <1>11
    <3>. HIDE DEF s
    <3>. QED  BY <1>1, <3>1, RxDataFacts DEF s
  <2>3. n = 1 /\ whole = s.len  BY <1>1, <1>11 DEF whole
  <2>. HIDE DEF c, d, h, s
  <2>4. lost = 0  BY <2>1
  <2>5. LostOK(f, c.result, lost)  BY <2>4 DEF LostOK
  <2>6. ASSUME f.flags # "absent" PROVE HostOK(f, out)
    <3>1. Arrived(f) = IF InTable(s.src) THEN {1} ELSE {}
      <4>1. 1 .. n = {1}  BY <2>3
      <4>. QED  BY <1>7, <1>11, <2>6, <4>1 DEF s
    <3>2. CASE d = "RX_OK"
      <4>1. out = <<h>> /\ InTable(s.src)  BY <2>1, <2>2, <3>2
      <4>2. /\ h.part = 1
            /\ body - LlcLen - DataLen <= MaxPayload => h.payload = body - LlcLen - DataLen
        BY DEF h, Ethernet
      <4>. HIDE DEF out
      <4>3. Len(out) = 1 /\ out[1] = h  BY <4>1
      <4>4. Lists(out, Arrived(f))  BY <3>1, <4>1, <4>2, <4>3 DEF Lists
      <4>5. Fine(s) /\ (Unharmed(f) /\ s.len <= MaxPayload + LlcLen + DataLen =>
                          h.payload = s.len - LlcLen - DataLen)
        <5>1. body <= s.len /\ s.len \in Nat /\ MaxPayload \in Nat
          BY <1>1, <1>3, <1>6, <2>3, <2>6, ReceptionAssumption DEF s
        <5>2. s.llc /\ body >= LlcLen + DataLen  BY <2>2, <3>2
        <5>3. s.len >= LlcLen + DataLen  BY <1>5, <5>1, <5>2 DEF LlcLen, DataLen
        <5>4. s.len <= MaxPayload + LlcLen + DataLen => body - LlcLen - DataLen <= MaxPayload
          BY <1>5, <5>1 DEF LlcLen, DataLen
        <5>5. Unharmed(f) => body = s.len  BY <1>8, <2>3
        <5>6. Fine(s)  BY <5>2, <5>3 DEF Fine
        <5>. HIDE DEF body
        <5>. QED  BY <4>2, <5>4, <5>5, <5>6, ZenonT(40)
      <4>6. \A k \in 1 .. Len(out) : k = 1 /\ out[k].part = 1 /\ out[k] = h  BY <4>2, <4>3
      <4>. QED  BY <1>11, <4>4, <4>5, <4>6 DEF HostOK, s
    <3>3. CASE d # "RX_OK"
      <4>1. out = <<>>  BY <2>1, <3>3
      <4>2. ASSUME Unharmed(f), sound PROVE Lists(out, Arrived(f))
        <5>1. 1 \in 1 .. n  BY <2>3
        <5>2. InTable(s.src) => Fine(s)  BY <4>2, <5>1 DEF s
        <5>3. body = s.len  BY <1>8, <2>3, <4>2
        <5>4. ~InTable(s.src)  BY <2>2, <3>3, <5>2, <5>3 DEF Fine
        <5>. QED  BY <3>1, <4>1, <5>4 DEF Lists
      <4>. HIDE DEF out
      <4>. QED  BY <4>1, <4>2 DEF HostOK, n
    <3>. QED  BY <3>2, <3>3
  <2>. QED  BY <1>2, <2>5, <2>6
<1>. QED  BY <1>1, <1>9, <1>10, <1>11

-----------------------------------------------------------------------------
(***************************************************************************)
(* The inductive invariant.  That the captured frame is one the neighbour  *)
(* may send, of a generation it has had, is what the stored values rest    *)
(* on; what is said of last holds anew after every callback.               *)
(***************************************************************************)
RecInv ==
  /\ TypeOK /\ ElectionFieldsTogether /\ HostGetsFrame /\ LostOnlyIfRejected
  /\ air # None => air.frame \in ActionFrames \cup DataFrames /\ air.gen \in 1 .. gen

LEMMA RecInit == Init => RecInv
<1>. SUFFICES ASSUME Init PROVE RecInv  OBVIOUS
<1>1. gen = 1 /\ master = FALSE /\ air = None /\ known = FALSE /\ peer = NewPeer
      /\ own = [x \in SyncFields |-> Nothing] /\ last = None
  BY DEF Init
<1>2. /\ peer.v2 = FALSE /\ peer.torn = FALSE /\ peer.mif = FALSE /\ peer.enc = "opclass"
      /\ peer.info = [x \in PeerFields |-> Nothing]
  BY <1>1 DEF NewPeer
<1>3. Nothing[2] = 0  BY DEF Nothing
<1>4. \A x \in PeerFields : peer.info[x][2] \in 0 .. gen  BY <1>1, <1>2, <1>3
<1>5. \A x \in SyncFields : own[x][2] \in 0 .. gen  BY <1>1, <1>3
<1>6. gen \in Gens  BY <1>1, ReceptionAssumption
<1>7. TypeOK  BY <1>1, <1>2, <1>4, <1>5, <1>6, ZenonT(40) DEF TypeOK, Encodings
<1>. QED  BY <1>1, <1>2, <1>7 DEF RecInv, ElectionFieldsTogether, HostGetsFrame, Just, LostOnlyIfRejected

\* What awdl_rx_action starts from.
LEMMA StartOK ==
  ASSUME TypeOK, ElectionFieldsTogether
  PROVE  LET start == [info |-> [x \in PeerFields \cup SyncFields |->
                                   IF x \in PeerFields THEN peer.info[x] ELSE own[x]],
                       v2 |-> peer.v2, torn |-> peer.torn, enc |-> peer.enc,
                       master |-> master, ok |-> TRUE]
         IN  AccOK(start, gen) /\ start.ok = TRUE /\ start.master = master
<1>. DEFINE start == [info |-> [x \in PeerFields \cup SyncFields |->
                                  IF x \in PeerFields THEN peer.info[x] ELSE own[x]],
                      v2 |-> peer.v2, torn |-> peer.torn, enc |-> peer.enc,
                      master |-> master, ok |-> TRUE]
<1>. DEFINE info == [x \in PeerFields \cup SyncFields |->
                       IF x \in PeerFields THEN peer.info[x] ELSE own[x]]
<1>1. /\ DOMAIN info = StoredFields
      /\ \A x \in PeerFields : info[x] = peer.info[x]
      /\ \A x \in StoredFields : x \notin PeerFields => x \in SyncFields /\ info[x] = own[x]
  BY DEF StoredFields
<1>2. start = [info |-> info, v2 |-> peer.v2, torn |-> peer.torn, enc |-> peer.enc,
               master |-> master, ok |-> TRUE]
  OBVIOUS
<1>. HIDE DEF info, start
<1>3. /\ start.info = info /\ start.v2 = peer.v2 /\ start.torn = peer.torn
      /\ start.enc = peer.enc /\ start.master = master /\ start.ok = TRUE
  BY <1>2
<1>4. start = [info |-> start.info, v2 |-> start.v2, torn |-> start.torn, enc |-> start.enc,
               master |-> start.master, ok |-> start.ok]
  BY <1>2, <1>3
<1>5. \A x \in StoredFields : info[x][2] \in 0 .. gen  BY <1>1 DEF TypeOK
<1>6. peer.v2 \in BOOLEAN /\ peer.torn \in BOOLEAN /\ peer.enc \in Encodings  BY DEF TypeOK
<1>7. ElectionFields \subseteq PeerFields  BY DEF ElectionFields, PeerFields
<1>8. peer.v2 /\ ~peer.torn => \A y, z \in ElectionFields : info[y][2] = info[z][2]
  BY <1>1, <1>7 DEF ElectionFieldsTogether
<1>9. AccOK(start, gen)  BY <1>1, <1>3, <1>4, <1>5, <1>6, <1>8, ZenonT(40) DEF AccOK
<1>. QED  BY <1>3, <1>9 DEF start, info

\* awdl_rx_action, as to the record of the peer
LEMMA RxActionOK ==
  ASSUME NEW f \in ActionFrames, NEW len, TypeOK, ElectionFieldsTogether, air.gen \in 1 .. gen,
         RxAction(f, len), gen' = gen, master' = master
  PROVE  TypeOK' /\ ElectionFieldsTogether' /\ \E r : last' = Result(f, r, <<>>, 0)
<1>1. CASE UNCHANGED <<known, peer, own>> /\ \E r : last' = Result(f, r, <<>>, 0)
  <2>1. TypeOK'  BY <1>1 DEF TypeOK
  <2>2. ElectionFieldsTogether'  BY <1>1 DEF ElectionFieldsTogether
  <2>. QED  BY <1>1, <2>1, <2>2
<1>. DEFINE start == [info |-> [x \in PeerFields \cup SyncFields |->
                                  IF x \in PeerFields THEN peer.info[x] ELSE own[x]],
                      v2 |-> peer.v2, torn |-> peer.torn, enc |-> peer.enc,
                      master |-> master, ok |-> TRUE]
            acc == ParseTlvs(f, EffectsOf[f], air.gen, start, len - ActionLen)
            res == IF acc.ok THEN "RX_OK" ELSE "RX_UNEXPECTED_FORMAT"
<1>2. CASE /\ peer' = [info |-> [x \in PeerFields |-> acc.info[x]], v2 |-> acc.v2,
                       torn |-> acc.torn, enc |-> acc.enc, mif |-> peer.mif \/ (acc.ok /\ f.mif)]
           /\ own' = [x \in SyncFields |-> acc.info[x]]
           /\ last' = Result(f, res, <<>>, 0)
           /\ known' = TRUE
  <2>1. gen \in Nat /\ air.gen \in 0 .. gen /\ f.enc \in Encodings
    BY ReceptionAssumption DEF TypeOK
  <2>2. AccOK(start, gen)  BY StartOK
  <2>3. AccOK(acc, gen)
    <3>1. EffectsOf[f] = Effects(f)  BY DEF EffectsOf
    <3>. HIDE DEF start
    <3>. QED  BY <2>1, <2>2, <3>1, ParseTlvsOK
  <2>. HIDE DEF acc
  <2>4. /\ \A x \in PeerFields : acc.info[x][2] \in 0 .. gen
        /\ \A x \in SyncFields : acc.info[x][2] \in 0 .. gen
        /\ acc.v2 \in BOOLEAN /\ acc.torn \in BOOLEAN /\ acc.ok \in BOOLEAN /\ acc.enc \in Encodings
        /\ acc.v2 /\ ~acc.torn => \A y, z \in ElectionFields : acc.info[y][2] = acc.info[z][2]
    BY <2>3 DEF AccOK, StoredFields
  <2>. DEFINE mif == peer.mif \/ (acc.ok /\ f.mif)
  <2>5. mif \in BOOLEAN  BY Zenon
  <2>. HIDE DEF mif
  <2>6. /\ peer'.info = [x \in PeerFields |-> acc.info[x]] /\ peer'.v2 = acc.v2
        /\ peer'.torn = acc.torn /\ peer'.enc = acc.enc /\ peer'.mif = mif
    BY <1>2 DEF mif
  <2>7. \A x \in PeerFields : peer'.info[x] = acc.info[x]  BY <2>6
  <2>8. \A x \in SyncFields : own'[x] = acc.info[x]  BY <1>2
  <2>9. TypeOK'
    <3>1. gen \in Gens /\ master \in BOOLEAN  BY DEF TypeOK
    <3>2. \A x \in PeerFields : peer'.info[x][2] \in 0 .. gen'  BY <2>4, <2>7
    <3>3. \A x \in SyncFields : own'[x][2] \in 0 .. gen'  BY <2>4, <2>8
    <3>4. gen' \in Gens /\ master' \in BOOLEAN /\ known'  BY <1>2, <3>1
    <3>5. peer'.v2 \in BOOLEAN /\ peer'.torn \in BOOLEAN /\ peer'.mif \in BOOLEAN
          /\ peer'.enc \in Encodings
      BY <2>4, <2>5, <2>6
    <3>6. known' \in BOOLEAN  BY <1>2
    <3>. QED  BY <3>2, <3>3, <3>4, <3>5, <3>6, Zenon DEF TypeOK
  <2>10. ElectionFieldsTogether'
    <3>1. ElectionFields \subseteq PeerFields  BY DEF ElectionFields, PeerFields
    <3>2. peer'.v2 /\ ~peer'.torn => \A y, z \in ElectionFields : peer'.info[y][2] = peer'.info[z][2]
      BY <2>4, <2>6, <2>7, <3>1, SMTT(30)
    <3>. QED  BY <3>2, Zenon DEF ElectionFieldsTogether
  <2>. QED  BY <1>2, <2>9, <2>10
<1>3. \/ UNCHANGED <<known, peer, own>> /\ last' = Result(f, "RX_IGNORE", <<>>, 0)
      \/ UNCHANGED <<known, peer, own>> /\ last' = Result(f, "RX_IGNORE_RSSI", <<>>, 0)
      \/ UNCHANGED <<known, peer, own>> /\ last' = Result(f, "PEERS_INTERNAL", <<>>, 0)
      \/ /\ peer' = [info |-> [x \in PeerFields |-> acc.info[x]], v2 |-> acc.v2,
                     torn |-> acc.torn, enc |-> acc.enc, mif |-> peer.mif \/ (acc.ok /\ f.mif)]
         /\ own' = [x \in SyncFields |-> acc.info[x]]
         /\ last' = Result(f, res, <<>>, 0)
         /\ known' = TRUE
  BY Zenon DEF RxAction
<1>. HIDE DEF acc, start, res
<1>. QED  BY <1>1, <1>2, <1>3, Zenon

LEMMA DiscardOK ==
  ASSUME NEW f, ~Unharmed(f)
  PROVE  HostOK(f, <<>>)
BY DEF HostOK

\* awdl_receive_frame: what the host has got, and what is lost.
LEMMA ReceiveData ==
  ASSUME NEW f \in DataFrames, AwdlRx(f)
  PROVE  /\ UNCHANGED <<known, peer, own>>
         /\ \E r, out, lost :
              /\ last' = Result(f, r, out, lost) /\ LostOK(f, r, lost)
              /\ f.kind = "data" /\ f.flags # "absent" => HostOK(f, out)
<1>. DEFINE Goal == /\ UNCHANGED <<known, peer, own>>
                    /\ \E r, out, lost :
                         /\ last' = Result(f, r, out, lost) /\ LostOK(f, r, lost)
                         /\ f.kind = "data" /\ f.flags # "absent" => HostOK(f, out)
<1>1. ASSUME NEW r, Discard(f, r), f.kind = "data" /\ f.flags # "absent" => ~Unharmed(f)
      PROVE  Goal
  <2>1. last' = Result(f, r, <<>>, 0) /\ UNCHANGED <<known, peer, own>>  BY <1>1 DEF Discard
  <2>2. LostOK(f, r, 0)  BY DEF LostOK
  <2>3. f.kind = "data" /\ f.flags # "absent" => HostOK(f, <<>>)  BY <1>1, DiscardOK
  <2>. QED  BY <2>1, <2>2, <2>3
<1>2. f.kind # "action"  BY ReceptionAssumption
<1>3. CASE f.flags = "invalid"
  <2>1. Discard(f, "RX_UNEXPECTED_FORMAT")  BY <1>3 DEF AwdlRx
  <2>2. ~Unharmed(f)  BY <1>3 DEF Unharmed
  <2>. QED  BY <1>1, <2>1, <2>2
<1>4. CASE f.flags # "invalid"
  <2>1. PICK flags \in FlagsRead(f) :
          LET len == CapLen[f] - FcsLen(flags)
          IN  IF ~CheckFcs(flags, CapLen[f]) THEN Discard(f, "RX_IGNORE_FAILED_CRC")
              ELSE IF len < HdrLen THEN Discard(f, "RX_TOO_SHORT")
              ELSE IF f.from = "self" THEN Discard(f, "RX_IGNORE_FROM_SELF")
              ELSE CASE f.kind = "action" -> RxAction(f, len - HdrLen)
                     [] f.kind = "data"   -> RxDataFrame(f, len - HdrLen)
                     [] OTHER             -> Discard(f, "RX_UNEXPECTED_TYPE")
    BY <1>4, Zenon DEF AwdlRx
  <2>. DEFINE len == CapLen[f] - FcsLen(flags)
  <2>2. CASE f.kind # "data"
    <3>1. \E r : Discard(f, r)  BY <1>2, <2>1, <2>2
    <3>. QED  BY <1>1, <2>2, <3>1
  <2>3. CASE f.kind = "data"
    <3>1. /\ BodyLen(f) \in Nat
          /\ CapLen[f] = HdrLen + BodyLen(f) + FcsLen(f.flags) - f.cut /\ f.cut \in Nat
      BY <2>3, BodyFacts
    <3>2. HdrLen = 24 /\ FcsLen(flags) \in {0, 4} /\ FcsLen(f.flags) \in {0, 4}  BY DEF HdrLen, FcsLen
    <3>3. Unharmed(f) => /\ flags = f.flags /\ flags # "bad" /\ f.from # "self"
                         /\ CapLen[f] >= FcsLen(flags) /\ ~(len < HdrLen)
      <4>. SUFFICES ASSUME Unharmed(f)
                    PROVE  /\ flags = f.flags /\ flags # "bad" /\ f.from # "self"
                           /\ CapLen[f] >= FcsLen(flags) /\ ~(len < HdrLen)
        OBVIOUS
      <4>1. f.cut = 0 /\ f.flags \in {"none", "fcs"} /\ f.from # "self"  BY DEF Unharmed
      <4>2. flags = f.flags /\ flags # "bad"  BY <4>1 DEF FlagsRead
      <4>. QED  BY <3>1, <3>2, <4>1, <4>2
    <3>4. CASE ~CheckFcs(flags, CapLen[f])
      <4>1. Discard(f, "RX_IGNORE_FAILED_CRC")  BY <2>1, <3>4
      <4>2. ~Unharmed(f)  BY <3>3, <3>4 DEF CheckFcs
      <4>. QED  BY <1>1, <4>1, <4>2
    <3>5. CASE CheckFcs(flags, CapLen[f]) /\ len < HdrLen
      <4>1. Discard(f, "RX_TOO_SHORT")  BY <2>1, <3>5
      <4>2. ~Unharmed(f)  BY <3>3, <3>5
      <4>. QED  BY <1>1, <4>1, <4>2
    <3>6. CASE CheckFcs(flags, CapLen[f]) /\ ~(len < HdrLen) /\ f.from = "self"
      <4>1. Discard(f, "RX_IGNORE_FROM_SELF")  BY <2>1, <3>6
      <4>2. ~Unharmed(f)  BY <3>3, <3>6
      <4>. QED  BY <1>1, <4>1, <4>2
    <3>7. CASE CheckFcs(flags, CapLen[f]) /\ ~(len < HdrLen) /\ f.from # "self"
      <4>1. RxDataFrame(f, len - HdrLen)  BY <2>1, <2>3, <3>7
      <4>2. len - HdrLen \in Nat /\ len - HdrLen = CapLen[f] - FcsLen(flags) - HdrLen
        BY <3>1, <3>2, <3>7
      <4>3. UNCHANGED <<known, peer, own>>  BY <4>1, ZenonT(40) DEF RxDataFrame
      <4>. HIDE DEF len
      <4>. DEFINE b == len - HdrLen
      <4>. HIDE DEF b
      <4>4. RxDataFrame(f, b) /\ b \in Nat /\ b = CapLen[f] - FcsLen(flags) - HdrLen
        BY <4>1, <4>2 DEF b
      <4>5. \E r, out, lost :
              /\ last' = Result(f, r, out, lost) /\ LostOK(f, r, lost)
              /\ f.flags # "absent" => HostOK(f, out)
        BY <2>3, <4>4, RxDataFrameOK, ZenonT(40)
      <4>. QED  BY <4>3, <4>5
    <3>. QED  BY <3>4, <3>5, <3>6, <3>7
  <2>. QED  BY <2>2, <2>3
<1>. QED  BY <1>3, <1>4

\* The same for an action frame: nothing for the host.
LEMMA ReceiveAction ==
  ASSUME NEW f \in ActionFrames, AwdlRx(f), TypeOK, ElectionFieldsTogether,
         air.gen \in 1 .. gen, gen' = gen, master' = master
  PROVE  TypeOK' /\ ElectionFieldsTogether' /\ \E r : last' = Result(f, r, <<>>, 0)
<1>1. (\E r : Discard(f, r)) \/ \E len : RxAction(f, len)
  <2>1. f.kind = "action"  BY ReceptionAssumption
  <2>2. CASE f.flags = "invalid"  BY <2>2 DEF AwdlRx
  <2>3. CASE f.flags # "invalid"
    <3>1. PICK flags \in FlagsRead(f) :
            LET len == CapLen[f] - FcsLen(flags)
            IN  IF ~CheckFcs(flags, CapLen[f]) THEN Discard(f, "RX_IGNORE_FAILED_CRC")
                ELSE IF len < HdrLen THEN Discard(f, "RX_TOO_SHORT")
                ELSE IF f.from = "self" THEN Discard(f, "RX_IGNORE_FROM_SELF")
                ELSE CASE f.kind = "action" -> RxAction(f, len - HdrLen)
                       [] f.kind = "data"   -> RxDataFrame(f, len - HdrLen)
                       [] OTHER             -> Discard(f, "RX_UNEXPECTED_TYPE")
      BY <2>3, Zenon DEF AwdlRx
    <3>. QED  BY <2>1, <3>1
  <2>. QED  BY <2>2, <2>3
<1>2. CASE \E r : Discard(f, r)
  <2>1. PICK r : Discard(f, r)  BY <1>2
  <2>2. last' = Result(f, r, <<>>, 0) /\ UNCHANGED <<known, peer, own>>  BY <2>1 DEF Discard
  <2>3. TypeOK'  BY <2>2 DEF TypeOK
  <2>4. ElectionFieldsTogether'  BY <2>2 DEF ElectionFieldsTogether
  <2>. QED  BY <2>2, <2>3, <2>4
<1>3. CASE \E len : RxAction(f, len)
  <2>1. PICK len : RxAction(f, len)  BY <1>3
  <2>. QED  BY <2>1, RxActionOK
<1>. QED  BY <1>1, <1>2, <1>3

LEMMA ReceiveFrameOK ==
  ASSUME RecInv, ReceiveFrame
  PROVE  RecInv'
<1>1. PICK f : /\ AwdlRx(f) /\ air' = None /\ gen' = gen /\ master' = master
               /\ f \in ActionFrames \cup DataFrames /\ air.gen \in 1 .. gen
               /\ TypeOK /\ ElectionFieldsTogether
  BY DEF ReceiveFrame, RecInv
<1>2. CASE f \in DataFrames
  <2>1. UNCHANGED <<known, peer, own>>  BY <1>1, <1>2, ReceiveData
  <2>2. PICK r, out, lost : /\ last' = Result(f, r, out, lost) /\ LostOK(f, r, lost)
                            /\ f.kind = "data" /\ f.flags # "absent" => HostOK(f, out)
    BY <1>1, <1>2, ReceiveData
  <2>3. last'.frame = f /\ last'.out = out /\ last'.result = r /\ last'.lost = lost
    BY <2>2 DEF Result
  <2>4. TypeOK'  BY <1>1, <2>1 DEF TypeOK
  <2>5. ElectionFieldsTogether'  BY <2>1 DEF ElectionFieldsTogether, TypeOK, RecInv
  <2>6. LostOnlyIfRejected'  BY <2>2, <2>3 DEF LostOnlyIfRejected, LostOK
  <2>7. HostGetsFrame'
    <3>1. \A src : InTable(src)' <=> InTable(src)  BY <2>1 DEF InTable
    <3>2. Arrived(f)' = Arrived(f)  BY <2>1 DEF Arrived, InTable
    <3>3. ASSUME f.kind = "data", f.flags # "absent"
          PROVE  /\ out # <<>> => Lists(out, Arrived(f)')
                 /\ Unharmed(f) /\ (\A i \in 1 .. Len(f.parts) :
                                      InTable(f.parts[i].src)' => Fine(f.parts[i]))
                      => Lists(out, Arrived(f)')
                 /\ \A k \in 1 .. Len(out) :
                      /\ Fine(f.parts[out[k].part])
                      /\ (f.amsdu \/ Unharmed(f))
                         /\ f.parts[out[k].part].len <= MaxPayload + LlcLen + DataLen =>
                           out[k].payload = f.parts[out[k].part].len - LlcLen - DataLen
      BY <2>2, <3>1, <3>2, <3>3, Zenon DEF HostOK
    <3>. QED  BY <2>3, <3>3 DEF HostGetsFrame, Just, Arrived, InTable
  <2>. QED  BY <1>1, <2>4, <2>5, <2>6, <2>7 DEF RecInv
<1>3. CASE f \in ActionFrames
  <2>1. TypeOK' /\ ElectionFieldsTogether'  BY <1>1, <1>3, ReceiveAction
  <2>2. PICK r : last' = Result(f, r, <<>>, 0)  BY <1>1, <1>3, ReceiveAction
  <2>3. last'.frame = f /\ last'.lost = 0  BY <2>2 DEF Result
  <2>4. f.kind = "action"  BY <1>3, ReceptionAssumption
  <2>5. HostGetsFrame'  BY <2>3, <2>4 DEF HostGetsFrame, Just
  <2>6. LostOnlyIfRejected'  BY <2>3 DEF LostOnlyIfRejected
  <2>. QED  BY <1>1, <2>1, <2>5, <2>6 DEF RecInv
<1>. QED  BY <1>1, <1>2, <1>3

LEMMA RecNext == RecInv /\ [Next]_vars => RecInv'
<1>. SUFFICES ASSUME RecInv, [Next]_vars PROVE RecInv'  OBVIOUS
<1>1. /\ TypeOK /\ ElectionFieldsTogether /\ HostGetsFrame /\ LostOnlyIfRejected
      /\ air # None => air.frame \in ActionFrames \cup DataFrames /\ air.gen \in 1 .. gen
  BY DEF RecInv
<1>2. gen \in Nat \ {0}  BY <1>1, ReceptionAssumption DEF TypeOK
<1>3. ASSUME last' = None PROVE HostGetsFrame' /\ LostOnlyIfRejected'
  BY <1>3 DEF HostGetsFrame, Just, LostOnlyIfRejected
<1>4. ASSUME NEW f \in ActionFrames \cup DataFrames, Send(f) PROVE RecInv'
  <2>1. /\ air' = [frame |-> f, gen |-> gen] /\ last' = None
        /\ UNCHANGED <<gen, master, known, peer, own>>
    BY <1>4 DEF Send
  <2>2. TypeOK'  BY <1>1, <2>1 DEF TypeOK
  <2>3. ElectionFieldsTogether'  BY <1>1, <2>1 DEF ElectionFieldsTogether
  <2>4. air'.frame = f /\ air'.gen \in 1 .. gen'  BY <1>2, <2>1
  <2>. QED  BY <1>3, <2>1, <2>2, <2>3, <2>4 DEF RecInv
<1>5. CASE ReceiveFrame  BY <1>5, ReceiveFrameOK
<1>6. CASE Return
  <2>1. last' = None /\ UNCHANGED <<gen, master, air, known, peer, own>>  BY <1>6 DEF Return
  <2>2. TypeOK'  BY <1>1, <2>1 DEF TypeOK
  <2>3. ElectionFieldsTogether'  BY <1>1, <2>1 DEF ElectionFieldsTogether
  <2>. QED  BY <1>1, <1>3, <2>1, <2>2, <2>3 DEF RecInv
<1>7. CASE NeighbourChanges
  <2>1. /\ gen' = gen + 1 /\ gen' \in Gens /\ last' = None
        /\ UNCHANGED <<master, air, known, peer, own>>
    BY <1>7 DEF NeighbourChanges
  <2>2. \A g : g \in 0 .. gen => g \in 0 .. gen'  BY <1>2, <2>1
  <2>3. TypeOK'
    <3>1. \A x \in PeerFields : peer'.info[x][2] \in 0 .. gen'  BY <1>1, <2>1, <2>2 DEF TypeOK
    <3>2. \A x \in SyncFields : own'[x][2] \in 0 .. gen'  BY <1>1, <2>1, <2>2 DEF TypeOK
    <3>. QED  BY <1>1, <2>1, <3>1, <3>2 DEF TypeOK
  <2>4. ElectionFieldsTogether'  BY <1>1, <2>1 DEF ElectionFieldsTogether
  <2>5. air' # None => air'.frame \in ActionFrames \cup DataFrames /\ air'.gen \in 1 .. gen'
    BY <1>1, <1>2, <2>1
  <2>. QED  BY <1>3, <2>1, <2>3, <2>4, <2>5 DEF RecInv
<1>8. CASE Elect
  <2>1. known /\ master' = ~master /\ last' = None /\ UNCHANGED <<gen, air, known, peer, own>>
    BY <1>8 DEF Elect
  <2>2. TypeOK'  BY <1>1, <2>1 DEF TypeOK
  <2>3. ElectionFieldsTogether'  BY <1>1, <2>1 DEF ElectionFieldsTogether
  <2>. QED  BY <1>1, <1>3, <2>1, <2>2, <2>3 DEF RecInv
<1>9. CASE Forget
  <2>1. /\ known' = FALSE /\ peer' = NewPeer /\ master' = FALSE /\ last' = None
        /\ UNCHANGED <<gen, air, own>>
    BY <1>9 DEF Forget
  <2>2. /\ peer'.v2 = FALSE /\ peer'.torn = FALSE /\ peer'.mif = FALSE /\ peer'.enc = "opclass"
        /\ peer'.info = [x \in PeerFields |-> Nothing]
    BY <2>1 DEF NewPeer
  <2>3. \A x \in PeerFields : peer'.info[x][2] \in 0 .. gen'
    <3>1. Nothing[2] = 0  BY DEF Nothing
    <3>. QED  BY <1>2, <2>1, <2>2, <3>1
  <2>4. TypeOK'  BY <1>1, <2>1, <2>2, <2>3, ZenonT(40) DEF TypeOK, Encodings
  <2>5. ElectionFieldsTogether'  BY <2>2 DEF ElectionFieldsTogether
  <2>. QED  BY <1>1, <1>3, <2>1, <2>4, <2>5 DEF RecInv
<1>10. CASE UNCHANGED vars
  <2>1. UNCHANGED <<gen, master, air, known, peer, own, last>>  BY <1>10 DEF vars
  <2>2. TypeOK'  BY <1>1, <2>1 DEF TypeOK
  <2>3. ElectionFieldsTogether'  BY <1>1, <2>1 DEF ElectionFieldsTogether
  <2>4. HostGetsFrame'  BY <1>1, <2>1, ZenonT(40) DEF HostGetsFrame, Just, Arrived, InTable
  <2>5. LostOnlyIfRejected'  BY <1>1, <2>1 DEF LostOnlyIfRejected
  <2>. QED  BY <1>1, <2>1, <2>2, <2>3, <2>4, <2>5 DEF RecInv
<1>. QED  BY <1>4, <1>5, <1>6, <1>7, <1>8, <1>9, <1>10 DEF Next

LEMMA RecAlways == Spec => []RecInv
BY RecInit, RecNext, PTL DEF Spec

\* Every stored value is of a generation the neighbour has had, and no node
\* that is not in the table is our master: for every set of frames.
THEOREM ReceptionTypes == Spec => []TypeOK
<1>1. RecInv => TypeOK  BY DEF RecInv
<1>. QED  BY <1>1, RecAlways, PTL

\* The election sees the parameters of two frames mixed only after the TLV of
\* the second form has itself come too short, however the frames are cut,
\* whatever TLVs are wrong and in whichever order the frames come.
THEOREM ElectionFieldsKept == Spec => []ElectionFieldsTogether
<1>1. RecInv => ElectionFieldsTogether  BY DEF RecInv
<1>. QED  BY <1>1, RecAlways, PTL

\* The host gets the parts of a data frame that are from peers, in order and
\* each once, or none of a frame that is not sound: for aggregates of any
\* number of parts that there is room for, of any length, wherever they are
\* cut.
THEOREM HostGetsFrames == Spec => []HostGetsFrame
<1>1. RecInv => HostGetsFrame  BY DEF RecInv
<1>. QED  BY <1>1, RecAlways, PTL

\* Frames that are neither passed on nor freed come from aggregates that are
\* rejected.
THEOREM LostFramesRejected == Spec => []LostOnlyIfRejected
<1>1. RecInv => LostOnlyIfRejected  BY DEF RecInv
<1>. QED  BY <1>1, RecAlways, PTL

-----------------------------------------------------------------------------
\* Each of them is stored by the handler of a TLV in the frame.
LEMMA CarriedTaken ==
  ASSUME NEW f \in ActionFrames, NEW x \in Carries[f]
  PROVE  \E j \in 1 .. Len(Types(f.mif)) :
            Types(f.mif)[j] \notin {"sync", "election"} /\ x \in Targets(Types(f.mif)[j], f)
<1>. DEFINE types == Types(f.mif)
<1>1. PICK i \in 1 .. Len(types) :
        x \in PeerFields /\ \E k \in 1 .. Len(Layout(types[i], f)) : Layout(types[i], f)[k].name = x
  BY DEF Carries
<1>2. PICK k \in 1 .. Len(Layout(types[i], f)) : Layout(types[i], f)[k].name = x  BY <1>1
<1>3. /\ types[i] \in TlvTypes /\ types[3] = "chanseq" /\ types[4] = "v2"
      /\ 3 \in 1 .. Len(types) /\ 4 \in 1 .. Len(types)
  BY TypesFacts
<1>. HIDE DEF types
<1>4. /\ types[i] \in {"sync", "chanseq"} => x = "sequence"
      /\ types[i] \in {"election", "v2"} => x \in ElectionFields
      /\ types[i] \notin {"service", "ht"}
      /\ types[i] = "arpa" => x = "name"
      /\ types[i] = "data_path" => x = "country_code" \/ (f.infra /\ x = "infra_addr")
      /\ types[i] = "version" => x \in {"version", "devclass"}
  BY <1>1, <1>2, <1>3, LayoutNames, SMTT(30)
<1>5. CASE types[i] \in {"sync", "chanseq"}
  <2>1. x \in Targets(types[3], f)  BY <1>3, <1>4, <1>5, TargetsFacts
  <2>. QED  BY <1>3, <2>1 DEF types
<1>6. CASE types[i] \in {"election", "v2"}
  <2>1. x \in Targets(types[4], f)  BY <1>3, <1>4, <1>6, TargetsFacts
  <2>. QED  BY <1>3, <2>1 DEF types
<1>7. CASE types[i] \in {"arpa", "data_path", "version"}
  <2>1. x \in Targets(types[i], f)  BY <1>4, <1>7, TargetsFacts
  <2>. QED  BY <1>7, <2>1 DEF types
<1>. QED  BY <1>3, <1>4, <1>5, <1>6, <1>7 DEF TlvTypes

-----------------------------------------------------------------------------
\* What FrameUnderstood says of frame f, of generation g, with result r.
Understands(f, g, r) ==
  r \notin {"RX_IGNORE_RSSI", "PEERS_INTERNAL"} =>
    /\ r = "RX_OK" /\ known'
    /\ \A x \in Carries[f] : peer'.info[x] = <<x, g>>
    /\ f.mif => peer'.mif
    /\ master' => \A x \in SyncFields : own'[x] = <<x, g>>

LEMMA RxActionUnderstands ==
  ASSUME NEW f \in ActionFrames, WellFormed(f), TypeOK, ElectionFieldsTogether,
         air.gen \in 1 .. gen, RxAction(f, ActionLen + FrameLen(f)), master' = master
  PROVE  \E r : last' = Result(f, r, <<>>, 0) /\ Understands(f, air.gen, r)
<1>. DEFINE start == [info |-> [x \in PeerFields \cup SyncFields |->
                                  IF x \in PeerFields THEN peer.info[x] ELSE own[x]],
                      v2 |-> peer.v2, torn |-> peer.torn, enc |-> peer.enc,
                      master |-> master, ok |-> TRUE]
            g == air.gen
            len == ActionLen + FrameLen(f)
            acc == ParseTlvs(f, EffectsOf[f], g, start, len - ActionLen)
            res == IF acc.ok THEN "RX_OK" ELSE "RX_UNEXPECTED_FORMAT"
<1>1. Regular(f)  BY ReceptionAssumption DEF WellFormed, Regular
<1>2. FrameLen(f) \in Nat  BY <1>1, EndOfFacts
<1>3. ValidAction(f, len) /\ len - ActionLen = FrameLen(f)
  BY <1>2 DEF ValidAction, ActionLen, WellFormed
<1>4. \/ last' = Result(f, "RX_IGNORE_RSSI", <<>>, 0)
      \/ last' = Result(f, "PEERS_INTERNAL", <<>>, 0)
      \/ /\ peer' = [info |-> [x \in PeerFields |-> acc.info[x]], v2 |-> acc.v2,
                     torn |-> acc.torn, enc |-> acc.enc, mif |-> peer.mif \/ (acc.ok /\ f.mif)]
         /\ own' = [x \in SyncFields |-> acc.info[x]]
         /\ last' = Result(f, res, <<>>, 0)
         /\ known' = TRUE
  BY <1>3, Zenon DEF RxAction
<1>5. CASE last' = Result(f, "RX_IGNORE_RSSI", <<>>, 0)
  <2>1. Understands(f, air.gen, "RX_IGNORE_RSSI")  BY DEF Understands
  <2>. QED  BY <1>5, <2>1
<1>7. CASE last' = Result(f, "PEERS_INTERNAL", <<>>, 0)
  <2>1. Understands(f, air.gen, "PEERS_INTERNAL")  BY DEF Understands
  <2>. QED  BY <1>7, <2>1
<1>6. CASE /\ peer' = [info |-> [x \in PeerFields |-> acc.info[x]], v2 |-> acc.v2,
                       torn |-> acc.torn, enc |-> acc.enc, mif |-> peer.mif \/ (acc.ok /\ f.mif)]
           /\ own' = [x \in SyncFields |-> acc.info[x]]
           /\ last' = Result(f, res, <<>>, 0)
           /\ known' = TRUE
  <2>1. gen \in Nat /\ g \in 0 .. gen  BY ReceptionAssumption DEF TypeOK
  <2>2. AccOK(start, gen) /\ start.ok = TRUE /\ start.master = master
    BY StartOK, ZenonT(40)
  <2>3. acc = ParseTlvs(f, Effects(f), g, start, FrameLen(f))
    <3>1. EffectsOf[f] = Effects(f)  BY DEF EffectsOf
    <3>. HIDE DEF start, len
    <3>. QED  BY <1>3, <3>1
  <2>. HIDE DEF start, acc, len, g
  <2>4. /\ acc.ok = TRUE
        /\ \A j \in 1 .. Len(Types(f.mif)), y \in StoredFields :
             Taken(Types(f.mif)[j], start) /\ y \in Targets(Types(f.mif)[j], f)
               => acc.info[y] = <<y, g>>
    BY <1>1, <2>1, <2>2, <2>3, ParseRegular, ZenonT(30)
  <2>5. res = "RX_OK"  BY <2>4
  <2>6. \A x \in PeerFields : peer'.info[x] = acc.info[x]
    <3>1. peer'.info = [x \in PeerFields |-> acc.info[x]]  BY <1>6
    <3>. QED  BY <3>1
  <2>7. ASSUME NEW x \in Carries[f] PROVE peer'.info[x] = <<x, g>>
    <3>1. x \in PeerFields /\ x \in StoredFields  BY DEF Carries, StoredFields
    <3>2. PICK j \in 1 .. Len(Types(f.mif)) :
            Types(f.mif)[j] \notin {"sync", "election"} /\ x \in Targets(Types(f.mif)[j], f)
      BY CarriedTaken
    <3>3. Taken(Types(f.mif)[j], start)  BY <3>2 DEF Taken
    <3>4. acc.info[x] = <<x, g>>  BY <2>4, <3>1, <3>2, <3>3
    <3>. QED  BY <2>6, <3>1, <3>4
  <2>8. ASSUME master, NEW x \in SyncFields PROVE own'[x] = <<x, g>>
    <3>1. x \in StoredFields  BY DEF StoredFields
    <3>2. Types(f.mif)[1] = "sync" /\ 1 \in 1 .. Len(Types(f.mif))  BY TypesFacts
    <3>3. Taken(Types(f.mif)[1], start)  BY <2>2, <2>8, <3>2 DEF Taken
    <3>4. x \in Targets(Types(f.mif)[1], f)  BY <3>2, TargetsFacts
    <3>5. acc.info[x] = <<x, g>>  BY <2>4, <3>1, <3>2, <3>3, <3>4
    <3>. QED  BY <1>6, <3>5, ZenonT(40)
  <2>9. f.mif => peer'.mif
    <3>. DEFINE mif == peer.mif \/ (acc.ok /\ f.mif)
    <3>1. f.mif => mif  BY <2>4
    <3>. HIDE DEF mif
    <3>2. peer'.mif = mif  BY <1>6 DEF mif
    <3>. QED  BY <3>1, <3>2
  <2>10. known'  BY <1>6
  <2>. HIDE DEF res
  <2>11. Understands(f, g, res)
    BY <2>5, <2>7, <2>8, <2>9, <2>10, Zenon DEF Understands
  <2>. QED  BY <1>6, <2>11 DEF g
<1>. HIDE DEF acc, start, res, len
<1>. QED  BY <1>4, <1>5, <1>6, <1>7, ZenonT(40)

LEMMA ReceiveUnderstands ==
  ASSUME RecInv, ReceiveFrame
  PROVE  FrameUnderstood'
<1>1. PICK f : /\ f = air.frame /\ AwdlRx(f) /\ master' = master
               /\ f \in ActionFrames \cup DataFrames /\ air.gen \in 1 .. gen
               /\ TypeOK /\ ElectionFieldsTogether
  BY DEF ReceiveFrame, RecInv
<1>2. CASE f \in DataFrames
  <2>1. \E r, out, lost : last' = Result(f, r, out, lost)  BY <1>1, <1>2, ReceiveData
  <2>2. last'.frame = f  BY <2>1 DEF Result
  <2>3. f.kind # "action"  BY <1>2, ReceptionAssumption
  <2>. QED  BY <2>2, <2>3 DEF FrameUnderstood, Just
<1>3. CASE f \in ActionFrames /\ ~WellFormed(f)
  <2>1. gen' = gen  BY DEF ReceiveFrame
  <2>2. PICK r : last' = Result(f, r, <<>>, 0)  BY <1>1, <1>3, <2>1, ReceiveAction
  <2>3. last'.frame = f  BY <2>2 DEF Result
  <2>. QED  BY <1>3, <2>3 DEF FrameUnderstood
<1>4. CASE f \in ActionFrames /\ WellFormed(f)
  <2>1. f.kind = "action" /\ f.cut = 0 /\ f.flags \in {"none", "fcs"} /\ f.from # "self"
    BY <1>4, ReceptionAssumption DEF WellFormed, Unharmed
  <2>2. FrameLen(f) \in Nat
    <3>1. Regular(f)  BY <1>4, ReceptionAssumption DEF WellFormed, Regular
    <3>. QED  BY <3>1, EndOfFacts
  <2>. DEFINE fcs == FcsLen(f.flags)
              body == ActionLen + FrameLen(f)
  <2>3. fcs \in {0, 4} /\ HdrLen = 24 /\ ActionLen = 16  BY DEF FcsLen, HdrLen, ActionLen
  <2>4. CapLen[f] = HdrLen + BodyLen(f) + fcs - f.cut  BY <1>4 DEF CapLen
  <2>5. BodyLen(f) = body  BY <2>1 DEF BodyLen
  <2>6. FlagsRead(f) = {f.flags} /\ f.flags # "invalid"  BY <2>1 DEF FlagsRead
  <2>. DEFINE len == CapLen[f] - fcs
  <2>7. /\ CapLen[f] >= fcs /\ ~(len < HdrLen) /\ len - HdrLen = body
    <3>. HIDE DEF fcs
    <3>. QED  BY <2>1, <2>2, <2>3, <2>4, <2>5
  <2>8. CheckFcs(f.flags, CapLen[f])  BY <2>1, <2>7 DEF CheckFcs
  <2>9. RxAction(f, len - HdrLen)
    <3>1. IF ~CheckFcs(f.flags, CapLen[f]) THEN Discard(f, "RX_IGNORE_FAILED_CRC")
          ELSE IF len < HdrLen THEN Discard(f, "RX_TOO_SHORT")
          ELSE IF f.from = "self" THEN Discard(f, "RX_IGNORE_FROM_SELF")
          ELSE CASE f.kind = "action" -> RxAction(f, len - HdrLen)
                 [] f.kind = "data"   -> RxDataFrame(f, len - HdrLen)
                 [] OTHER             -> Discard(f, "RX_UNEXPECTED_TYPE")
      BY <1>1, <2>6, Zenon DEF AwdlRx
    <3>. HIDE DEF len
    <3>. QED  BY <2>1, <2>7, <2>8, <3>1
  <2>10. RxAction(f, body)
    <3>. HIDE DEF len, body
    <3>. QED  BY <2>7, <2>9
  <2>11. PICK r : last' = Result(f, r, <<>>, 0) /\ Understands(f, air.gen, r)
    BY <1>1, <1>4, <2>10, RxActionUnderstands
  <2>12. last'.frame = f /\ last'.gen = air.gen /\ last'.result = r  BY <2>11 DEF Result
  <2>. QED  BY <2>11, <2>12 DEF FrameUnderstood, Understands
<1>. QED  BY <1>1, <1>2, <1>3, <1>4

LEMMA UnderstoodNext == RecInv /\ FrameUnderstood /\ [Next]_vars => FrameUnderstood'
<1>. SUFFICES ASSUME RecInv, FrameUnderstood, [Next]_vars PROVE FrameUnderstood'  OBVIOUS
<1>1. ASSUME last' = None PROVE FrameUnderstood'
  BY <1>1 DEF FrameUnderstood, Just
<1>2. CASE ReceiveFrame  BY <1>2, ReceiveUnderstands
<1>3. CASE UNCHANGED vars
  BY <1>3 DEF vars, FrameUnderstood, Just
<1>4. CASE \/ \E f \in ActionFrames \cup DataFrames : Send(f)
           \/ Return \/ NeighbourChanges \/ Elect \/ Forget
  BY <1>1, <1>4 DEF Send, Return, NeighbourChanges, Elect, Forget
<1>. QED  BY <1>2, <1>3, <1>4 DEF Next

\* A frame that keeps to the structures and arrives whole is accepted or
\* filtered, and each field it carries is then stored under its own name as
\* of this frame: in every encoding of the channels, with every name that
\* fits, with and without the infrastructure, and after whatever frames.
THEOREM FramesUnderstood == Spec => []FrameUnderstood
<1>1. Init => FrameUnderstood  BY DEF Init, FrameUnderstood, Just
<1>. QED  BY <1>1, RecAlways, UnderstoodNext, PTL DEF Spec

=============================================================================

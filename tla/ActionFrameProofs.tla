-------------------------- MODULE ActionFrameProofs --------------------------
(***************************************************************************)
(* What the parser of action frames stores, for every frame: whatever its  *)
(* fields, however short its TLVs and wherever it is cut.                  *)
(***************************************************************************)
EXTENDS ActionFrame, WellFoundedInduction, TLAPS

\* Induction up to n, with the property given by the set of its numbers.
LEMMA UpTo ==
  ASSUME NEW n \in Nat, NEW T, 0 \in T, \A i \in 1 .. n : i - 1 \in T => i \in T
  PROVE  \A i \in 0 .. n : i \in T
<1>. DEFINE B == {i \in 0 .. n : i \notin T}
<1>. SUFFICES ASSUME B # {} PROVE FALSE  OBVIOUS
<1>1. B \subseteq Nat  OBVIOUS
<1>2. PICK i \in B : \A j \in B : ~(<<j, i>> \in OpToRel(<, Nat))
  BY <1>1, WFMin, NatLessThanWellFounded, Zenon
<1>3. i \in Nat /\ i # 0 /\ i - 1 \in Nat /\ i - 1 < i /\ i \in 1 .. n
  <2>1. i \in 0 .. n /\ i # 0  OBVIOUS
  <2>. QED  BY <2>1
<1>4. <<i - 1, i>> \in OpToRel(<, Nat)  BY <1>3 DEF OpToRel
<1>5. i - 1 \notin B  BY <1>2, <1>4, Zenon
<1>6. i - 1 \in 0 .. n  BY <1>3
<1>. QED  BY <1>2, <1>3, <1>5, <1>6, Zenon

-----------------------------------------------------------------------------
\* One round of the loop of awdl_rx_action.
ParseStep(f, effects, g, len, i, x) ==
  IF effects[i].end > len THEN x ELSE HandleTlv(f, g, x, effects[i])

\* What the loop has got to after each of n rounds.
IsParsed(f, effects, g, acc, len, n, p) ==
  p = [i \in 0 .. n |-> IF i = 0 THEN acc ELSE ParseStep(f, effects, g, len, i, p[i - 1])]

LEMMA ParsedExists ==
  ASSUME NEW f, NEW effects, NEW g, NEW acc, NEW len, NEW n \in Nat
  PROVE  \E p : IsParsed(f, effects, g, acc, len, n, p)
<1>. DEFINE Is(k, p) == p = [i \in 0 .. k |-> IF i = 0 THEN acc
                                             ELSE ParseStep(f, effects, g, len, i, p[i - 1])]
            T == {k \in 0 .. n : \E p : Is(k, p)}
<1>1. 0 \in T
  <2>. DEFINE p == [i \in 0 .. 0 |-> acc]
  <2>1. \A i \in 0 .. 0 : i = 0  OBVIOUS
  <2>2. Is(0, p)  BY <2>1
  <2>3. \E r : Is(0, r)  BY <2>2, Zenon
  <2>. QED  BY <2>3
<1>2. ASSUME NEW k \in 1 .. n, k - 1 \in T PROVE k \in T
  <2>1. PICK p : Is(k - 1, p)  BY <1>2
  <2>. DEFINE q == [i \in 0 .. k |-> IF i = k THEN ParseStep(f, effects, g, len, k, p[k - 1])
                                     ELSE p[i]]
  <2>2. \A i \in 0 .. k - 1 : p[i] = IF i = 0 THEN acc
                                     ELSE ParseStep(f, effects, g, len, i, p[i - 1])
    BY <2>1
  <2>3. ASSUME NEW i \in 0 .. k
        PROVE  q[i] = IF i = 0 THEN acc ELSE ParseStep(f, effects, g, len, i, q[i - 1])
    <3>1. CASE i = k
      <4>1. i # 0 /\ i - 1 \in 0 .. k /\ i - 1 # k  BY <3>1
      <4>2. q[i - 1] = p[i - 1]  BY <4>1
      <4>. QED  BY <3>1, <4>1, <4>2
    <3>2. CASE i # k
      <4>1. i \in 0 .. k - 1  BY <3>2
      <4>2. q[i] = p[i]  BY <3>2
      <4>3. i # 0 => i - 1 \in 0 .. k /\ i - 1 # k  BY <4>1
      <4>4. i # 0 => q[i - 1] = p[i - 1]  BY <4>3
      <4>. HIDE DEF q
      <4>. QED  BY <2>2, <4>1, <4>2, <4>4
    <3>. QED  BY <3>1, <3>2
  <2>4. q = [i \in 0 .. k |-> q[i]]  OBVIOUS
  <2>. HIDE DEF q
  <2>5. Is(k, q)  BY <2>3, <2>4, Zenon
  <2>. QED  BY <2>5
<1>. HIDE DEF T
<1>3. n \in T  BY <1>1, <1>2, UpTo
<1>. QED  BY <1>3, Zenon DEF T, IsParsed

LEMMA ParsedRounds ==
  ASSUME NEW f, NEW effects, NEW g, NEW acc, NEW len, Len(effects) \in Nat
  PROVE  \E p : /\ p[0] = acc
                /\ \A i \in 1 .. Len(effects) :
                     p[i] = ParseStep(f, effects, g, len, i, p[i - 1])
                /\ ParseTlvs(f, effects, g, acc, len) =
                     [p[Len(effects)] EXCEPT
                        !.ok = @ /\ \E e \in {0} \cup {effects[i].end : i \in DOMAIN effects} : e = len]
<1>. DEFINE n == Len(effects)
            p == CHOOSE p : p = [i \in 0 .. n |->
                                   IF i = 0 THEN acc
                                   ELSE IF effects[i].end > len THEN p[i - 1]
                                   ELSE HandleTlv(f, g, p[i - 1], effects[i])]
<1>1. \E q : q = [i \in 0 .. n |-> IF i = 0 THEN acc
                                   ELSE IF effects[i].end > len THEN q[i - 1]
                                   ELSE HandleTlv(f, g, q[i - 1], effects[i])]
  <2>1. n \in Nat  OBVIOUS
  <2>. HIDE DEF n
  <2>2. PICK q : IsParsed(f, effects, g, acc, len, n, q)  BY <2>1, ParsedExists, Zenon
  <2>. QED  BY <2>2, Zenon DEF IsParsed, ParseStep
<1>2. p = [i \in 0 .. n |-> IF i = 0 THEN acc
                            ELSE IF effects[i].end > len THEN p[i - 1]
                            ELSE HandleTlv(f, g, p[i - 1], effects[i])]
  BY <1>1
<1>3. ParseTlvs(f, effects, g, acc, len) =
        [p[n] EXCEPT !.ok = @ /\ \E e \in {0} \cup {effects[i].end : i \in DOMAIN effects} : e = len]
  BY DEF ParseTlvs
<1>. HIDE DEF p
<1>4. p[0] = acc  BY <1>2
<1>5. ASSUME NEW i \in 1 .. n PROVE p[i] = ParseStep(f, effects, g, len, i, p[i - 1])
  <2>1. i \in 0 .. n /\ i # 0  OBVIOUS
  <2>. QED  BY <1>2, <2>1, Zenon DEF ParseStep
<1>. QED  BY <1>3, <1>4, <1>5, Zenon

-----------------------------------------------------------------------------
\* No handler but those of the election parameters stores one of them.
LEMMA OtherReads ==
  ASSUME NEW f, NEW type, type \notin {"v2", "election"},
         NEW k \in 1 .. Len(Reads(type, f))
  PROVE  Reads(type, f)[k].to \notin ElectionFields
<1>. USE DEF ElectionFields, Read, Skip, Check
<1>1. CASE type = "sync"
  <2>1. Reads(type, f) = SyncReads  BY <1>1 DEF Reads
  <2>. QED  BY <2>1 DEF SyncReads
<1>2. CASE type = "chanseq"
  <2>1. Reads(type, f) = ChanseqReads(f)  BY <1>2 DEF Reads
  <2>. QED  BY <2>1 DEF ChanseqReads
<1>3. CASE type = "arpa"
  <2>1. Reads(type, f) = ArpaReads(f)  BY <1>3 DEF Reads
  <2>. QED  BY <2>1 DEF ArpaReads
<1>4. CASE type = "data_path"
  <2>. DEFINE s == <<Read(0, 2, Skip), Read(2, 3, "country_code"), Read(5, 2, Skip)>>
              t == IF f.infra
                   THEN <<Read(7, 6, Skip), Read(13, 2, Skip), Read(15, 6, "infra_addr"),
                          Read(21, 6, Skip)>>
                   ELSE <<Read(7, 6, Skip)>>
  <2>1. Reads(type, f) = s \o t  BY <1>4 DEF Reads, DataPathReads
  <2>2. \A j \in 1 .. Len(s) : s[j].to \notin ElectionFields  OBVIOUS
  <2>3. \A j \in 1 .. Len(t) : t[j].to \notin ElectionFields  OBVIOUS
  <2>4. \/ k \in 1 .. Len(s) /\ (s \o t)[k] = s[k]
        \/ k - Len(s) \in 1 .. Len(t) /\ (s \o t)[k] = t[k - Len(s)]
    BY <2>1
  <2>. HIDE DEF s, t
  <2>. QED  BY <2>1, <2>2, <2>3, <2>4
<1>5. CASE type = "version"
  <2>1. Reads(type, f) = VersionReads  BY <1>5 DEF Reads
  <2>. QED  BY <2>1 DEF VersionReads
<1>6. CASE type \notin {"sync", "chanseq", "arpa", "data_path", "version"}
  <2>1. Reads(type, f) = <<>>  BY <1>6 DEF Reads
  <2>. QED  BY <2>1
<1>. QED  BY <1>1, <1>2, <1>3, <1>4, <1>5, <1>6

\* What a handler stores of the election parameters: the one of the second
\* form stores all of them unless it fails.
LEMMA EffectFacts ==
  ASSUME NEW f, NEW i
  PROVE  /\ Effect(f, i).type = Types(f.mif)[i] /\ Effect(f, i).ok \in BOOLEAN
         /\ Effect(f, i).type = "v2" /\ Effect(f, i).ok =>
              ElectionFields \subseteq DOMAIN Effect(f, i).stores
         /\ Effect(f, i).type \notin {"v2", "election"} =>
              \A x \in DOMAIN Effect(f, i).stores : x \notin ElectionFields
<1>. DEFINE type   == Types(f.mif)[i]
            fields == Layout(type, f)
            reads  == Reads(type, f)
            Fails(r) ==
              \/ r.at + r.width > TlvLen(f, i)
              \/ r.to = Check /\ FieldAt(fields, r) = f.odd
            bad    == {k \in 1 .. Len(reads) : Fails(reads[k])}
            done   == IF bad # {} /\ type \in StoresAtEnd THEN {}
                      ELSE {k \in 1 .. Len(reads) : \A b \in bad : k < b}
            stores == {reads[k].to : k \in done} \ {Skip, Check}
            ok     == bad = {}
            st     == [x \in stores |->
                         FieldAt(fields, reads[CHOOSE k \in done : reads[k].to = x])]
<1>1. Effect(f, i) = [type |-> type, ok |-> ok, end |-> EndOf(f, i), stores |-> st]
  BY Zenon DEF Effect
<1>2. /\ Effect(f, i).type = type /\ (Effect(f, i).ok <=> bad = {})
      /\ Effect(f, i).ok \in BOOLEAN
      /\ DOMAIN Effect(f, i).stores = stores
  <2>1. ok \in BOOLEAN /\ (ok <=> bad = {})  OBVIOUS
  <2>2. DOMAIN st = stores
    <3>. HIDE DEF stores, fields, reads, done
    <3>. QED  OBVIOUS
  <2>. HIDE DEF type, bad, stores, ok, st
  <2>. QED  BY <1>1, <2>1, <2>2
<1>3. ASSUME type = "v2", bad = {} PROVE ElectionFields \subseteq stores
  <2>1. reads = ElectionV2Reads  BY <1>3 DEF Reads
  <2>2. done = 1 .. Len(reads)  BY <1>3, Zenon
  <2>. HIDE DEF done, bad, reads
  <2>3. done = 1 .. 7  BY <2>1, <2>2 DEF ElectionV2Reads
  <2>4. /\ reads[1].to = "height" /\ reads[2].to = "master_addr" /\ reads[3].to = "sync_addr"
        /\ reads[4].to = "master_counter" /\ reads[5].to = "master_metric"
        /\ reads[6].to = "self_metric" /\ reads[7].to = "self_counter"
    BY <2>1 DEF ElectionV2Reads, Read
  <2>5. \A k \in 1 .. 7 : reads[k].to \in stores
    <3>1. \A k \in 1 .. 7 : reads[k].to \notin {Skip, Check}
      BY <2>4 DEF Skip, Check
    <3>. QED  BY <2>3, <3>1
  <2>. HIDE DEF stores
  <2>. QED  BY <2>4, <2>5 DEF ElectionFields
<1>4. ASSUME type \notin {"v2", "election"} PROVE \A x \in stores : x \notin ElectionFields
  <2>1. \A k \in done : k \in 1 .. Len(reads)  OBVIOUS
  <2>2. \A k \in 1 .. Len(reads) : reads[k].to \notin ElectionFields  BY <1>4, OtherReads
  <2>. HIDE DEF done, reads
  <2>. QED  BY <2>1, <2>2
<1>. HIDE DEF type, bad, stores, fields, reads, done
<1>. QED  BY <1>2, <1>3, <1>4 DEF type

-----------------------------------------------------------------------------
StoredFields == PeerFields \cup SyncFields

\* What the parser has got to, with no field newer than generation n.
AccOK(x, n) ==
  /\ x = [info |-> x.info, v2 |-> x.v2, torn |-> x.torn, enc |-> x.enc,
          master |-> x.master, ok |-> x.ok]
  /\ DOMAIN x.info = StoredFields
  /\ \A y \in StoredFields : x.info[y][2] \in 0 .. n
  /\ x.v2 \in BOOLEAN /\ x.torn \in BOOLEAN /\ x.ok \in BOOLEAN /\ x.enc \in Encodings
  /\ x.v2 /\ ~x.torn => \A y, z \in ElectionFields : x.info[y][2] = x.info[z][2]

\* awdl_handle_tlv
LEMMA HandleTlvOK ==
  ASSUME NEW f, f.enc \in Encodings, NEW n \in Nat, NEW g \in 0 .. n,
         NEW x, AccOK(x, n), NEW i
  PROVE  AccOK(HandleTlv(f, g, x, Effect(f, i)), n)
<1>. DEFINE e == Effect(f, i)
            info == [y \in DOMAIN x.info |->
                       IF y \in DOMAIN e.stores THEN <<e.stores[y], g>> ELSE x.info[y]]
            v2 == x.v2 \/ (e.type = "v2" /\ e.ok)
            torn == IF e.type = "v2" THEN ~e.ok ELSE x.torn
            enc == IF e.type = "chanseq" /\ e.ok THEN f.enc ELSE x.enc
            new == [info |-> info, v2 |-> v2, torn |-> torn, enc |-> enc,
                    master |-> x.master, ok |-> e.ok]
<1>1. /\ e.ok \in BOOLEAN
      /\ e.type = "v2" /\ e.ok => ElectionFields \subseteq DOMAIN e.stores
      /\ e.type \notin {"v2", "election"} => \A y \in DOMAIN e.stores : y \notin ElectionFields
  BY EffectFacts
<1>. HIDE DEF e
<1>2. CASE ~x.ok \/ Ignores(e.type, x)
  <2>1. HandleTlv(f, g, x, e) = x  BY <1>2 DEF HandleTlv
  <2>. QED  BY <2>1 DEF e
<1>3. CASE ~(~x.ok \/ Ignores(e.type, x))
  <2>1. x = [info |-> x.info, v2 |-> x.v2, torn |-> x.torn, enc |-> x.enc,
             master |-> x.master, ok |-> x.ok]
    BY DEF AccOK
  <2>2. HandleTlv(f, g, x, e) =
          [x EXCEPT !.info = info, !.v2 = v2, !.torn = torn, !.enc = enc, !.ok = e.ok]
    BY <1>3, Zenon DEF HandleTlv
  <2>3. HandleTlv(f, g, x, e) = new
    <3>. HIDE DEF info, v2, torn, enc
    <3>. QED  BY <2>1, <2>2, Zenon
  <2>4. /\ DOMAIN x.info = StoredFields
        /\ \A y \in StoredFields : x.info[y][2] \in 0 .. n
        /\ x.v2 \in BOOLEAN /\ x.torn \in BOOLEAN /\ x.enc \in Encodings
        /\ x.v2 /\ ~x.torn => \A y, z \in ElectionFields : x.info[y][2] = x.info[z][2]
    BY DEF AccOK
  <2>5. /\ DOMAIN info = StoredFields
        /\ \A y \in StoredFields :
             info[y][2] = IF y \in DOMAIN e.stores THEN g ELSE x.info[y][2]
    BY <2>4
  <2>6. v2 \in BOOLEAN /\ torn \in BOOLEAN /\ enc \in Encodings  BY <1>1, <2>4, Zenon
  <2>7. ElectionFields \subseteq StoredFields
    BY DEF ElectionFields, StoredFields, PeerFields
  <2>8. e.type = "election" => ~x.v2  BY <1>3 DEF Ignores
  <2>9. ASSUME v2, ~torn, NEW y \in ElectionFields, NEW z \in ElectionFields
        PROVE  info[y][2] = info[z][2]
    <3>1. CASE e.type = "v2"
      <4>1. e.ok  BY <2>9, <3>1
      <4>. QED  BY <1>1, <2>5, <2>7, <3>1, <4>1
    <3>2. CASE e.type = "election"  BY <2>8, <2>9, <3>2
    <3>3. CASE e.type \notin {"v2", "election"}
      <4>1. x.v2 /\ ~x.torn  BY <2>9, <3>3
      <4>2. y \notin DOMAIN e.stores /\ z \notin DOMAIN e.stores  BY <1>1, <3>3
      <4>. QED  BY <2>4, <2>5, <2>7, <4>1, <4>2
    <3>. QED  BY <3>1, <3>2, <3>3
  <2>10. \A y \in StoredFields : info[y][2] \in 0 .. n
    BY <2>4, <2>5
  <2>. HIDE DEF info, v2, torn, enc
  <2>11. /\ new.info = info /\ new.v2 = v2 /\ new.torn = torn /\ new.enc = enc
         /\ new.master = x.master /\ new.ok = e.ok
    OBVIOUS
  <2>12. new = [info |-> new.info, v2 |-> new.v2, torn |-> new.torn, enc |-> new.enc,
                master |-> new.master, ok |-> new.ok]
    BY <2>11
  <2>. HIDE DEF new
  <2>13. AccOK(new, n)
    BY <1>1, <2>5, <2>6, <2>9, <2>10, <2>11, <2>12, Zenon DEF AccOK
  <2>. QED  BY <2>3, <2>13 DEF e
<1>. QED  BY <1>2, <1>3

\* awdl_rx_action
LEMMA ParseTlvsOK ==
  ASSUME NEW f, f.enc \in Encodings, NEW n \in Nat, NEW g \in 0 .. n,
         NEW x, AccOK(x, n), NEW len
  PROVE  AccOK(ParseTlvs(f, Effects(f), g, x, len), n)
<1>. DEFINE es == Effects(f)
            m == Len(es)
<1>1. m \in Nat /\ \A i \in 1 .. m : es[i] = Effect(f, i)
  <2>. DEFINE k == Len(Types(f.mif))
  <2>1. k \in Nat
    BY DEF Types
  <2>2. es = [i \in 1 .. k |-> Effect(f, i)]  BY DEF Effects
  <2>. HIDE DEF k, es
  <2>. QED  BY <2>1, <2>2
<1>2. PICK p : /\ p[0] = x
               /\ \A i \in 1 .. m : p[i] = ParseStep(f, es, g, len, i, p[i - 1])
               /\ ParseTlvs(f, es, g, x, len) =
                    [p[m] EXCEPT
                       !.ok = @ /\ \E e \in {0} \cup {es[i].end : i \in DOMAIN es} : e = len]
  BY <1>1, ParsedRounds
<1>. DEFINE T == {i \in 0 .. m : AccOK(p[i], n)}
<1>. HIDE DEF es, m
<1>3. 0 \in T  BY <1>1, <1>2
<1>4. ASSUME NEW i \in 1 .. m, i - 1 \in T PROVE i \in T
  <2>1. AccOK(p[i - 1], n)  BY <1>4
  <2>2. p[i] = IF es[i].end > len THEN p[i - 1] ELSE HandleTlv(f, g, p[i - 1], Effect(f, i))
    BY <1>1, <1>2 DEF ParseStep
  <2>3. AccOK(HandleTlv(f, g, p[i - 1], Effect(f, i)), n)  BY <2>1, HandleTlvOK
  <2>4. AccOK(p[i], n)  BY <2>1, <2>2, <2>3
  <2>5. i \in 0 .. m  BY <1>1
  <2>. QED  BY <2>4, <2>5
<1>5. m \in T
  <2>. HIDE DEF T
  <2>1. \A i \in 0 .. m : i \in T  BY <1>1, <1>3, <1>4, UpTo
  <2>. QED  BY <1>1, <2>1
<1>6. AccOK(p[m], n)  BY <1>5
<1>. DEFINE a == p[m]
            ok == a.ok /\ \E e \in {0} \cup {es[i].end : i \in DOMAIN es} : e = len
            new == [info |-> a.info, v2 |-> a.v2, torn |-> a.torn, enc |-> a.enc,
                    master |-> a.master, ok |-> ok]
<1>7. ParseTlvs(f, es, g, x, len) = new
  <2>1. ParseTlvs(f, es, g, x, len) = [a EXCEPT !.ok = ok]  BY <1>2
  <2>2. a = [info |-> a.info, v2 |-> a.v2, torn |-> a.torn, enc |-> a.enc,
             master |-> a.master, ok |-> a.ok]
    BY <1>6 DEF AccOK
  <2>. HIDE DEF a, ok
  <2>. QED  BY <2>1, <2>2
<1>8. AccOK(new, n)
  <2>1. ok \in BOOLEAN  BY <1>6 DEF AccOK
  <2>. HIDE DEF ok
  <2>2. AccOK(a, n)  BY <1>6
  <2>. HIDE DEF a
  <2>. QED  BY <2>1, <2>2 DEF AccOK
<1>. QED  BY <1>7, <1>8 DEF es

-----------------------------------------------------------------------------
\* The sums of the first numbers of w, up to n of them.
IsSum(w, n, p) == p = [j \in 0 .. n |-> IF j = 0 THEN 0 ELSE p[j - 1] + w[j]]

LEMMA SumExists ==
  ASSUME NEW w, NEW n \in Nat
  PROVE  \E p : IsSum(w, n, p)
<1>. DEFINE Is(k, p) == p = [j \in 0 .. k |-> IF j = 0 THEN 0 ELSE p[j - 1] + w[j]]
            T == {k \in 0 .. n : \E p : Is(k, p)}
<1>1. 0 \in T
  <2>. DEFINE p == [j \in 0 .. 0 |-> 0]
  <2>1. \A j \in 0 .. 0 : j = 0  OBVIOUS
  <2>2. Is(0, p)  BY <2>1
  <2>3. \E r : Is(0, r)  BY <2>2, Zenon
  <2>. QED  BY <2>3
<1>2. ASSUME NEW k \in 1 .. n, k - 1 \in T PROVE k \in T
  <2>1. PICK p : Is(k - 1, p)  BY <1>2
  <2>. DEFINE q == [j \in 0 .. k |-> IF j = k THEN p[k - 1] + w[k] ELSE p[j]]
  <2>2. \A j \in 0 .. k - 1 : p[j] = IF j = 0 THEN 0 ELSE p[j - 1] + w[j]
    BY <2>1
  <2>3. ASSUME NEW j \in 0 .. k
        PROVE  q[j] = IF j = 0 THEN 0 ELSE q[j - 1] + w[j]
    <3>1. CASE j = k
      <4>1. j # 0 /\ j - 1 \in 0 .. k /\ j - 1 # k  BY <3>1
      <4>2. q[j - 1] = p[j - 1]  BY <4>1
      <4>. QED  BY <3>1, <4>1, <4>2
    <3>2. CASE j # k
      <4>1. j \in 0 .. k - 1  BY <3>2
      <4>2. q[j] = p[j]  BY <3>2
      <4>3. j # 0 => j - 1 \in 0 .. k /\ j - 1 # k  BY <4>1
      <4>4. j # 0 => q[j - 1] = p[j - 1]  BY <4>3
      <4>. HIDE DEF q
      <4>. QED  BY <2>2, <4>1, <4>2, <4>4
    <3>. QED  BY <3>1, <3>2
  <2>4. q = [j \in 0 .. k |-> q[j]]  OBVIOUS
  <2>. HIDE DEF q
  <2>5. Is(k, q)  BY <2>3, <2>4, Zenon
  <2>. QED  BY <2>5
<1>. HIDE DEF T
<1>3. n \in T  BY <1>1, <1>2, UpTo
<1>. QED  BY <1>3, Zenon DEF T, IsSum

LEMMA SumToNext ==
  ASSUME NEW w, Len(w) \in Nat
  PROVE  /\ SumTo(w, 0) = 0
         /\ \A k \in 1 .. Len(w) : SumTo(w, k) = SumTo(w, k - 1) + w[k]
<1>. DEFINE n == Len(w)
            p == CHOOSE p : p = [j \in 0 .. n |-> IF j = 0 THEN 0 ELSE p[j - 1] + w[j]]
<1>1. \E q : q = [j \in 0 .. n |-> IF j = 0 THEN 0 ELSE q[j - 1] + w[j]]
  <2>1. n \in Nat  OBVIOUS
  <2>. HIDE DEF n
  <2>2. PICK q : IsSum(w, n, q)  BY <2>1, SumExists, Zenon
  <2>. QED  BY <2>2, Zenon DEF IsSum
<1>2. p = [j \in 0 .. n |-> IF j = 0 THEN 0 ELSE p[j - 1] + w[j]]
  BY <1>1
<1>3. \A k : SumTo(w, k) = p[k]
  BY DEF SumTo
<1>. HIDE DEF p
<1>4. p[0] = 0  BY <1>2
<1>5. ASSUME NEW k \in 1 .. n PROVE p[k] = p[k - 1] + w[k]
  <2>1. k \in 0 .. n /\ k # 0  OBVIOUS
  <2>. QED  BY <1>2, <2>1, Zenon
<1>. QED  BY <1>3, <1>4, <1>5

\* Sums of natural numbers grow.
LEMMA SumToGrows ==
  ASSUME NEW w, Len(w) \in Nat, \A k \in 1 .. Len(w) : w[k] \in Nat
  PROVE  /\ \A k \in 0 .. Len(w) : SumTo(w, k) \in Nat
         /\ \A j, k \in 0 .. Len(w) : j <= k => SumTo(w, j) <= SumTo(w, k)
<1>. DEFINE n == Len(w)
            S(k) == SumTo(w, k)
            U == {k \in 0 .. n : S(k) \in Nat}
            T == {k \in 0 .. n : \A j \in 0 .. k : S(j) <= S(k)}
<1>1. S(0) = 0 /\ \A k \in 1 .. n : S(k) = S(k - 1) + w[k]  BY SumToNext
<1>2. n \in Nat /\ \A k \in 1 .. n : w[k] \in Nat  OBVIOUS
<1>. HIDE DEF n, S
<1>3. \A k \in 0 .. n : S(k) \in Nat
  <2>1. 0 \in U  BY <1>1, <1>2
  <2>2. ASSUME NEW k \in 1 .. n, k - 1 \in U PROVE k \in U
    <3>1. S(k) = S(k - 1) + w[k] /\ w[k] \in Nat /\ S(k - 1) \in Nat  BY <1>1, <1>2, <2>2
    <3>2. k \in 0 .. n /\ S(k) \in Nat  BY <1>2, <3>1
    <3>. QED  BY <3>2
  <2>. HIDE DEF U
  <2>3. \A k \in 0 .. n : k \in U  BY <1>2, <2>1, <2>2, UpTo, Zenon
  <2>. QED  BY <2>3 DEF U
<1>4. 0 \in T  BY <1>1, <1>2
<1>5. ASSUME NEW k \in 1 .. n, k - 1 \in T PROVE k \in T
  <2>1. S(k) = S(k - 1) + w[k] /\ w[k] \in Nat /\ S(k - 1) \in Nat /\ k \in 0 .. n
    <3>1. k - 1 \in 0 .. n /\ k \in 0 .. n  BY <1>2
    <3>. QED  BY <1>1, <1>2, <1>3, <3>1
  <2>2. S(k) \in Nat /\ S(k - 1) <= S(k)  BY <2>1
  <2>3. ASSUME NEW j \in 0 .. k PROVE S(j) <= S(k)
    <3>1. CASE j = k  BY <2>2, <3>1
    <3>2. CASE j # k
      <4>1. j \in 0 .. k - 1 /\ j \in 0 .. n  BY <1>2, <3>2
      <4>2. S(j) <= S(k - 1) /\ S(j) \in Nat  BY <1>3, <1>5, <4>1
      <4>. QED  BY <2>1, <2>2, <4>2
    <3>. QED  BY <3>1, <3>2
  <2>. QED  BY <2>1, <2>3
<1>6. \A k \in 0 .. n : k \in T
  <2>. HIDE DEF T
  <2>. QED  BY <1>2, <1>4, <1>5, UpTo, Zenon
<1>7. \A j, k \in 0 .. n : j <= k => S(j) <= S(k)
  <2>. SUFFICES ASSUME NEW j \in 0 .. n, NEW k \in 0 .. n, j <= k PROVE S(j) <= S(k)
    OBVIOUS
  <2>1. j \in 0 .. k  BY <1>2
  <2>. QED  BY <1>6, <2>1
<1>. QED  BY <1>3, <1>7 DEF n, S

-----------------------------------------------------------------------------
(***************************************************************************)
(* What a frame that keeps to the structures leaves behind: each read of a *)
(* handler falls on a field of the structure, and on the one it is for.    *)
(***************************************************************************)
Fields(l) == Len(l) \in Nat /\ \A k \in 1 .. Len(l) : l[k].width \in Nat

LEMMA OffsetFacts ==
  ASSUME NEW l, Fields(l)
  PROVE  /\ Offset(l, 0) = 0
         /\ \A k \in 1 .. Len(l) : Offset(l, k) = Offset(l, k - 1) + l[k].width
         /\ \A k \in 0 .. Len(l) : Offset(l, k) \in Nat
         /\ \A j, k \in 0 .. Len(l) : j <= k => Offset(l, j) <= Offset(l, k)
<1>. DEFINE w == [k \in 1 .. Len(l) |-> l[k].width]
<1>1. \A k : Offset(l, k) = SumTo(w, k)  BY DEF Offset
<1>2. Len(w) = Len(l) /\ \A k \in 1 .. Len(l) : w[k] = l[k].width /\ w[k] \in Nat
  BY DEF Fields
<1>3. Len(w) \in Nat  BY <1>2 DEF Fields
<1>. HIDE DEF w
<1>4. SumTo(w, 0) = 0 /\ \A k \in 1 .. Len(w) : SumTo(w, k) = SumTo(w, k - 1) + w[k]
  BY <1>3, SumToNext
<1>5. /\ \A k \in 0 .. Len(w) : SumTo(w, k) \in Nat
      /\ \A j, k \in 0 .. Len(w) : j <= k => SumTo(w, j) <= SumTo(w, k)
  BY <1>2, <1>3, SumToGrows
<1>. QED  BY <1>1, <1>2, <1>4, <1>5

\* A read that falls on field k.
On(l, k, r) == k \in 1 .. Len(l) /\ l[k].width = r.width /\ Offset(l, k - 1) = r.at

LEMMA FieldAtOn ==
  ASSUME NEW l, Fields(l), NEW k, NEW r, On(l, k, r)
  PROVE  /\ ~(r.at + r.width > Width(l))
         /\ r.width # 0 => FieldAt(l, r) = l[k].name
<1>1. k \in 1 .. Len(l) /\ l[k].width = r.width /\ Offset(l, k - 1) = r.at /\ Len(l) \in Nat
      /\ \A m \in 1 .. Len(l) : l[m].width \in Nat
  BY DEF On, Fields
<1>2. /\ \A m \in 1 .. Len(l) : Offset(l, m) = Offset(l, m - 1) + l[m].width
      /\ \A m \in 0 .. Len(l) : Offset(l, m) \in Nat
      /\ \A j, m \in 0 .. Len(l) : j <= m => Offset(l, j) <= Offset(l, m)
  BY OffsetFacts, SMTT(30)
<1>3. ~(r.at + r.width > Width(l))
  <2>1. Offset(l, k) = r.at + r.width  BY <1>1, <1>2
  <2>2. k \in 0 .. Len(l) /\ Len(l) \in 0 .. Len(l) /\ k <= Len(l)  BY <1>1
  <2>. QED  BY <1>2, <2>1, <2>2 DEF Width
<1>4. ASSUME r.width # 0 PROVE FieldAt(l, r) = l[k].name
  <2>. DEFINE hits == {m \in 1 .. Len(l) : l[m].width = r.width /\ Offset(l, m - 1) = r.at}
  <2>1. ASSUME NEW m \in hits PROVE m = k
    <3>1. m \in 1 .. Len(l) /\ l[m].width = r.width /\ Offset(l, m - 1) = r.at  OBVIOUS
    <3>2. Offset(l, m) > Offset(l, m - 1) /\ Offset(l, k) > Offset(l, k - 1)
      <4>1. m - 1 \in 0 .. Len(l) /\ k - 1 \in 0 .. Len(l)  BY <1>1, <3>1
      <4>2. Offset(l, m - 1) \in Nat /\ Offset(l, k - 1) \in Nat  BY <1>2, <4>1
      <4>3. Offset(l, m) = Offset(l, m - 1) + r.width /\ Offset(l, k) = Offset(l, k - 1) + r.width
        BY <1>1, <1>2, <3>1
      <4>4. r.width \in Nat  BY <1>1
      <4>. QED  BY <1>4, <4>2, <4>3, <4>4
    <3>3. ASSUME m < k PROVE FALSE
      <4>1. m \in 0 .. Len(l) /\ k - 1 \in 0 .. Len(l) /\ m <= k - 1 /\ m - 1 \in 0 .. Len(l)
        BY <1>1, <3>1, <3>3
      <4>2. Offset(l, m) <= Offset(l, k - 1)  BY <1>2, <4>1
      <4>3. Offset(l, m) \in Nat /\ Offset(l, m - 1) \in Nat  BY <1>2, <4>1
      <4>. QED  BY <1>1, <3>1, <3>2, <4>2, <4>3
    <3>4. ASSUME k < m PROVE FALSE
      <4>1. k \in 0 .. Len(l) /\ m - 1 \in 0 .. Len(l) /\ k <= m - 1 /\ k - 1 \in 0 .. Len(l)
        BY <1>1, <3>1, <3>4
      <4>2. Offset(l, k) <= Offset(l, m - 1)  BY <1>2, <4>1
      <4>3. Offset(l, k) \in Nat /\ Offset(l, k - 1) \in Nat  BY <1>2, <4>1
      <4>. QED  BY <1>1, <3>1, <3>2, <4>2, <4>3
    <3>. QED  BY <1>1, <3>1, <3>3, <3>4
  <2>2. k \in hits  BY <1>1
  <2>3. FieldAt(l, r) = IF hits = {} THEN "bytes" ELSE l[CHOOSE m \in hits : TRUE].name
    BY DEF FieldAt
  <2>. HIDE DEF hits
  <2>4. (CHOOSE m \in hits : TRUE) = k  BY <2>1, <2>2
  <2>. QED  BY <2>2, <2>3, <2>4, Zenon
<1>. QED  BY <1>3, <1>4

\* Every read is within the structure ...
Within(l, reads) ==
  /\ Fields(l) /\ Len(reads) \in Nat
  /\ \A k \in 1 .. Len(l) : l[k].name # "none"
  /\ \A k \in 1 .. Len(reads) : ~(reads[k].at + reads[k].width > Width(l))

\* ... and the field of its name, or skipped or compared.
Fits(l, reads) ==
  /\ Within(l, reads)
  /\ \A k \in 1 .. Len(reads) :
       reads[k].to \in {Skip, Check} \/ FieldAt(l, reads[k]) = reads[k].to

LEMMA FitsV2 == Fits(ElectionParamsV2, ElectionV2Reads)
<1>. DEFINE l == ElectionParamsV2
            reads == ElectionV2Reads
<1>1. /\ Len(l) = 9
      /\ l[1] = Field("master_addr", 6) /\ l[2] = Field("sync_addr", 6)
      /\ l[3] = Field("master_counter", 4) /\ l[4] = Field("height", 4)
      /\ l[5] = Field("master_metric", 4) /\ l[6] = Field("self_metric", 4)
      /\ l[7] = Field("unknown", 4) /\ l[8] = Field("reserved", 4) /\ l[9] = Field("self_counter", 4)
  BY DEF ElectionParamsV2
<1>2. /\ Len(reads) = 7
      /\ reads[1] = Read(16, 4, "height") /\ reads[2] = Read(0, 6, "master_addr")
      /\ reads[3] = Read(6, 6, "sync_addr") /\ reads[4] = Read(12, 4, "master_counter")
      /\ reads[5] = Read(20, 4, "master_metric") /\ reads[6] = Read(24, 4, "self_metric")
      /\ reads[7] = Read(36, 4, "self_counter")
  BY DEF ElectionV2Reads
<1>. HIDE DEF l, reads
<1>3. \A k \in 1 .. Len(l) : l[k].width \in Nat /\ l[k].name # "none"  BY <1>1 DEF Field
<1>4. Fields(l)  BY <1>1, <1>3 DEF Fields
<1>5. /\ Offset(l, 0) = 0 /\ Offset(l, 1) = 6 /\ Offset(l, 2) = 12 /\ Offset(l, 3) = 16
      /\ Offset(l, 4) = 20 /\ Offset(l, 5) = 24 /\ Offset(l, 6) = 28 /\ Offset(l, 7) = 32
      /\ Offset(l, 8) = 36
  <2>1. Offset(l, 0) = 0 /\ \A k \in 1 .. 9 : Offset(l, k) = Offset(l, k - 1) + l[k].width
    BY <1>1, <1>4, OffsetFacts, Zenon
  <2>. QED  BY <1>1, <2>1 DEF Field
<1>6. /\ On(l, 4, reads[1]) /\ On(l, 1, reads[2]) /\ On(l, 2, reads[3]) /\ On(l, 3, reads[4])
      /\ On(l, 5, reads[5]) /\ On(l, 6, reads[6]) /\ On(l, 9, reads[7])
  BY <1>1, <1>2, <1>5 DEF On, Field, Read
<1>7. ASSUME NEW k \in 1 .. Len(reads)
      PROVE  /\ ~(reads[k].at + reads[k].width > Width(l))
             /\ FieldAt(l, reads[k]) = reads[k].to
  <2>1. PICK m : On(l, m, reads[k]) /\ l[m].name = reads[k].to /\ reads[k].width # 0
    BY <1>1, <1>2, <1>6 DEF Field, Read
  <2>. QED  BY <1>4, <2>1, FieldAtOn
<1>. QED  BY <1>2, <1>3, <1>4, <1>7 DEF Fits, Within, l, reads

LEMMA FitsElection == Within(ElectionParams, ElectionReads)
<1>. DEFINE l == ElectionParams
            reads == ElectionReads
<1>1. /\ Len(l) = 8
      /\ l[1] = Field("flags", 1) /\ l[2] = Field("id", 2) /\ l[3] = Field("distancetop", 1)
      /\ l[4] = Field("unknown", 1) /\ l[5] = Field("master_addr", 6)
      /\ l[6] = Field("master_metric", 4) /\ l[7] = Field("self_metric", 4)
      /\ l[8] = Field("pad", 2)
  BY DEF ElectionParams
<1>2. /\ Len(reads) = 4
      /\ reads[1] = Read(3, 1, "height") /\ reads[2] = Read(5, 6, "master_addr")
      /\ reads[3] = Read(11, 4, "master_metric") /\ reads[4] = Read(15, 4, "self_metric")
  BY DEF ElectionReads
<1>. HIDE DEF l, reads
<1>3. \A k \in 1 .. Len(l) : l[k].width \in Nat /\ l[k].name # "none"  BY <1>1 DEF Field
<1>4. Fields(l)  BY <1>1, <1>3 DEF Fields
<1>5. /\ Offset(l, 0) = 0 /\ Offset(l, 1) = 1 /\ Offset(l, 2) = 3 /\ Offset(l, 3) = 4
      /\ Offset(l, 4) = 5 /\ Offset(l, 5) = 11 /\ Offset(l, 6) = 15
  <2>1. Offset(l, 0) = 0 /\ \A k \in 1 .. 8 : Offset(l, k) = Offset(l, k - 1) + l[k].width
    BY <1>1, <1>4, OffsetFacts, Zenon
  <2>. QED  BY <1>1, <2>1 DEF Field
<1>6. /\ On(l, 3, reads[1]) /\ On(l, 5, reads[2]) /\ On(l, 6, reads[3]) /\ On(l, 7, reads[4])
  BY <1>1, <1>2, <1>5 DEF On, Field, Read
<1>7. ASSUME NEW k \in 1 .. Len(reads) PROVE ~(reads[k].at + reads[k].width > Width(l))
  <2>1. PICK m : On(l, m, reads[k])  BY <1>2, <1>6
  <2>. QED  BY <1>4, <2>1, FieldAtOn
<1>. QED  BY <1>2, <1>3, <1>4, <1>7 DEF Within, l, reads

LEMMA FitsVersion == Fits(Version, VersionReads)
<1>. DEFINE l == Version
            reads == VersionReads
<1>1. Len(l) = 2 /\ l[1] = Field("version", 1) /\ l[2] = Field("devclass", 1)
  BY DEF Version
<1>2. Len(reads) = 2 /\ reads[1] = Read(0, 1, "version") /\ reads[2] = Read(1, 1, "devclass")
  BY DEF VersionReads
<1>. HIDE DEF l, reads
<1>3. \A k \in 1 .. Len(l) : l[k].width \in Nat /\ l[k].name # "none"  BY <1>1 DEF Field
<1>4. Fields(l)  BY <1>1, <1>3 DEF Fields
<1>5. Offset(l, 0) = 0 /\ Offset(l, 1) = 1
  <2>1. Offset(l, 0) = 0 /\ \A k \in 1 .. 2 : Offset(l, k) = Offset(l, k - 1) + l[k].width
    BY <1>1, <1>4, OffsetFacts, Zenon
  <2>. QED  BY <1>1, <2>1 DEF Field
<1>6. On(l, 1, reads[1]) /\ On(l, 2, reads[2])
  BY <1>1, <1>2, <1>5 DEF On, Field, Read
<1>7. ASSUME NEW k \in 1 .. Len(reads)
      PROVE  /\ ~(reads[k].at + reads[k].width > Width(l))
             /\ FieldAt(l, reads[k]) = reads[k].to
  <2>1. PICK m : On(l, m, reads[k]) /\ l[m].name = reads[k].to /\ reads[k].width # 0
    BY <1>1, <1>2, <1>6 DEF Field, Read
  <2>. QED  BY <1>4, <2>1, FieldAtOn
<1>. QED  BY <1>2, <1>3, <1>4, <1>7 DEF Fits, Within, l, reads

\* The channels, in any encoding and with any padding.
LEMMA FitsChanseq ==
  ASSUME NEW f, f.enc \in Encodings, NEW pad \in Nat
  PROVE  Fits(Chanseq(f.enc, pad), ChanseqReads(f))
<1>. DEFINE l == Chanseq(f.enc, pad)
            reads == ChanseqReads(f)
            w == SeqLength * EncodingSize(f.enc)
<1>1. w \in Nat /\ w # 0  BY DEF SeqLength, EncodingSize
<1>. HIDE DEF w
<1>2. /\ Len(l) = 7
      /\ l[1] = Field("count", 1) /\ l[2] = Field("encoding", 1)
      /\ l[3] = Field("duplicate_count", 1) /\ l[4] = Field("step_count", 1)
      /\ l[5] = Field("fill_channel", 2) /\ l[6] = Field("sequence", w) /\ l[7] = Field("pad", pad)
  BY DEF Chanseq, w
<1>3. /\ Len(reads) = 6
      /\ reads[1] = Read(0, 1, Check) /\ reads[2] = Read(2, 1, Check) /\ reads[3] = Read(3, 1, Check)
      /\ reads[4] = Read(4, 2, Check) /\ reads[5] = Read(1, 1, Check)
      /\ reads[6] = Read(6, w, "sequence")
  BY DEF ChanseqReads, w
<1>. HIDE DEF l, reads
<1>4. \A k \in 1 .. Len(l) : l[k].width \in Nat /\ l[k].name # "none"  BY <1>1, <1>2 DEF Field
<1>5. Fields(l)  BY <1>2, <1>4 DEF Fields
<1>6. /\ Offset(l, 0) = 0 /\ Offset(l, 1) = 1 /\ Offset(l, 2) = 2 /\ Offset(l, 3) = 3
      /\ Offset(l, 4) = 4 /\ Offset(l, 5) = 6
  <2>1. Offset(l, 0) = 0 /\ \A k \in 1 .. 7 : Offset(l, k) = Offset(l, k - 1) + l[k].width
    BY <1>2, <1>5, OffsetFacts, Zenon
  <2>. QED  BY <1>2, <2>1 DEF Field
<1>7. /\ On(l, 1, reads[1]) /\ On(l, 3, reads[2]) /\ On(l, 4, reads[3])
      /\ On(l, 5, reads[4]) /\ On(l, 2, reads[5]) /\ On(l, 6, reads[6])
  BY <1>1, <1>2, <1>3, <1>6 DEF On, Field, Read
<1>8. ASSUME NEW k \in 1 .. Len(reads)
      PROVE  /\ ~(reads[k].at + reads[k].width > Width(l))
             /\ reads[k].to \in {Skip, Check} \/ FieldAt(l, reads[k]) = reads[k].to
  <2>1. PICK m : On(l, m, reads[k]) /\ reads[k].width # 0
                 /\ (reads[k].to = Check \/ l[m].name = reads[k].to)
    BY <1>1, <1>2, <1>3, <1>7 DEF Field, Read
  <2>. QED  BY <1>5, <2>1, FieldAtOn
<1>. QED  BY <1>3, <1>4, <1>5, <1>8 DEF Fits, Within, l, reads

\* The name, also an empty one.
LEMMA FitsArpa ==
  ASSUME NEW f, f.name \in Nat, f.name <= NameMax
  PROVE  Fits(Arpa(f), ArpaReads(f))
<1>. DEFINE l == Arpa(f)
            reads == ArpaReads(f)
            w == f.name
<1>1. w \in Nat  OBVIOUS
<1>2. /\ Len(l) = 4
      /\ l[1] = Field("flags", 1) /\ l[2] = Field("name_length", 1)
      /\ l[3] = Field("name", w) /\ l[4] = Field("suffix", 2)
  BY DEF Arpa
<1>3. Len(reads) = 2 /\ reads[1] = Read(1, 1, Skip) /\ reads[2] = Read(2, w, "name")
  <2>1. (IF f.name > NameMax THEN NameMax ELSE f.name) = w  BY DEF NameMax
  <2>. QED  BY <2>1 DEF ArpaReads
<1>. HIDE DEF l, reads, w
<1>4. \A k \in 1 .. Len(l) : l[k].width \in Nat /\ l[k].name # "none"  BY <1>1, <1>2 DEF Field
<1>5. Fields(l)  BY <1>2, <1>4 DEF Fields
<1>6. Offset(l, 0) = 0 /\ Offset(l, 1) = 1 /\ Offset(l, 2) = 2 /\ Offset(l, 3) = 2 + w
  <2>1. Offset(l, 0) = 0 /\ \A k \in 1 .. 4 : Offset(l, k) = Offset(l, k - 1) + l[k].width
    BY <1>2, <1>5, OffsetFacts, Zenon
  <2>. QED  BY <1>1, <1>2, <2>1 DEF Field
<1>7. On(l, 2, reads[1]) /\ On(l, 3, reads[2])
  BY <1>1, <1>2, <1>3, <1>6 DEF On, Field, Read
<1>8. ~(reads[1].at + reads[1].width > Width(l)) /\ ~(reads[2].at + reads[2].width > Width(l))
  BY <1>5, <1>7, FieldAtOn
<1>9. FieldAt(l, reads[2]) = "name"
  <2>. DEFINE r == reads[2]
              hits == {m \in 1 .. Len(l) : l[m].width = r.width /\ Offset(l, m - 1) = r.at}
  <2>1. r.at = 2 /\ r.width = w  BY <1>3 DEF Read
  <2>2. 3 \in hits  BY <1>7 DEF On
  <2>3. ASSUME NEW m \in hits PROVE m = 3
    <3>1. m \in 1 .. 4 /\ l[m].width = w /\ Offset(l, m - 1) = 2  BY <1>2, <2>1
    <3>2. m # 4
      <4>1. l[4].width = 2 /\ Offset(l, 4 - 1) = 2 + w  BY <1>2, <1>6 DEF Field
      <4>. QED  BY <1>1, <3>1, <4>1
    <3>3. m # 1 /\ m # 2  BY <1>6, <3>1
    <3>. QED  BY <3>1, <3>2, <3>3
  <2>4. FieldAt(l, r) = IF hits = {} THEN "bytes" ELSE l[CHOOSE m \in hits : TRUE].name
    BY DEF FieldAt
  <2>. HIDE DEF hits
  <2>5. (CHOOSE m \in hits : TRUE) = 3  BY <2>2, <2>3
  <2>6. hits # {}  BY <2>2
  <2>7. FieldAt(l, r) = l[3].name  BY <2>4, <2>5, <2>6, Zenon
  <2>8. l[3].name = "name"  BY <1>2 DEF Field
  <2>. QED  BY <2>7, <2>8
<1>10. ASSUME NEW k \in 1 .. Len(reads)
       PROVE  /\ ~(reads[k].at + reads[k].width > Width(l))
              /\ reads[k].to \in {Skip, Check} \/ FieldAt(l, reads[k]) = reads[k].to
  <2>1. k = 1 \/ k = 2  BY <1>3
  <2>2. reads[1].to = Skip /\ reads[2].to = "name"  BY <1>3 DEF Read
  <2>. QED  BY <1>8, <1>9, <2>1, <2>2
<1>. QED  BY <1>3, <1>4, <1>5, <1>10 DEF Fits, Within, l, reads

\* The state of the data path, with or without the infrastructure.
LEMMA FitsDataPath ==
  ASSUME NEW f
  PROVE  Fits(DataPathState(f), DataPathReads(f))
<1>. DEFINE l == DataPathState(f)
            reads == DataPathReads(f)
<1>1. ASSUME Fields(l), \A k \in 1 .. Len(l) : l[k].name # "none", Len(reads) \in Nat,
             \A k \in 1 .. Len(reads) :
               \E m : On(l, m, reads[k]) /\ reads[k].width # 0
                      /\ (reads[k].to = Skip \/ l[m].name = reads[k].to)
      PROVE  Fits(l, reads)
  <2>. HIDE DEF l, reads
  <2>1. ASSUME NEW k \in 1 .. Len(reads)
        PROVE  /\ ~(reads[k].at + reads[k].width > Width(l))
               /\ reads[k].to \in {Skip, Check} \/ FieldAt(l, reads[k]) = reads[k].to
    <3>1. PICK m : On(l, m, reads[k]) /\ reads[k].width # 0
                   /\ (reads[k].to = Skip \/ l[m].name = reads[k].to)
      BY <1>1
    <3>. QED  BY <1>1, <3>1, FieldAtOn
  <2>. QED  BY <1>1, <2>1 DEF Fits, Within
<1>. DEFINE s == <<Read(0, 2, Skip), Read(2, 3, "country_code"), Read(5, 2, Skip)>>
<1>2. CASE f.infra
  <2>1. /\ Len(l) = 8
        /\ l[1] = Field("flags", 2) /\ l[2] = Field("country_code", 3)
        /\ l[3] = Field("social_channels", 2) /\ l[4] = Field("bssid", 6)
        /\ l[5] = Field("channel", 2) /\ l[6] = Field("infra_addr", 6)
        /\ l[7] = Field("awdl_addr", 6) /\ l[8] = Field("ext_flags", 2)
    BY <1>2 DEF DataPathState
  <2>2. /\ Len(reads) = 7
        /\ reads[1] = Read(0, 2, Skip) /\ reads[2] = Read(2, 3, "country_code")
        /\ reads[3] = Read(5, 2, Skip) /\ reads[4] = Read(7, 6, Skip)
        /\ reads[5] = Read(13, 2, Skip) /\ reads[6] = Read(15, 6, "infra_addr")
        /\ reads[7] = Read(21, 6, Skip)
    <3>. DEFINE t == <<Read(7, 6, Skip), Read(13, 2, Skip), Read(15, 6, "infra_addr"),
                       Read(21, 6, Skip)>>
    <3>1. reads = s \o t  BY <1>2 DEF DataPathReads
    <3>. QED  BY <3>1
  <2>. HIDE DEF l, reads
  <2>3. \A k \in 1 .. Len(l) : l[k].width \in Nat /\ l[k].name # "none"  BY <2>1 DEF Field
  <2>4. Fields(l)  BY <2>1, <2>3 DEF Fields
  <2>5. /\ Offset(l, 0) = 0 /\ Offset(l, 1) = 2 /\ Offset(l, 2) = 5 /\ Offset(l, 3) = 7
        /\ Offset(l, 4) = 13 /\ Offset(l, 5) = 15 /\ Offset(l, 6) = 21
    <3>1. Offset(l, 0) = 0 /\ \A k \in 1 .. 8 : Offset(l, k) = Offset(l, k - 1) + l[k].width
      BY <2>1, <2>4, OffsetFacts, ZenonT(40)
    <3>. QED  BY <2>1, <3>1 DEF Field
  <2>6. /\ On(l, 1, reads[1]) /\ On(l, 2, reads[2]) /\ On(l, 3, reads[3]) /\ On(l, 4, reads[4])
        /\ On(l, 5, reads[5]) /\ On(l, 6, reads[6]) /\ On(l, 7, reads[7])
    BY <2>1, <2>2, <2>5 DEF On, Field, Read
  <2>7. \A k \in 1 .. Len(reads) :
          \E m : On(l, m, reads[k]) /\ reads[k].width # 0
                 /\ (reads[k].to = Skip \/ l[m].name = reads[k].to)
    BY <2>1, <2>2, <2>6 DEF Field, Read
  <2>. QED  BY <1>1, <2>2, <2>3, <2>4, <2>7 DEF l, reads
<1>3. CASE ~f.infra
  <2>1. /\ Len(l) = 5
        /\ l[1] = Field("flags", 2) /\ l[2] = Field("country_code", 3)
        /\ l[3] = Field("social_channels", 2) /\ l[4] = Field("awdl_addr", 6)
        /\ l[5] = Field("ext_flags", 2)
    BY <1>3 DEF DataPathState
  <2>2. /\ Len(reads) = 4
        /\ reads[1] = Read(0, 2, Skip) /\ reads[2] = Read(2, 3, "country_code")
        /\ reads[3] = Read(5, 2, Skip) /\ reads[4] = Read(7, 6, Skip)
    <3>. DEFINE t == <<Read(7, 6, Skip)>>
    <3>1. reads = s \o t  BY <1>3 DEF DataPathReads
    <3>. QED  BY <3>1
  <2>. HIDE DEF l, reads
  <2>3. \A k \in 1 .. Len(l) : l[k].width \in Nat /\ l[k].name # "none"  BY <2>1 DEF Field
  <2>4. Fields(l)  BY <2>1, <2>3 DEF Fields
  <2>5. Offset(l, 0) = 0 /\ Offset(l, 1) = 2 /\ Offset(l, 2) = 5 /\ Offset(l, 3) = 7
    <3>1. Offset(l, 0) = 0 /\ \A k \in 1 .. 5 : Offset(l, k) = Offset(l, k - 1) + l[k].width
      BY <2>1, <2>4, OffsetFacts, Zenon
    <3>. QED  BY <2>1, <3>1 DEF Field
  <2>6. /\ On(l, 1, reads[1]) /\ On(l, 2, reads[2]) /\ On(l, 3, reads[3]) /\ On(l, 4, reads[4])
    BY <2>1, <2>2, <2>5 DEF On, Field, Read
  <2>7. \A k \in 1 .. Len(reads) :
          \E m : On(l, m, reads[k]) /\ reads[k].width # 0
                 /\ (reads[k].to = Skip \/ l[m].name = reads[k].to)
    BY <2>1, <2>2, <2>6 DEF Field, Read
  <2>. QED  BY <1>1, <2>2, <2>3, <2>4, <2>7 DEF l, reads
<1>. QED  BY <1>2, <1>3

\* The fields of the synchronisation before the channels.
SyncHead ==
  <<Field("next_aw_channel", 1), Field("tx_down_counter", 2), Field("master_channel", 1),
    Field("guard_time", 1), Field("aw_period", 2), Field("af_period", 2),
    Field("flags", 2), Field("aw_ext_length", 2), Field("aw_com_length", 2),
    Field("remaining_aw_length", 2), Field("min_ext", 1), Field("max_ext", 3),
    Field("sync_master", 6), Field("presence_mode", 1), Field("reserved", 1),
    Field("next_aw_seq", 2), Field("ap_alignment", 2)>>

LEMMA SyncLayout ==
  ASSUME NEW f
  PROVE  /\ Len(SyncParams(f)) = 24
         /\ \A k \in 1 .. 17 : SyncParams(f)[k] = SyncHead[k]
         /\ \A k \in 18 .. 24 : SyncParams(f)[k] = Chanseq(f.enc, 2)[k - 17]
<1>. DEFINE l == SyncParams(f)
            t == Chanseq(f.enc, 2)
            s == SyncHead
<1>1. l = s \o t  BY DEF SyncParams, SyncHead
<1>2. Len(l) = 24  BY <1>1 DEF Chanseq, SyncHead
<1>3. \A k \in 1 .. 17 : l[k] = s[k]  BY <1>1 DEF Chanseq, SyncHead
<1>4. \A k \in 18 .. 24 : l[k] = t[k - 17]  BY <1>1 DEF Chanseq, SyncHead
<1>. QED  BY <1>2, <1>3, <1>4

\* The synchronisation, with the channels after it.
LEMMA FitsSync ==
  ASSUME NEW f, f.enc \in Encodings
  PROVE  Fits(SyncParams(f), SyncReads)
<1>. DEFINE l == SyncParams(f)
            reads == SyncReads
            t == Chanseq(f.enc, 2)
            s == SyncHead
<1>2. Len(t) = 7 /\ \A k \in 1 .. 7 : t[k].width \in Nat /\ t[k].name # "none"
  <2>1. Fields(t) /\ \A k \in 1 .. Len(t) : t[k].name # "none"
    BY FitsChanseq DEF Fits, Within
  <2>2. Len(t) = 7  BY DEF Chanseq
  <2>. QED  BY <2>1, <2>2 DEF Fields
<1>3. \A k \in 1 .. 17 : s[k].width \in Nat /\ s[k].name # "none"  BY DEF Field, SyncHead
<1>4. /\ s[1].width = 1 /\ s[2].width = 2 /\ s[3].width = 1 /\ s[4].width = 1 /\ s[5].width = 2
      /\ s[6].width = 2 /\ s[7].width = 2 /\ s[8].width = 2 /\ s[9].width = 2 /\ s[10].width = 2
      /\ s[11].width = 1 /\ s[12].width = 3 /\ s[13].width = 6 /\ s[14].width = 1
      /\ s[15].width = 1 /\ s[16].width = 2
      /\ s[2].name = "tx_down_counter" /\ s[16].name = "next_aw_seq"
  BY DEF Field, SyncHead
<1>5. /\ Len(l) = 24
      /\ \A k \in 1 .. 17 : l[k] = s[k]
      /\ \A k \in 18 .. 24 : l[k] = t[k - 17]
  BY SyncLayout
<1>6. Len(reads) = 2 /\ reads[1] = Read(1, 2, "tx_down_counter") /\ reads[2] = Read(29, 2, "next_aw_seq")
  BY DEF SyncReads
<1>. HIDE DEF l, s, t, reads
<1>7. ASSUME NEW k \in 1 .. Len(l) PROVE l[k].width \in Nat /\ l[k].name # "none"
  <2>1. CASE k \in 1 .. 17  BY <1>3, <1>5, <2>1
  <2>2. CASE k \notin 1 .. 17
    <3>1. k \in 18 .. 24 /\ k - 17 \in 1 .. 7  BY <1>5, <2>2
    <3>. QED  BY <1>2, <1>5, <3>1
  <2>. QED  BY <2>1, <2>2
<1>8. Fields(l)  BY <1>5, <1>7 DEF Fields
<1>9. Offset(l, 1) = 1 /\ Offset(l, 15) = 29
  <2>1. Offset(l, 0) = 0 /\ \A k \in 1 .. 24 : Offset(l, k) = Offset(l, k - 1) + l[k].width
    BY <1>5, <1>8, OffsetFacts, ZenonT(40)
  <2>2. \A k \in 1 .. 17 : Offset(l, k) = Offset(l, k - 1) + s[k].width  BY <1>5, <2>1
  <2>3. Offset(l, 1) = 1 /\ Offset(l, 2) = 3 /\ Offset(l, 3) = 4 /\ Offset(l, 4) = 5
    BY <1>4, <2>1, <2>2
  <2>4. Offset(l, 5) = 7 /\ Offset(l, 6) = 9 /\ Offset(l, 7) = 11 /\ Offset(l, 8) = 13
    BY <1>4, <2>2, <2>3
  <2>5. Offset(l, 9) = 15 /\ Offset(l, 10) = 17 /\ Offset(l, 11) = 18 /\ Offset(l, 12) = 21
    BY <1>4, <2>2, <2>4
  <2>6. Offset(l, 13) = 27 /\ Offset(l, 14) = 28 /\ Offset(l, 15) = 29
    BY <1>4, <2>2, <2>5
  <2>. QED  BY <2>3, <2>6
<1>10. /\ On(l, 2, reads[1]) /\ l[2].name = reads[1].to /\ reads[1].width # 0
       /\ On(l, 16, reads[2]) /\ l[16].name = reads[2].to /\ reads[2].width # 0
  BY <1>4, <1>5, <1>6, <1>9 DEF On, Read
<1>11. ASSUME NEW k \in 1 .. Len(reads)
       PROVE  /\ ~(reads[k].at + reads[k].width > Width(l))
              /\ FieldAt(l, reads[k]) = reads[k].to
  <2>1. PICK m : On(l, m, reads[k]) /\ l[m].name = reads[k].to /\ reads[k].width # 0
    BY <1>6, <1>10
  <2>. QED  BY <1>8, <2>1, FieldAtOn
<1>. QED  BY <1>6, <1>7, <1>8, <1>11 DEF Fits, Within, l, reads

TlvTypes == {"sync", "election", "chanseq", "v2", "service", "ht", "arpa", "data_path", "version"}

\* A frame without unusual fields, with TLVs of full length.
Regular(f) ==
  f.enc \in Encodings /\ f.name \in Nat /\ f.name <= NameMax /\ f.odd = "none" /\ f.short.at = 0

LEMMA LayoutFits ==
  ASSUME NEW f, Regular(f), NEW type \in TlvTypes
  PROVE  /\ Within(Layout(type, f), Reads(type, f))
         /\ type # "election" => Fits(Layout(type, f), Reads(type, f))
<1>. USE DEF Regular
<1>1. ASSUME Fits(Layout(type, f), Reads(type, f)) PROVE Within(Layout(type, f), Reads(type, f))
  BY <1>1 DEF Fits
<1>2. CASE type = "sync"
  <2>1. Layout(type, f) = SyncParams(f) /\ Reads(type, f) = SyncReads  BY <1>2 DEF Layout, Reads
  <2>. QED  BY <1>1, <2>1, FitsSync
<1>3. CASE type = "election"
  <2>1. Layout(type, f) = ElectionParams /\ Reads(type, f) = ElectionReads
    BY <1>3 DEF Layout, Reads
  <2>. QED  BY <1>3, <2>1, FitsElection
<1>4. CASE type = "chanseq"
  <2>1. Layout(type, f) = Chanseq(f.enc, 3) /\ Reads(type, f) = ChanseqReads(f)
    BY <1>4 DEF Layout, Reads
  <2>. QED  BY <1>1, <2>1, FitsChanseq
<1>5. CASE type = "v2"
  <2>1. Layout(type, f) = ElectionParamsV2 /\ Reads(type, f) = ElectionV2Reads
    BY <1>5 DEF Layout, Reads
  <2>. QED  BY <1>1, <2>1, FitsV2
<1>6. CASE type = "service"
  <2>1. Layout(type, f) = ServiceParams /\ Reads(type, f) = <<>>  BY <1>6 DEF Layout, Reads
  <2>2. /\ Len(ServiceParams) = 3
        /\ \A k \in 1 .. 3 : ServiceParams[k].width \in Nat /\ ServiceParams[k].name # "none"
    BY DEF ServiceParams, Field
  <2>. QED  BY <1>1, <2>1, <2>2 DEF Fits, Within, Fields
<1>7. CASE type = "ht"
  <2>1. Layout(type, f) = HtCapabilities /\ Reads(type, f) = <<>>  BY <1>7 DEF Layout, Reads
  <2>2. /\ Len(HtCapabilities) = 5
        /\ \A k \in 1 .. 5 : HtCapabilities[k].width \in Nat /\ HtCapabilities[k].name # "none"
    BY DEF HtCapabilities, Field
  <2>. QED  BY <1>1, <2>1, <2>2 DEF Fits, Within, Fields
<1>8. CASE type = "arpa"
  <2>1. Layout(type, f) = Arpa(f) /\ Reads(type, f) = ArpaReads(f)  BY <1>8 DEF Layout, Reads
  <2>. QED  BY <1>1, <2>1, FitsArpa
<1>9. CASE type = "data_path"
  <2>1. Layout(type, f) = DataPathState(f) /\ Reads(type, f) = DataPathReads(f)
    BY <1>9 DEF Layout, Reads
  <2>. QED  BY <1>1, <2>1, FitsDataPath
<1>10. CASE type = "version"
  <2>1. Layout(type, f) = Version /\ Reads(type, f) = VersionReads  BY <1>10 DEF Layout, Reads
  <2>. QED  BY <1>1, <2>1, FitsVersion
<1>. QED  BY <1>2, <1>3, <1>4, <1>5, <1>6, <1>7, <1>8, <1>9, <1>10 DEF TlvTypes

\* The fields of the record that a handler may store.
Targets(type, f) == {Reads(type, f)[k].to : k \in 1 .. Len(Reads(type, f))} \ {Skip, Check}

\* The handler of a regular TLV succeeds and stores each field under its name.
LEMMA EffectRegular ==
  ASSUME NEW f, Regular(f), NEW i \in Nat \ {0}, Types(f.mif)[i] \in TlvTypes
  PROVE  /\ Effect(f, i).type = Types(f.mif)[i] /\ Effect(f, i).ok = TRUE
         /\ Effect(f, i).end = EndOf(f, i)
         /\ DOMAIN Effect(f, i).stores = Targets(Types(f.mif)[i], f)
         /\ Types(f.mif)[i] # "election" =>
              \A x \in Targets(Types(f.mif)[i], f) : Effect(f, i).stores[x] = x
<1>. DEFINE type   == Types(f.mif)[i]
            fields == Layout(type, f)
            reads  == Reads(type, f)
            Fails(r) ==
              \/ r.at + r.width > TlvLen(f, i)
              \/ r.to = Check /\ FieldAt(fields, r) = f.odd
            bad    == {k \in 1 .. Len(reads) : Fails(reads[k])}
            done   == IF bad # {} /\ type \in StoresAtEnd THEN {}
                      ELSE {k \in 1 .. Len(reads) : \A b \in bad : k < b}
            stores == {reads[k].to : k \in done} \ {Skip, Check}
            ok     == bad = {}
            st     == [x \in stores |->
                         FieldAt(fields, reads[CHOOSE k \in done : reads[k].to = x])]
<1>1. Effect(f, i) = [type |-> type, ok |-> ok, end |-> EndOf(f, i), stores |-> st]
  BY Zenon DEF Effect
<1>2. Within(fields, reads) /\ (type # "election" => Fits(fields, reads))  BY LayoutFits
<1>3. TlvLen(f, i) = Width(fields)  BY DEF TlvLen, Regular
<1>. HIDE DEF fields, reads
<1>4. /\ Fields(fields) /\ Len(reads) \in Nat
      /\ \A k \in 1 .. Len(fields) : fields[k].name # "none"
      /\ \A k \in 1 .. Len(reads) : ~(reads[k].at + reads[k].width > Width(fields))
  BY <1>2 DEF Within
<1>5. \A r : FieldAt(fields, r) # "none"
  <2>. TAKE r
  <2>. DEFINE hits == {k \in 1 .. Len(fields) :
                         fields[k].width = r.width /\ Offset(fields, k - 1) = r.at}
  <2>1. FieldAt(fields, r) = IF hits = {} THEN "bytes" ELSE fields[CHOOSE k \in hits : TRUE].name
    BY DEF FieldAt
  <2>2. hits # {} => (CHOOSE k \in hits : TRUE) \in hits  BY Zenon
  <2>3. \A k \in hits : fields[k].name # "none"  BY <1>4
  <2>. HIDE DEF hits
  <2>. QED  BY <2>1, <2>2, <2>3
<1>6. bad = {}
  <2>. SUFFICES ASSUME NEW k \in 1 .. Len(reads) PROVE ~Fails(reads[k])  OBVIOUS
  <2>. DEFINE r == reads[k]
  <2>1. ~(r.at + r.width > Width(fields))  BY <1>4
  <2>. QED  BY <1>3, <1>5, <2>1 DEF Regular
<1>7. done = 1 .. Len(reads)  BY <1>6, Zenon
<1>8. stores = Targets(type, f)
  <2>. HIDE DEF done
  <2>. QED  BY <1>7 DEF Targets, reads
<1>9. ok = TRUE  BY <1>6
<1>10. ASSUME type # "election", NEW x \in stores PROVE st[x] = x
  <2>. DEFINE m == CHOOSE k \in done : reads[k].to = x
  <2>. HIDE DEF done
  <2>1. m \in done /\ reads[m].to = x
    <3>1. \E k \in done : reads[k].to = x  OBVIOUS
    <3>. QED  BY <3>1, Zenon
  <2>2. x \notin {Skip, Check}  OBVIOUS
  <2>3. st[x] = FieldAt(fields, reads[m])
    <3>. HIDE DEF stores
    <3>. QED  OBVIOUS
  <2>. HIDE DEF m
  <2>4. m \in 1 .. Len(reads)  BY <1>7, <2>1
  <2>5. FieldAt(fields, reads[m]) = reads[m].to  BY <1>2, <1>10, <2>1, <2>2, <2>4 DEF Fits
  <2>. QED  BY <2>1, <2>3, <2>5
<1>11. DOMAIN st = stores
  <2>. HIDE DEF stores, done
  <2>. QED  OBVIOUS
<1>. HIDE DEF type, bad, stores, ok, st, done
<1>12. /\ Effect(f, i).type = type /\ Effect(f, i).ok = ok /\ Effect(f, i).end = EndOf(f, i)
       /\ Effect(f, i).stores = st
  BY <1>1
<1>. QED  BY <1>8, <1>9, <1>10, <1>11, <1>12 DEF type

LEMMA TypesFacts ==
  ASSUME NEW mif
  PROVE  /\ Len(Types(mif)) \in Nat /\ 7 <= Len(Types(mif))
         /\ \A i \in 1 .. Len(Types(mif)) : Types(mif)[i] \in TlvTypes
         /\ Types(mif)[1] = "sync" /\ Types(mif)[2] = "election"
         /\ Types(mif)[3] = "chanseq" /\ Types(mif)[4] = "v2"
         /\ \A i \in 3 .. Len(Types(mif)) : Types(mif)[i] \notin {"sync", "election"}
<1>. DEFINE t == Types(mif)
<1>1. CASE mif
  <2>1. t = <<"sync", "election", "chanseq", "v2", "service">> \o <<"ht", "arpa">>
            \o <<"data_path", "version">>
    BY <1>1 DEF Types
  <2>2. /\ Len(t) = 9 /\ t[1] = "sync" /\ t[2] = "election" /\ t[3] = "chanseq" /\ t[4] = "v2"
        /\ t[5] = "service" /\ t[6] = "ht" /\ t[7] = "arpa" /\ t[8] = "data_path" /\ t[9] = "version"
    BY <2>1
  <2>. HIDE DEF t
  <2>3. \A i \in 1 .. 9 : t[i] \in TlvTypes  BY <2>2 DEF TlvTypes
  <2>4. \A i \in 3 .. 9 : t[i] \notin {"sync", "election"}  BY <2>2
  <2>. QED  BY <2>2, <2>3, <2>4 DEF t
<1>2. CASE ~mif
  <2>1. t = <<"sync", "election", "chanseq", "v2", "service">> \o <<>> \o <<"data_path", "version">>
    BY <1>2 DEF Types
  <2>2. /\ Len(t) = 7 /\ t[1] = "sync" /\ t[2] = "election" /\ t[3] = "chanseq" /\ t[4] = "v2"
        /\ t[5] = "service" /\ t[6] = "data_path" /\ t[7] = "version"
    BY <2>1
  <2>. HIDE DEF t
  <2>3. \A i \in 1 .. 7 : t[i] \in TlvTypes  BY <2>2 DEF TlvTypes
  <2>4. \A i \in 3 .. 7 : t[i] \notin {"sync", "election"}  BY <2>2
  <2>. QED  BY <2>2, <2>3, <2>4 DEF t
<1>. QED  BY <1>1, <1>2

LEMMA TargetsFacts ==
  ASSUME NEW f
  PROVE  /\ SyncFields \subseteq Targets("sync", f)
         /\ \A x \in Targets("election", f) : x \notin SyncFields
         /\ "sequence" \in Targets("chanseq", f)
         /\ ElectionFields \subseteq Targets("v2", f)
         /\ "name" \in Targets("arpa", f)
         /\ "country_code" \in Targets("data_path", f)
         /\ f.infra => "infra_addr" \in Targets("data_path", f)
         /\ "version" \in Targets("version", f) /\ "devclass" \in Targets("version", f)
<1>0. ASSUME NEW type, NEW k \in 1 .. Len(Reads(type, f)), Reads(type, f)[k].to \notin {Skip, Check}
      PROVE  Reads(type, f)[k].to \in Targets(type, f)
  BY <1>0 DEF Targets
<1>1. SyncFields \subseteq Targets("sync", f)
  <2>. DEFINE r == Reads("sync", f)
  <2>1. Len(r) = 2 /\ r[1].to = "tx_down_counter" /\ r[2].to = "next_aw_seq"
    BY DEF Reads, SyncReads, Read
  <2>. HIDE DEF r
  <2>2. 1 \in 1 .. Len(r) /\ 2 \in 1 .. Len(r)  BY <2>1
  <2>3. r[1].to \notin {Skip, Check} /\ r[2].to \notin {Skip, Check}  BY <2>1 DEF Skip, Check
  <2>4. r[1].to \in Targets("sync", f) /\ r[2].to \in Targets("sync", f)
    BY <1>0, <2>2, <2>3 DEF r
  <2>. QED  BY <2>1, <2>4 DEF SyncFields
<1>2. \A x \in Targets("election", f) : x \notin SyncFields
  <2>. DEFINE r == Reads("election", f)
  <2>1. Len(r) = 4 /\ r[1].to = "height" /\ r[2].to = "master_addr" /\ r[3].to = "master_metric"
        /\ r[4].to = "self_metric"
    BY DEF Reads, ElectionReads, Read
  <2>2. \A x \in Targets("election", f) : \E k \in 1 .. Len(r) : x = r[k].to  BY DEF Targets
  <2>. HIDE DEF r
  <2>. QED  BY <2>1, <2>2 DEF SyncFields
<1>3. "sequence" \in Targets("chanseq", f)
  <2>. DEFINE r == Reads("chanseq", f)
  <2>1. Len(r) = 6 /\ r[6].to = "sequence"  BY DEF Reads, ChanseqReads, Read
  <2>. HIDE DEF r
  <2>2. 6 \in 1 .. Len(r) /\ r[6].to \notin {Skip, Check}  BY <2>1 DEF Skip, Check
  <2>. QED  BY <1>0, <2>1, <2>2 DEF r
<1>4. ElectionFields \subseteq Targets("v2", f)
  <2>. DEFINE r == Reads("v2", f)
  <2>1. /\ Len(r) = 7 /\ r[1].to = "height" /\ r[2].to = "master_addr" /\ r[3].to = "sync_addr"
        /\ r[4].to = "master_counter" /\ r[5].to = "master_metric"
        /\ r[6].to = "self_metric" /\ r[7].to = "self_counter"
    BY DEF Reads, ElectionV2Reads, Read
  <2>. HIDE DEF r
  <2>2. \A k \in 1 .. 7 : r[k].to \notin {Skip, Check}  BY <2>1 DEF Skip, Check
  <2>3. \A k \in 1 .. 7 : r[k].to \in Targets("v2", f)  BY <1>0, <2>1, <2>2 DEF r
  <2>. QED  BY <2>1, <2>3 DEF ElectionFields
<1>5. "name" \in Targets("arpa", f)
  <2>. DEFINE r == Reads("arpa", f)
  <2>1. Len(r) = 2 /\ r[2].to = "name"  BY DEF Reads, ArpaReads, Read
  <2>. HIDE DEF r
  <2>2. 2 \in 1 .. Len(r) /\ r[2].to \notin {Skip, Check}  BY <2>1 DEF Skip, Check
  <2>. QED  BY <1>0, <2>1, <2>2 DEF r
<1>6. "country_code" \in Targets("data_path", f) /\ (f.infra => "infra_addr" \in Targets("data_path", f))
  <2>. DEFINE r == Reads("data_path", f)
              s == <<Read(0, 2, Skip), Read(2, 3, "country_code"), Read(5, 2, Skip)>>
  <2>1. r = DataPathReads(f)  BY DEF Reads
  <2>2. CASE f.infra
    <3>. DEFINE t == <<Read(7, 6, Skip), Read(13, 2, Skip), Read(15, 6, "infra_addr"),
                       Read(21, 6, Skip)>>
    <3>1. r = s \o t  BY <2>1, <2>2 DEF DataPathReads
    <3>2. Len(r) = 7 /\ r[2] = Read(2, 3, "country_code") /\ r[6] = Read(15, 6, "infra_addr")
      BY <3>1
    <3>. HIDE DEF r
    <3>3. r[2].to = "country_code" /\ r[6].to = "infra_addr"  BY <3>2 DEF Read
    <3>4. /\ 2 \in 1 .. Len(r) /\ r[2].to \notin {Skip, Check}
          /\ 6 \in 1 .. Len(r) /\ r[6].to \notin {Skip, Check}
      BY <3>2, <3>3 DEF Skip, Check
    <3>5. r[2].to \in Targets("data_path", f) /\ r[6].to \in Targets("data_path", f)
      BY <1>0, <3>4 DEF r
    <3>. QED  BY <3>3, <3>5
  <2>3. CASE ~f.infra
    <3>1. r = s \o <<Read(7, 6, Skip)>>  BY <2>1, <2>3 DEF DataPathReads
    <3>2. Len(r) = 4 /\ r[2] = Read(2, 3, "country_code")  BY <3>1
    <3>. HIDE DEF r
    <3>3. r[2].to = "country_code"  BY <3>2 DEF Read
    <3>4. 2 \in 1 .. Len(r) /\ r[2].to \notin {Skip, Check}  BY <3>2, <3>3 DEF Skip, Check
    <3>5. r[2].to \in Targets("data_path", f)  BY <1>0, <3>4 DEF r
    <3>. QED  BY <2>3, <3>3, <3>5
  <2>. QED  BY <2>2, <2>3
<1>7. "version" \in Targets("version", f) /\ "devclass" \in Targets("version", f)
  <2>. DEFINE r == Reads("version", f)
  <2>1. Len(r) = 2 /\ r[1].to = "version" /\ r[2].to = "devclass"  BY DEF Reads, VersionReads, Read
  <2>. HIDE DEF r
  <2>2. /\ 1 \in 1 .. Len(r) /\ r[1].to \notin {Skip, Check}
        /\ 2 \in 1 .. Len(r) /\ r[2].to \notin {Skip, Check}
    BY <2>1 DEF Skip, Check
  <2>3. r[1].to \in Targets("version", f) /\ r[2].to \in Targets("version", f)
    BY <1>0, <2>2 DEF r
  <2>. QED  BY <2>1, <2>3
<1>. QED  BY <1>1, <1>2, <1>3, <1>4, <1>5, <1>6, <1>7

\* What the handler of a regular TLV makes of a.
Handled(f, g, a, type, b) ==
  /\ b.ok = TRUE /\ b.master = a.master
  /\ type # "election" /\ (type = "sync" => a.master) =>
       \A y \in StoredFields : y \in Targets(type, f) => b.info[y] = <<y, g>>
  /\ \A y \in StoredFields :
       \/ b.info[y] = a.info[y]
       \/ y \in Targets(type, f) /\ (type # "election" => b.info[y] = <<y, g>>)

LEMMA HandleRegular ==
  ASSUME NEW f, Regular(f), NEW n \in Nat, NEW g \in 0 .. n, NEW a, AccOK(a, n), a.ok = TRUE,
         NEW i \in 1 .. Len(Types(f.mif))
  PROVE  Handled(f, g, a, Types(f.mif)[i], HandleTlv(f, g, a, Effect(f, i)))
<1>. DEFINE type == Types(f.mif)[i]
            e == Effect(f, i)
            b == HandleTlv(f, g, a, e)
            info == [y \in DOMAIN a.info |->
                       IF y \in DOMAIN e.stores THEN <<e.stores[y], g>> ELSE a.info[y]]
            v2 == a.v2 \/ (e.type = "v2" /\ e.ok)
            torn == IF e.type = "v2" THEN ~e.ok ELSE a.torn
            enc == IF e.type = "chanseq" /\ e.ok THEN f.enc ELSE a.enc
<1>1. /\ e.type = type /\ e.ok = TRUE
      /\ DOMAIN e.stores = Targets(type, f)
      /\ type # "election" => \A y \in Targets(type, f) : e.stores[y] = y
  <2>1. i \in Nat \ {0} /\ type \in TlvTypes  BY TypesFacts
  <2>. QED  BY <2>1, EffectRegular, ZenonT(40)
<1>. HIDE DEF e, type
<1>2. CASE Ignores(type, a)
  <2>1. b = a  BY <1>1, <1>2 DEF HandleTlv
  <2>2. type = "election" \/ (type = "sync" /\ ~a.master)  BY <1>2 DEF Ignores
  <2>3. Handled(f, g, a, type, b)  BY <2>1, <2>2 DEF Handled
  <2>. QED  BY <2>3 DEF type, e
<1>3. CASE ~Ignores(type, a)
  <2>1. a = [info |-> a.info, v2 |-> a.v2, torn |-> a.torn, enc |-> a.enc,
             master |-> a.master, ok |-> a.ok] /\ DOMAIN a.info = StoredFields
    BY DEF AccOK
  <2>2. b = [a EXCEPT !.info = info, !.v2 = v2, !.torn = torn, !.enc = enc, !.ok = e.ok]
    BY <1>1, <1>3, Zenon DEF HandleTlv
  <2>3. b.info = info /\ b.ok = e.ok /\ b.master = a.master
    <3>. HIDE DEF info, v2, torn, enc, b
    <3>. QED  BY <2>1, <2>2
  <2>4. \A y \in StoredFields :
          b.info[y] = IF y \in Targets(type, f) THEN <<e.stores[y], g>> ELSE a.info[y]
    <3>. HIDE DEF b
    <3>. QED  BY <1>1, <2>1, <2>3
  <2>. HIDE DEF b
  <2>5. ASSUME NEW y \in StoredFields, type # "election", y \in Targets(type, f)
        PROVE  b.info[y] = <<y, g>>
    BY <1>1, <2>4, <2>5, Zenon
  <2>6. \A y \in StoredFields : b.info[y] = a.info[y] \/ y \in Targets(type, f)
    BY <2>4, Zenon
  <2>7. Handled(f, g, a, type, b)
    BY <1>1, <2>3, <2>5, <2>6 DEF Handled
  <2>. QED  BY <2>7 DEF b, type, e
<1>. QED  BY <1>2, <1>3

LEMMA EndOfFacts ==
  ASSUME NEW f, Regular(f)
  PROVE  FrameLen(f) \in Nat /\ \A i \in 1 .. Len(Types(f.mif)) : ~(EndOf(f, i) > FrameLen(f))
<1>. DEFINE n == Len(Types(f.mif))
            w == [j \in 1 .. n |-> 3 + TlvLen(f, j)]
<1>1. n \in Nat  BY TypesFacts
<1>2. \A j \in 1 .. n : TlvLen(f, j) \in Nat
  <2>. TAKE j \in 1 .. n
  <2>. DEFINE l == Layout(Types(f.mif)[j], f)
  <2>1. TlvLen(f, j) = Width(l)  BY <1>1 DEF TlvLen, Regular
  <2>2. Fields(l)
    <3>1. Types(f.mif)[j] \in TlvTypes  BY TypesFacts
    <3>. QED  BY <3>1, LayoutFits DEF Within
  <2>. HIDE DEF l
  <2>3. Offset(l, Len(l)) \in Nat
    <3>1. Len(l) \in 0 .. Len(l)  BY <2>2 DEF Fields
    <3>. QED  BY <2>2, <3>1, OffsetFacts
  <2>. QED  BY <2>1, <2>3 DEF Width
<1>3. \A i : EndOf(f, i) = SumTo(w, i)  BY DEF EndOf
<1>4. FrameLen(f) = SumTo(w, n)  BY <1>3 DEF FrameLen
<1>. HIDE DEF n
<1>5. Len(w) = n /\ \A j \in 1 .. n : w[j] \in Nat  BY <1>1, <1>2
<1>. HIDE DEF w
<1>6. /\ \A k \in 0 .. n : SumTo(w, k) \in Nat
      /\ \A j, k \in 0 .. n : j <= k => SumTo(w, j) <= SumTo(w, k)
  BY <1>1, <1>5, SumToGrows, Zenon
<1>7. ASSUME NEW i \in 1 .. n PROVE ~(SumTo(w, i) > SumTo(w, n))
  <2>1. i \in 0 .. n /\ n \in 0 .. n /\ i <= n  BY <1>1
  <2>. QED  BY <1>6, <2>1
<1>8. SumTo(w, n) \in Nat  BY <1>1, <1>6
<1>. QED  BY <1>3, <1>4, <1>7, <1>8 DEF n

\* The TLVs whose fields the handlers take for what they are.
Taken(type, x) == type # "election" /\ (type = "sync" => x.master)

\* awdl_rx_action for a regular frame that is there in full: it succeeds and
\* has stored every field that the handlers take.
LEMMA ParseRegular ==
  ASSUME NEW f, Regular(f), NEW n \in Nat, NEW g \in 0 .. n,
         NEW x, AccOK(x, n), x.ok = TRUE
  PROVE  LET d == ParseTlvs(f, Effects(f), g, x, FrameLen(f))
         IN  /\ d.ok = TRUE
             /\ \A j \in 1 .. Len(Types(f.mif)), y \in StoredFields :
                  Taken(Types(f.mif)[j], x) /\ y \in Targets(Types(f.mif)[j], f)
                    => d.info[y] = <<y, g>>
<1>. DEFINE es == Effects(f)
            types == Types(f.mif)
            m == Len(es)
            len == FrameLen(f)
<1>1. m \in Nat /\ m = Len(types) /\ DOMAIN es = 1 .. m /\ \A i \in 1 .. m : es[i] = Effect(f, i)
  <2>. DEFINE k == Len(Types(f.mif))
  <2>1. k \in Nat  BY TypesFacts
  <2>2. es = [i \in 1 .. k |-> Effect(f, i)]  BY DEF Effects
  <2>. HIDE DEF k, es
  <2>. QED  BY <2>1, <2>2 DEF k
<1>2. PICK p : /\ p[0] = x
               /\ \A i \in 1 .. m : p[i] = ParseStep(f, es, g, len, i, p[i - 1])
               /\ ParseTlvs(f, es, g, x, len) =
                    [p[m] EXCEPT
                       !.ok = @ /\ \E e \in {0} \cup {es[i].end : i \in DOMAIN es} : e = len]
  <2>1. Len(es) \in Nat  BY <1>1
  <2>. HIDE DEF es, len
  <2>. QED  BY <2>1, ParsedRounds
<1>3. /\ 7 <= Len(types) /\ types[1] = "sync" /\ types[2] = "election"
      /\ \A i \in 1 .. Len(types) : types[i] \in TlvTypes
      /\ \A i \in 3 .. Len(types) : types[i] \notin {"sync", "election"}
  BY TypesFacts
<1>4. \A i \in 1 .. m : ~(es[i].end > len) /\ es[i].end = EndOf(f, i)
  <2>. TAKE i \in 1 .. m
  <2>1. es[i].end = EndOf(f, i)
    <3>1. i \in Nat \ {0} /\ types[i] \in TlvTypes  BY <1>1, <1>3
    <3>2. Effect(f, i).end = EndOf(f, i)  BY <3>1, EffectRegular, ZenonT(40)
    <3>3. es[i] = Effect(f, i)  BY <1>1
    <3>. QED  BY <3>2, <3>3
  <2>2. i \in 1 .. Len(types)  BY <1>1
  <2>3. ~(EndOf(f, i) > len)  BY <2>2, EndOfFacts
  <2>. QED  BY <2>1, <2>3
<1>. DEFINE V(i) == \A j \in 1 .. i, y \in StoredFields :
                      Taken(types[j], x) /\ y \in Targets(types[j], f) => p[i].info[y] = <<y, g>>
            T == {i \in 0 .. m : AccOK(p[i], n) /\ p[i].ok = TRUE /\ p[i].master = x.master /\ V(i)}
<1>. HIDE DEF es, m, len, types
<1>5. 0 \in T  BY <1>1, <1>2
<1>6. ASSUME NEW i \in 1 .. m, i - 1 \in T PROVE i \in T
  <2>. DEFINE a == p[i - 1]
              b == p[i]
  <2>1. AccOK(a, n) /\ a.ok = TRUE /\ a.master = x.master /\ V(i - 1)  BY <1>6
  <2>2. b = HandleTlv(f, g, a, Effect(f, i))  BY <1>1, <1>2, <1>4 DEF ParseStep
  <2>3. AccOK(b, n)  BY <2>1, <2>2, HandleTlvOK DEF Regular
  <2>4. /\ b.ok = TRUE /\ b.master = a.master
        /\ types[i] # "election" /\ (types[i] = "sync" => a.master) =>
             \A y \in StoredFields : y \in Targets(types[i], f) => b.info[y] = <<y, g>>
        /\ \A y \in StoredFields :
             \/ b.info[y] = a.info[y]
             \/ y \in Targets(types[i], f) /\ (types[i] # "election" => b.info[y] = <<y, g>>)
    <3>. DEFINE c == HandleTlv(f, g, a, Effect(f, i))
    <3>1. i \in 1 .. Len(Types(f.mif))  BY <1>1 DEF types
    <3>. HIDE DEF a, b
    <3>2. AccOK(a, n) /\ a.ok = TRUE  BY <2>1
    <3>3. Handled(f, g, a, types[i], c)  BY <3>1, <3>2, HandleRegular, ZenonT(40) DEF types
    <3>. HIDE DEF c
    <3>4. Handled(f, g, a, types[i], b)  BY <2>2, <3>3 DEF c
    <3>. QED  BY <3>4, Zenon DEF Handled
  <2>5. ASSUME NEW j \in 1 .. i, NEW y \in StoredFields,
               Taken(types[j], x), y \in Targets(types[j], f)
        PROVE  b.info[y] = <<y, g>>
    <3>1. CASE j = i  BY <2>1, <2>4, <2>5, <3>1 DEF Taken
    <3>2. CASE j # i
      <4>1. j \in 1 .. i - 1  BY <3>2
      <4>2. a.info[y] = <<y, g>>  BY <2>1, <2>5, <4>1
      <4>3. CASE types[i] # "election"  BY <2>4, <4>2, <4>3
      <4>4. CASE types[i] = "election"
        <5>1. i = 2
          <6>1. i \notin 3 .. Len(types) /\ i # 1  BY <1>3, <4>4
          <6>. QED  BY <1>1, <6>1
        <5>2. types[j] = "sync"
          <6>1. j = 1  BY <4>1, <5>1
          <6>. QED  BY <1>3, <6>1
        <5>3. y \in SyncFields
          <6>1. SyncFields \subseteq Targets("sync", f)  BY TargetsFacts
          <6>2. Targets("sync", f) \subseteq SyncFields
            BY DEF Targets, Reads, SyncReads, Read, SyncFields
          <6>. QED  BY <2>5, <5>2, <6>2
        <5>4. y \notin Targets(types[i], f)  BY <4>4, <5>3, TargetsFacts
        <5>. QED  BY <2>4, <4>2, <5>4
      <4>. QED  BY <4>3, <4>4
    <3>. QED  BY <3>1, <3>2
  <2>6. i \in 0 .. m  BY <1>1
  <2>. QED  BY <2>1, <2>3, <2>4, <2>5, <2>6
<1>7. m \in T
  <2>. HIDE DEF T
  <2>1. \A i \in 0 .. m : i \in T  BY <1>1, <1>5, <1>6, UpTo, ZenonT(40)
  <2>. QED  BY <1>1, <2>1
<1>. DEFINE a == p[m]
            ok == a.ok /\ \E e \in {0} \cup {es[i].end : i \in DOMAIN es} : e = len
            d == ParseTlvs(f, es, g, x, len)
<1>8. AccOK(a, n) /\ a.ok = TRUE /\ V(m)  BY <1>7
<1>9. ok = TRUE
  <2>1. m \in 1 .. m  BY <1>1, <1>3
  <2>2. es[m].end = len  BY <1>1, <1>4, <2>1 DEF len, FrameLen, types
  <2>. QED  BY <1>1, <1>8, <2>1, <2>2
<1>10. d.ok = ok /\ d.info = a.info
  <2>1. d = [a EXCEPT !.ok = ok]  BY <1>2
  <2>2. a = [info |-> a.info, v2 |-> a.v2, torn |-> a.torn, enc |-> a.enc,
             master |-> a.master, ok |-> a.ok]
    BY <1>8 DEF AccOK
  <2>. HIDE DEF a, ok, d
  <2>. QED  BY <2>1, <2>2
<1>. HIDE DEF d, ok
<1>11. /\ d.ok = TRUE
       /\ \A j \in 1 .. Len(types), y \in StoredFields :
            Taken(types[j], x) /\ y \in Targets(types[j], f) => d.info[y] = <<y, g>>
  BY <1>1, <1>8, <1>9, <1>10
<1>. QED  BY <1>11 DEF d, es, len, types

LEMMA SyncHeadNames == \A j \in 1 .. 17 : SyncHead[j].name \notin PeerFields
<1>. DEFINE s == SyncHead
<1>1. /\ s[1].name = "next_aw_channel" /\ s[2].name = "tx_down_counter"
      /\ s[3].name = "master_channel" /\ s[4].name = "guard_time" /\ s[5].name = "aw_period"
      /\ s[6].name = "af_period" /\ s[7].name = "flags" /\ s[8].name = "aw_ext_length"
      /\ s[9].name = "aw_com_length" /\ s[10].name = "remaining_aw_length"
      /\ s[11].name = "min_ext" /\ s[12].name = "max_ext" /\ s[13].name = "sync_master"
      /\ s[14].name = "presence_mode" /\ s[15].name = "reserved" /\ s[16].name = "next_aw_seq"
      /\ s[17].name = "ap_alignment"
  BY DEF SyncHead, Field
<1>. HIDE DEF s
<1>2. \A j \in 1 .. 17 : s[j].name \notin PeerFields  BY <1>1 DEF PeerFields
<1>. QED  BY <1>2 DEF s

\* Which fields of a peer are in the structures.
LEMMA LayoutNames ==
  ASSUME NEW f, NEW type \in TlvTypes, NEW k \in 1 .. Len(Layout(type, f)),
         Layout(type, f)[k].name \in PeerFields
  PROVE  /\ type \in {"sync", "chanseq"} => Layout(type, f)[k].name = "sequence"
         /\ type \in {"election", "v2"} => Layout(type, f)[k].name \in ElectionFields
         /\ type \notin {"service", "ht"}
         /\ type = "arpa" => Layout(type, f)[k].name = "name"
         /\ type = "data_path" => \/ Layout(type, f)[k].name = "country_code"
                                  \/ f.infra /\ Layout(type, f)[k].name = "infra_addr"
         /\ type = "version" => Layout(type, f)[k].name \in {"version", "devclass"}
<1>. USE DEF Field, PeerFields
<1>1. ASSUME NEW enc, NEW pad, NEW j \in 1 .. 7
      PROVE  Len(Chanseq(enc, pad)) = 7 /\ (Chanseq(enc, pad)[j].name \in PeerFields
                                              => Chanseq(enc, pad)[j].name = "sequence")
  <2>. DEFINE c == Chanseq(enc, pad)
  <2>1. /\ Len(c) = 7 /\ c[1].name = "count" /\ c[2].name = "encoding"
        /\ c[3].name = "duplicate_count" /\ c[4].name = "step_count"
        /\ c[5].name = "fill_channel" /\ c[6].name = "sequence" /\ c[7].name = "pad"
    BY ZenonT(40) DEF Chanseq
  <2>. HIDE DEF c
  <2>2. c[j].name \in PeerFields => c[j].name = "sequence"  BY <2>1
  <2>. QED  BY <2>1, <2>2, ZenonT(40) DEF c
<1>2. CASE type = "sync"
  <2>. DEFINE l == SyncParams(f)
              t == Chanseq(f.enc, 2)
  <2>1. \A j \in 1 .. 17 : SyncHead[j].name \notin PeerFields  BY SyncHeadNames, Zenon
  <2>. HIDE DEF Field, PeerFields
  <2>2. /\ Len(l) = 24
        /\ \A j \in 1 .. 17 : l[j] = SyncHead[j]
        /\ \A j \in 18 .. 24 : l[j] = t[j - 17]
    BY SyncLayout, Zenon
  <2>6. Layout(type, f) = l  BY <1>2 DEF Layout
  <2>. HIDE DEF l, t
  <2>7. k \in 1 .. 24 /\ l[k].name \in PeerFields  BY <2>2, <2>6, Zenon
  <2>8. k \in 18 .. 24 /\ k - 17 \in 1 .. 7
    <3>1. k \notin 1 .. 17  BY <2>1, <2>2, <2>7, Zenon
    <3>2. k \in 1 .. 24  BY <2>7
    <3>. QED  BY <3>1, <3>2
  <2>9. t[k - 17].name \in PeerFields => t[k - 17].name = "sequence"  BY <1>1, <2>8, ZenonT(40) DEF t
  <2>10. l[k].name = "sequence"  BY <2>2, <2>7, <2>8, <2>9
  <2>. QED  BY <1>2, <2>6, <2>10
<1>3. CASE type = "chanseq"
  <2>1. Layout(type, f) = Chanseq(f.enc, 3)  BY <1>3 DEF Layout
  <2>2. Len(Chanseq(f.enc, 3)) = 7  BY DEF Chanseq
  <2>. HIDE DEF Field, PeerFields
  <2>3. k \in 1 .. 7 /\ Chanseq(f.enc, 3)[k].name \in PeerFields  BY <2>1, <2>2
  <2>4. Chanseq(f.enc, 3)[k].name = "sequence"  BY <1>1, <2>3
  <2>. QED  BY <1>3, <2>1, <2>4
<1>4. CASE type = "election"
  <2>1. Layout(type, f) = ElectionParams  BY <1>4 DEF Layout
  <2>2. Len(ElectionParams) = 8  BY DEF ElectionParams
  <2>3. ASSUME NEW j \in 1 .. 8, ElectionParams[j].name \in PeerFields
        PROVE  ElectionParams[j].name \in ElectionFields
    BY <2>3 DEF ElectionParams, ElectionFields
  <2>. HIDE DEF Field, PeerFields
  <2>4. Layout(type, f)[k].name \in ElectionFields  BY <2>1, <2>2, <2>3
  <2>. QED  BY <1>4, <2>4
<1>5. CASE type = "v2"
  <2>1. Layout(type, f) = ElectionParamsV2  BY <1>5 DEF Layout
  <2>2. Len(ElectionParamsV2) = 9  BY DEF ElectionParamsV2
  <2>3. ASSUME NEW j \in 1 .. 9, ElectionParamsV2[j].name \in PeerFields
        PROVE  ElectionParamsV2[j].name \in ElectionFields
    BY <2>3 DEF ElectionParamsV2, ElectionFields
  <2>. HIDE DEF Field, PeerFields
  <2>4. Layout(type, f)[k].name \in ElectionFields  BY <2>1, <2>2, <2>3
  <2>. QED  BY <1>5, <2>4
<1>6. CASE type = "service"
  <2>1. Layout(type, f) = ServiceParams  BY <1>6 DEF Layout
  <2>. QED  BY <1>6, <2>1 DEF ServiceParams
<1>7. CASE type = "ht"
  <2>1. Layout(type, f) = HtCapabilities  BY <1>7 DEF Layout
  <2>. QED  BY <1>7, <2>1, SMTT(30) DEF HtCapabilities
<1>8. CASE type = "arpa"
  <2>1. Layout(type, f) = Arpa(f)  BY <1>8 DEF Layout
  <2>. QED  BY <1>8, <2>1 DEF Arpa
<1>9. CASE type = "data_path"
  <2>1. Layout(type, f) = DataPathState(f)  BY <1>9 DEF Layout
  <2>2. CASE f.infra  BY <1>9, <2>1, <2>2, SMTT(30) DEF DataPathState
  <2>3. CASE ~f.infra  BY <1>9, <2>1, <2>3 DEF DataPathState
  <2>. QED  BY <2>2, <2>3
<1>10. CASE type = "version"
  <2>1. Layout(type, f) = Version  BY <1>10 DEF Layout
  <2>. QED  BY <1>10, <2>1 DEF Version
<1>. QED  BY <1>2, <1>3, <1>4, <1>5, <1>6, <1>7, <1>8, <1>9, <1>10 DEF TlvTypes

=============================================================================

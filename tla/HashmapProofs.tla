---------------------------- MODULE HashmapProofs ----------------------------
(***************************************************************************)
(* For every hash function, probe window and size of the table: nothing in *)
(* the table gets out of reach, its size is the number of elements, and    *)
(* the calls implement a finite map.                                       *)
(***************************************************************************)
EXTENDS Hashmap, FiniteSetTheorems, TLAPS

InReach == \A s \in Slots : InUse(s) => \E n \in Chain : s = Probe(data[s].key, n)

Used == {s \in Slots : InUse(s)}

\* Also in the middle of copying a table.
Counted == IsFiniteSet(Used) /\ size = Cardinality(Used)

IndInv == TypeOK /\ InReach /\ KeysDistinct /\ Counted

LEMMA SlotsFinite ==
  ASSUME TypeOK
  PROVE  IsFiniteSet(Slots)
BY FS_Interval DEF TypeOK, Slots

\* A probe hits a slot of the table.
LEMMA ProbeType ==
  ASSUME TypeOK, NEW k \in Keys, NEW n \in Chain
  PROVE  Probe(k, n) \in Slots
<1>1. Hash[k] \in Nat /\ n \in Nat /\ table_size \in Nat /\ table_size > 0
  BY HashmapAssumption DEF TypeOK, Chain
<1>2. Hash[k] + n \in Nat  BY <1>1
<1>. DEFINE x == Hash[k] + n
<1>. HIDE DEF x
<1>3. x % table_size \in 0 .. table_size - 1  BY <1>1, <1>2 DEF x
<1>. QED  BY <1>3 DEF Probe, Slots, x

LEMMA InitInv == Init => IndInv
<1>. SUFFICES ASSUME Init PROVE IndInv  OBVIOUS
<1>1. /\ table_size \in Nat \ {0} /\ size = 0
      /\ data = [i \in Slots |-> Free] /\ calls = <<>>
  BY HashmapAssumption DEF Init, EmptyTable, Slots
<1>2. \A s \in Slots : ~InUse(s)  BY <1>1 DEF InUse
<1>3. TypeOK  BY <1>1 DEF Init, TypeOK, Result
<1>4. Used = {}  BY <1>2 DEF Used
<1>5. Counted  BY <1>1, <1>4, FS_EmptySet DEF Counted
<1>6. InReach /\ KeysDistinct  BY <1>1, <1>2 DEF InReach, KeysDistinct, Pending
<1>. QED  BY <1>3, <1>5, <1>6 DEF IndInv

-----------------------------------------------------------------------------
\* A step that changes neither the table nor the insertions under way.
LEMMA SameTable ==
  ASSUME IndInv, UNCHANGED <<table_size, size, data, calls>>,
         it' \in -2 .. table_size,
         out'.status \in {"MAP_OK", "MAP_MISSING", "MAP_OMEM"},
         out'.value \in Values \cup {Missing}
  PROVE  IndInv'
<1>1. Slots' = Slots /\ \A s : InUse(s)' <=> InUse(s)  BY DEF Slots, InUse
<1>2. Used' = Used  BY <1>1 DEF Used
<1>3. TypeOK'  BY <1>1 DEF IndInv, TypeOK
<1>4. InReach'  BY <1>1 DEF IndInv, InReach, Probe
<1>5. KeysDistinct'  BY <1>1 DEF IndInv, KeysDistinct, Pending, OldOf
<1>6. Counted'  BY <1>2 DEF IndInv, Counted
<1>. QED  BY <1>3, <1>4, <1>5, <1>6 DEF IndInv

\* An element is removed, by hashmap_remove or through the iterator: the hole
\* it leaves takes nothing else out of its window.
LEMMA EraseInv ==
  ASSUME IndInv, NEW s \in Slots, InUse(s), Erase(s), UNCHANGED <<table_size, calls>>,
         it' \in -2 .. table_size,
         out'.status \in {"MAP_OK", "MAP_MISSING", "MAP_OMEM"},
         out'.value \in Values \cup {Missing}
  PROVE  IndInv'
<1>1. Slots' = Slots /\ data' = [data EXCEPT ![s] = Free]  BY DEF Slots, Erase
<1>2. data \in [Slots -> Elements \cup {Free}]  BY DEF IndInv, TypeOK
<1>3. \A r \in Slots : InUse(r)' <=> InUse(r) /\ r # s  BY <1>1, <1>2 DEF InUse
<1>4. \A r \in Slots : r # s => data'[r] = data[r]  BY <1>1, <1>2
<1>5. Used' = Used \ {s} /\ s \in Used  BY <1>1, <1>3 DEF Used
<1>6. Counted'
  <2>1. IsFiniteSet(Used) /\ size = Cardinality(Used)  BY DEF IndInv, Counted
  <2>2. IsFiniteSet(Used \ {s}) /\ Cardinality(Used \ {s}) = Cardinality(Used) - 1
    BY <1>5, <2>1, FS_RemoveElement
  <2>. QED  BY <1>5, <2>1, <2>2 DEF Counted, Erase
<1>7. size' \in Nat  BY <1>6, FS_CardinalityType DEF Counted
<1>8. TypeOK'  BY <1>1, <1>2, <1>7 DEF IndInv, TypeOK
<1>9. InReach'  BY <1>1, <1>3, <1>4 DEF IndInv, InReach, Probe
<1>10. KeysDistinct'
  <2>1. KeysDistinct /\ calls' = calls  BY DEF IndInv
  <2>2. \A r \in Slots' : InUse(r)' => InUse(r) /\ data'[r] = data[r]  BY <1>1, <1>3, <1>4
  <2>3. Slots' = Slots /\ Pending' = Pending /\ \A n : OldOf(n)' = OldOf(n)
    BY <1>1, <2>1 DEF Slots, Pending, OldOf
  <2>. QED  BY <2>1, <2>2, <2>3 DEF KeysDistinct
<1>. QED  BY <1>6, <1>8, <1>9, <1>10 DEF IndInv

LEMMA GetInv ==
  ASSUME IndInv, NEW k \in Keys, NEW remove \in BOOLEAN, Get(k, remove)
  PROVE  IndInv'
<1>. USE DEF Get
<1>1. it' \in -2 .. table_size  BY DEF IndInv, TypeOK
<1>2. CASE UNCHANGED <<data, size>> /\ out' = Result("MAP_MISSING", Missing)
  <2>1. out'.status = "MAP_MISSING" /\ out'.value = Missing  BY <1>2 DEF Result
  <2>. QED  BY <1>1, <1>2, <2>1, SameTable
<1>3. CASE \E s \in Slots :
             /\ Finds(k, s)
             /\ out' = Result("MAP_OK", data[s].value)
             /\ IF remove THEN Erase(s) ELSE UNCHANGED <<data, size>>
  <2>1. PICK s \in Slots : /\ Finds(k, s)
                           /\ out' = Result("MAP_OK", data[s].value)
                           /\ IF remove THEN Erase(s) ELSE UNCHANGED <<data, size>>
    BY <1>3
  <2>2. InUse(s)  BY <2>1 DEF Finds, Has, InUse
  <2>3. data[s] \in Elements  BY <2>2 DEF IndInv, TypeOK, InUse
  <2>4. out'.status = "MAP_OK" /\ out'.value \in Values
    BY <2>1, <2>3 DEF Result, Elements
  <2>5. CASE remove  BY <1>1, <2>1, <2>2, <2>4, <2>5, EraseInv
  <2>6. CASE ~remove  BY <1>1, <2>1, <2>4, <2>6, SameTable
  <2>. QED  BY <2>5, <2>6
<1>. QED  BY <1>2, <1>3

LEMMA IteratorInv ==
  ASSUME IndInv, ItNew \/ ItNext \/ ItRemove \/ ItFree
  PROVE  IndInv'
<1>1. /\ table_size \in Nat /\ it \in -2 .. table_size
      /\ out.status \in {"MAP_OK", "MAP_MISSING", "MAP_OMEM"}
      /\ out.value \in Values \cup {Missing}
  BY DEF IndInv, TypeOK
<1>2. CASE ItNew
  <2>1. it' \in -2 .. table_size /\ out' = out  BY <1>1, <1>2 DEF ItNew
  <2>. QED  BY <1>1, <1>2, <2>1, SameTable DEF ItNew
<1>3. CASE ItFree
  <2>1. it' \in -2 .. table_size /\ out' = out  BY <1>1, <1>3 DEF ItFree
  <2>. QED  BY <1>1, <1>3, <2>1, SameTable DEF ItFree
<1>4. CASE ItNext
  <2>1. CASE it' = table_size /\ out' = Result("MAP_MISSING", Missing)
    <3>1. /\ it' \in -2 .. table_size /\ out'.status = "MAP_MISSING"
          /\ out'.value = Missing
      BY <1>1, <2>1 DEF Result
    <3>. QED  BY <1>4, <3>1, SameTable DEF ItNext
  <2>2. CASE \E s \in Slots : /\ data[s] # Free /\ it' = s
                              /\ out' = Result("MAP_OK", data[s].value)
    <3>1. PICK s \in Slots : /\ data[s] # Free /\ it' = s
                             /\ out' = Result("MAP_OK", data[s].value)
      BY <2>2
    <3>2. data[s] \in Elements  BY <3>1 DEF IndInv, TypeOK
    <3>3. out'.status = "MAP_OK" /\ out'.value \in Values
      BY <3>1, <3>2 DEF Result, Elements
    <3>4. it' \in -2 .. table_size  BY <1>1, <3>1 DEF Slots
    <3>. QED  BY <1>4, <3>3, <3>4, SameTable DEF ItNext
  <2>. QED  BY <1>4, <2>1, <2>2 DEF ItNext
<1>5. CASE ItRemove
  <2>1. it' \in -2 .. table_size  BY <1>1, <1>5 DEF ItRemove
  <2>2. /\ out'.status \in {"MAP_OK", "MAP_MISSING", "MAP_OMEM"}
        /\ out'.value \in Values \cup {Missing}
    BY <1>5 DEF ItRemove, Result
  <2>3. CASE it \in Slots /\ data[it] # Free
    BY <1>5, <2>1, <2>2, <2>3, EraseInv DEF ItRemove, InUse
  <2>4. CASE ~(it \in Slots /\ data[it] # Free)
    BY <1>5, <2>1, <2>2, <2>4, SameTable DEF ItRemove
  <2>. QED  BY <2>3, <2>4
<1>. QED  BY <1>2, <1>3, <1>4, <1>5

-----------------------------------------------------------------------------
\* The key that is to be inserted is in no window, hence nowhere.
LEMMA PutInv ==
  ASSUME IndInv, NEW k \in Keys, NEW v \in Values, Put(k, v)
  PROVE  IndInv'
<1>1. /\ calls' = <<Call(k, v)>> /\ calls = <<>> /\ Unknown(k)
      /\ UNCHANGED <<table_size, size, data, it, out>>
  BY DEF Put, Idle
<1>2. Slots' = Slots /\ \A s : InUse(s)' <=> InUse(s)  BY <1>1 DEF Slots, InUse
<1>3. /\ Call(k, v) \in Calls /\ Call(k, v).key = k /\ Call(k, v).old = <<>>
  BY DEF Call, Calls
<1>4. \A s \in Slots : InUse(s) => data[s].key # k
  BY <1>1 DEF IndInv, InReach, InUse, Unknown, Has
<1>5. TypeOK'  BY <1>1, <1>2, <1>3 DEF IndInv, TypeOK
<1>6. InReach'  BY <1>1, <1>2 DEF IndInv, InReach, Probe
<1>7. Used' = Used  BY <1>2 DEF Used
<1>8. Counted'  BY <1>1, <1>7 DEF IndInv, Counted
<1>9. KeysDistinct'
  <2>1. Len(calls') = 1 /\ calls'[1].key = k /\ calls'[1].old = <<>>  BY <1>1, <1>3
  <2>2. Pending' = {1} /\ OldOf(1)' = {}  BY <2>1 DEF Pending, OldOf
  <2>3. \A s, t \in Slots' : InUse(s)' /\ InUse(t)' /\ s # t => data'[s].key # data'[t].key
    BY <1>1, <1>2 DEF IndInv, KeysDistinct
  <2>4. \A s \in Slots', n \in Pending' : InUse(s)' => data'[s].key # calls'[n].key
    BY <1>1, <1>2, <1>4, <2>1, <2>2
  <2>5. \A m, n \in Pending' : m # n => calls'[m].key # calls'[n].key  BY <2>2
  <2>6. \A n \in Pending' : OldOf(n)' = {}  BY <2>2
  <2>. QED  BY <2>3, <2>4, <2>5, <2>6 DEF KeysDistinct
<1>. QED  BY <1>5, <1>6, <1>8, <1>9 DEF IndInv

\* The insertions below the innermost one, and the innermost one.
LEMMA TopType ==
  ASSUME TypeOK, calls # <<>>
  PROVE  /\ Len(calls) \in Nat \ {0} /\ Top \in Calls /\ Top = calls[Len(calls)]
         /\ Top.key \in Keys /\ Top.value \in Values
         /\ Top.old \in Seq(Elements \cup {Free})
<1>1. calls \in Seq(Calls)  BY DEF TypeOK
<1>2. Len(calls) \in Nat \ {0} /\ calls[Len(calls)] \in Calls  BY <1>1
<1>. QED  BY <1>2 DEF Top, Calls

LEMMA OutOfMemoryInv ==
  ASSUME IndInv, OutOfMemory
  PROVE  IndInv'
<1>1. /\ calls' = <<>> /\ UNCHANGED <<table_size, size, data, it>>
      /\ out'.status = "MAP_OMEM" /\ out'.value = Missing
  BY DEF OutOfMemory, Result
<1>2. Slots' = Slots /\ \A s : InUse(s)' <=> InUse(s)  BY <1>1 DEF Slots, InUse
<1>3. TypeOK'  BY <1>1, <1>2 DEF IndInv, TypeOK
<1>4. InReach'  BY <1>1, <1>2 DEF IndInv, InReach, Probe
<1>5. Used' = Used  BY <1>2 DEF Used
<1>6. Counted'  BY <1>1, <1>5 DEF IndInv, Counted
<1>7. KeysDistinct'  BY <1>1, <1>2 DEF IndInv, KeysDistinct, Pending
<1>. QED  BY <1>3, <1>4, <1>6, <1>7 DEF IndInv

\* hashmap_hash returns the first slot of the window that suits: it is free,
\* as the key is not in the table.
LEMMA StoreStep ==
  ASSUME IndInv, Store, NEW L, L = Len(calls)
  PROVE  /\ L \in Pending /\ calls[L].old = <<>> /\ Pending' = Pending \ {L}
         /\ calls' \in Seq(Calls) /\ \A n \in Pending' : calls'[n] = calls[n]
         /\ size' = size + 1 /\ table_size' = table_size /\ it' = it
         /\ out' = IF L = 1 THEN Result("MAP_OK", Missing) ELSE out
         /\ Slots' = Slots
         /\ \E s \in Slots :
              /\ ~InUse(s)
              /\ \E n \in Chain : s = Probe(calls[L].key, n)
              /\ data' = [data EXCEPT ![s] = [key |-> calls[L].key, value |-> calls[L].value]]
<1>1. calls # <<>> /\ Top.old = <<>> /\ TypeOK /\ KeysDistinct
  BY DEF Store, Searches, IndInv
<1>2. L \in Nat /\ L >= 1 /\ Top = calls[L] /\ L \in Pending  BY <1>1, TopType DEF Pending
<1>3. PICK s \in Slots :
        /\ Places(Top.key, s)
        /\ data' = [data EXCEPT ![s] = [key |-> Top.key, value |-> Top.value]]
  BY Zenon DEF Store
<1>4. /\ size' = size + 1 /\ calls' = SubSeq(calls, 1, L - 1)
      /\ table_size' = table_size /\ it' = it
      /\ out' = IF L = 1 THEN Result("MAP_OK", Missing) ELSE out
  BY DEF Store
<1>5. calls' \in Seq(Calls) /\ Len(calls') = L - 1 /\ \A n \in 1 .. L - 1 : calls'[n] = calls[n]
  <2>1. \A n \in 1 .. L - 1 : calls[n] \in Calls  BY <1>1, <1>2 DEF TypeOK
  <2>2. /\ calls' \in Seq(Calls) /\ Len(calls') = (IF 1 <= L - 1 THEN (L - 1) - 1 + 1 ELSE 0)
        /\ \A n \in 1 .. (L - 1) - 1 + 1 : calls'[n] = calls[1 + n - 1]
    <3>1. calls \in Seq(Calls) /\ calls' = SubSeq(calls, 1, L - 1)  BY <1>1, <1>4 DEF TypeOK
    <3>. QED  BY <1>2, <3>1
  <2>3. Len(calls') = L - 1  BY <1>2, <2>2
  <2>4. ASSUME NEW n \in 1 .. L - 1 PROVE calls'[n] = calls[n]
    <3>1. n \in 1 .. (L - 1) - 1 + 1 /\ 1 + n - 1 = n  BY <1>2
    <3>. QED  BY <2>2, <3>1
  <2>. QED  BY <2>2, <2>3, <2>4
<1>6. Pending' = 1 .. L - 1 /\ 1 .. L - 1 = Pending \ {L}  BY <1>2, <1>5 DEF Pending
<1>7. ~InUse(s)
  <2>1. InUse(s) => data[s].key = Top.key  BY <1>3 DEF Places, Suits, InUse
  <2>. QED  BY <1>1, <1>2, <2>1 DEF KeysDistinct
<1>8. \E n \in Chain : s = Probe(Top.key, n)  BY <1>3 DEF Places
<1>9. Slots' = Slots  BY <1>4 DEF Slots
<1>. QED  BY <1>1, <1>2, <1>3, <1>4, <1>5, <1>6, <1>7, <1>8, <1>9, Zenon

LEMMA StoreInv ==
  ASSUME IndInv, Store
  PROVE  IndInv'
<1>0. PICK L : L = Len(calls)  BY Zenon
<1>. DEFINE e == [key |-> calls[L].key, value |-> calls[L].value]
<1>1. TypeOK /\ KeysDistinct  BY DEF IndInv
<1>2. /\ L \in Pending /\ Pending' = Pending \ {L}
      /\ calls' \in Seq(Calls) /\ \A n \in Pending' : calls'[n] = calls[n]
      /\ size' = size + 1 /\ table_size' = table_size /\ it' = it
      /\ out' = out \/ out' = Result("MAP_OK", Missing)
      /\ Slots' = Slots
  BY <1>0, StoreStep
<1>3. PICK s \in Slots : /\ ~InUse(s) /\ data' = [data EXCEPT ![s] = e]
                         /\ \E n \in Chain : s = Probe(calls[L].key, n)
  BY <1>0, StoreStep
<1>4. calls[L] \in Calls  BY <1>1, <1>2 DEF TypeOK, Pending
<1>5. e \in Elements /\ e # Free /\ e.key = calls[L].key
  BY <1>4, HashmapAssumption DEF Elements, Calls
<1>. HIDE DEF e
<1>6. data \in [Slots -> Elements \cup {Free}]  BY <1>1 DEF TypeOK
<1>7. data'[s] = e /\ \A r \in Slots : r # s => data'[r] = data[r]  BY <1>3, <1>6
<1>8. \A r \in Slots : InUse(r)' <=> InUse(r) \/ r = s  BY <1>5, <1>7 DEF InUse
<1>9. Counted'
  <2>1. Used' = Used \cup {s} /\ s \notin Used  BY <1>2, <1>3, <1>8 DEF Used
  <2>2. IsFiniteSet(Used) /\ size = Cardinality(Used)  BY DEF IndInv, Counted
  <2>3. IsFiniteSet(Used \cup {s}) /\ Cardinality(Used \cup {s}) = Cardinality(Used) + 1
    BY <2>1, <2>2, FS_AddElement
  <2>. QED  BY <1>2, <2>1, <2>2, <2>3 DEF Counted
<1>10. size' \in Nat  BY <1>9, FS_CardinalityType DEF Counted
<1>11. TypeOK'
  <2>1. out'.status \in {"MAP_OK", "MAP_MISSING", "MAP_OMEM"}
    BY <1>1, <1>2 DEF TypeOK, Result
  <2>2. out'.value \in Values \cup {Missing}  BY <1>1, <1>2 DEF TypeOK, Result
  <2>3. data' \in [Slots -> Elements \cup {Free}]  BY <1>3, <1>5, <1>6
  <2>. QED  BY <1>1, <1>2, <1>10, <2>1, <2>2, <2>3 DEF TypeOK
<1>12. InReach'
  <2>1. \A k, n : Probe(k, n)' = Probe(k, n)  BY <1>2 DEF Probe
  <2>. QED  BY <1>2, <1>3, <1>5, <1>7, <1>8, <2>1 DEF IndInv, InReach
<1>13. KeysDistinct'
  <2>1. \A r \in Slots : InUse(r)' =>
          \/ r = s /\ data'[r].key = calls[L].key
          \/ r # s /\ InUse(r) /\ data'[r].key = data[r].key
    BY <1>5, <1>7, <1>8
  <2>2. \A n \in Pending' : n \in Pending /\ n # L /\ calls'[n] = calls[n]  BY <1>2
  <2>3. \A n \in Pending' : OldOf(n)' = OldOf(n)  BY <2>2 DEF OldOf
  <2>4. \A r, t \in Slots' : InUse(r)' /\ InUse(t)' /\ r # t => data'[r].key # data'[t].key
    BY <1>1, <1>2, <2>1 DEF KeysDistinct
  <2>5. \A r \in Slots', n \in Pending' : InUse(r)' => data'[r].key # calls'[n].key
    <3>1. \A r \in Slots, n \in Pending : InUse(r) => data[r].key # calls[n].key
      BY <1>1 DEF KeysDistinct
    <3>2. \A m, n \in Pending : m # n => calls[m].key # calls[n].key
      BY <1>1 DEF KeysDistinct
    <3>3. L \in Pending /\ Slots' = Slots  BY <1>1, <1>2
    <3>. QED  BY <2>1, <2>2, <3>1, <3>2, <3>3, SMTT(30)
  <2>6. \A r \in Slots', n \in Pending' : \A j \in OldOf(n)' :
          InUse(r)' => data'[r].key # calls'[n].old[j].key
    <3>1. \A r \in Slots, n \in Pending : \A j \in OldOf(n) :
            InUse(r) => data[r].key # calls[n].old[j].key
      BY <1>1 DEF KeysDistinct
    <3>2. \A m, n \in Pending : \A j \in OldOf(n) : calls[m].key # calls[n].old[j].key
      BY <1>1 DEF KeysDistinct
    <3>3. L \in Pending /\ Slots' = Slots  BY <1>1, <1>2
    <3>. QED  BY <2>1, <2>2, <2>3, <3>1, <3>2, <3>3, SMTT(30)
  <2>7. \A m, n \in Pending' :
          /\ m # n => calls'[m].key # calls'[n].key
          /\ \A j \in OldOf(n)' : calls'[m].key # calls'[n].old[j].key
          /\ \A i \in OldOf(m)', j \in OldOf(n)' :
               m # n \/ i # j => calls'[m].old[i].key # calls'[n].old[j].key
    <3>1. \A m, n \in Pending : m # n => calls[m].key # calls[n].key
      BY <1>1 DEF KeysDistinct
    <3>2. \A m, n \in Pending : \A j \in OldOf(n) : calls[m].key # calls[n].old[j].key
      BY <1>1 DEF KeysDistinct
    <3>3. \A m, n \in Pending : \A i \in OldOf(m), j \in OldOf(n) :
            m # n \/ i # j => calls[m].old[i].key # calls[n].old[j].key
      BY <1>1 DEF KeysDistinct
    <3>. QED  BY <2>2, <2>3, <3>1, <3>2, <3>3, SMTT(30)
  <2>. QED  BY <2>4, <2>5, <2>6, <2>7 DEF KeysDistinct
<1>. QED  BY <1>9, <1>11, <1>12, <1>13 DEF IndInv

LEMMA SetTopType ==
  ASSUME TypeOK, calls # <<>>, NEW old \in Seq(Elements \cup {Free})
  PROVE  /\ SetTop(old) \in Seq(Calls) /\ Len(SetTop(old)) = Len(calls)
         /\ \A n \in Pending : n # Len(calls) => SetTop(old)[n] = calls[n]
         /\ SetTop(old)[Len(calls)].key = Top.key
         /\ SetTop(old)[Len(calls)].value = Top.value
         /\ SetTop(old)[Len(calls)].old = old
<1>. DEFINE L == Len(calls)
            c == [calls[L] EXCEPT !.old = old]
<1>1. calls \in Seq(Calls)  BY DEF TypeOK
<1>2. L \in Nat \ {0} /\ Top = calls[L] /\ Top \in Calls  BY TopType
<1>3. c \in Calls /\ c.key = Top.key /\ c.value = Top.value /\ c.old = old
  BY <1>2 DEF Calls
<1>4. SetTop(old) = [calls EXCEPT ![L] = c]  BY DEF SetTop
<1>. HIDE DEF c
<1>5. \A n \in 1 .. L : n # L => SetTop(old)[n] = calls[n]  BY <1>1, <1>4
<1>6. SetTop(old)[L] = c  BY <1>1, <1>2, <1>4
<1>7. SetTop(old) \in Seq(Calls) /\ Len(SetTop(old)) = L  BY <1>1, <1>2, <1>3, <1>4
<1>. QED  BY <1>3, <1>5, <1>6, <1>7 DEF Pending

\* The old table takes the place of the new, empty one.
LEMMA GrowStep ==
  ASSUME IndInv, Grow, NEW L, L = Len(calls)
  PROVE  /\ table_size' = 2 * table_size /\ size' = 0 /\ it' = it /\ out' = out
         /\ Slots' = 0 .. 2 * table_size - 1 /\ data' = [s \in Slots' |-> Free]
         /\ L \in Pending /\ calls[L].old = <<>> /\ Pending' = Pending
         /\ calls' \in Seq(Calls)
         /\ \A n \in Pending : /\ calls'[n].key = calls[n].key
                               /\ calls'[n].value = calls[n].value
                               /\ n # L => calls'[n].old = calls[n].old
         /\ Len(calls'[L].old) = table_size
         /\ \A j \in 1 .. table_size : calls'[L].old[j] = data[j - 1] /\ j - 1 \in Slots
<1>. DEFINE old == [i \in 1 .. table_size |-> data[i - 1]]
<1>1. calls # <<>> /\ Top.old = <<>> /\ TypeOK  BY DEF Grow, Searches, IndInv
<1>2. /\ table_size' = 2 * table_size /\ size' = 0 /\ data' = EmptyTable(2 * table_size)
      /\ calls' = SetTop(old) /\ it' = it /\ out' = out
  BY DEF Grow
<1>3. table_size \in Nat \ {0} /\ data \in [Slots -> Elements \cup {Free}]
  BY <1>1 DEF TypeOK
<1>4. /\ old \in Seq(Elements \cup {Free}) /\ Len(old) = table_size
      /\ \A j \in 1 .. table_size : old[j] = data[j - 1] /\ j - 1 \in Slots
  <2>1. \A j \in 1 .. table_size : j - 1 \in Slots  BY <1>3 DEF Slots
  <2>2. \A j \in 1 .. table_size : data[j - 1] \in Elements \cup {Free}  BY <1>3, <2>1
  <2>. QED  BY <1>3, <2>1, <2>2
<1>5. L \in Nat \ {0} /\ Top = calls[L]  BY <1>1, TopType
<1>. HIDE DEF old
<1>6. /\ calls' \in Seq(Calls) /\ Len(calls') = L
      /\ \A n \in Pending : n # L => calls'[n] = calls[n]
      /\ calls'[L].key = calls[L].key /\ calls'[L].value = calls[L].value
      /\ calls'[L].old = old
  BY <1>1, <1>2, <1>4, <1>5, SetTopType
<1>7. Slots' = 0 .. 2 * table_size - 1 /\ data' = [s \in Slots' |-> Free]
  BY <1>2, <1>3 DEF Slots, EmptyTable
<1>8. L \in Pending /\ Pending' = Pending  BY <1>5, <1>6, SMTT(30) DEF Pending
<1>. QED  BY <1>1, <1>2, <1>4, <1>5, <1>6, <1>7, <1>8, ZenonT(40)

LEMMA GrowInv ==
  ASSUME IndInv, Grow
  PROVE  IndInv'
<1>0. PICK L : L = Len(calls)  BY Zenon
<1>1. TypeOK /\ KeysDistinct  BY DEF IndInv
<1>2. /\ table_size' = 2 * table_size /\ size' = 0 /\ it' = it /\ out' = out
      /\ data' = [s \in Slots' |-> Free]
      /\ L \in Pending /\ Pending' = Pending /\ calls' \in Seq(Calls)
  BY <1>0, GrowStep
<1>3. /\ \A n \in Pending : /\ calls'[n].key = calls[n].key
                            /\ n # L => calls'[n].old = calls[n].old
      /\ Len(calls'[L].old) = table_size
      /\ \A j \in 1 .. table_size : calls'[L].old[j] = data[j - 1] /\ j - 1 \in Slots
  BY <1>0, GrowStep
<1>4. table_size \in Nat \ {0} /\ it \in -2 .. table_size  BY <1>1 DEF TypeOK
<1>5. \A s \in Slots' : ~InUse(s)'  BY <1>2 DEF InUse
<1>6. TypeOK'
  <2>1. data' \in [Slots' -> Elements \cup {Free}]  BY <1>2
  <2>2. table_size' \in Nat \ {0} /\ it' \in -2 .. table_size'  BY <1>2, <1>4
  <2>. QED  BY <1>1, <1>2, <2>1, <2>2 DEF TypeOK
<1>7. InReach'  BY <1>5 DEF InReach
<1>8. Counted'
  <2>1. Used' = {}  BY <1>5 DEF Used
  <2>. QED  BY <1>2, <2>1, FS_EmptySet DEF Counted
<1>9. KeysDistinct'
  <2>1. Pending' = Pending /\ L \in Pending /\ \A n \in Pending : calls'[n].key = calls[n].key
    BY <1>2, <1>3
  <2>2. \A n \in Pending : n # L => calls'[n].old = calls[n].old /\ OldOf(n)' = OldOf(n)
    BY <1>3 DEF OldOf
  <2>3. \A j \in OldOf(L)' : /\ j - 1 \in Slots /\ InUse(j - 1) /\ j \in Int
                             /\ calls'[L].old[j].key = data[j - 1].key
    BY <1>3, <1>4, SMTT(30) DEF OldOf, InUse
  <2>4. \A m, n \in Pending' : m # n => calls'[m].key # calls'[n].key
    BY <1>1, <2>1, SMTT(30) DEF KeysDistinct
  <2>5. ASSUME NEW m \in Pending, NEW n \in Pending, NEW j \in OldOf(n)'
        PROVE  calls'[m].key # calls'[n].old[j].key
    BY <1>1, <2>1, <2>2, <2>3, <2>5, SMTT(30) DEF KeysDistinct
  <2>6. ASSUME NEW m \in Pending, NEW n \in Pending, NEW i \in OldOf(m)', NEW j \in OldOf(n)',
               m # n \/ i # j
        PROVE  calls'[m].old[i].key # calls'[n].old[j].key
    <3>1. \A s, t \in Slots : InUse(s) /\ InUse(t) /\ s # t => data[s].key # data[t].key
      BY <1>1, SMTT(30) DEF KeysDistinct
    <3>2. \A s \in Slots, q \in Pending : \A h \in OldOf(q) :
            InUse(s) => data[s].key # calls[q].old[h].key
      BY <1>1 DEF KeysDistinct
    <3>3. CASE m # L /\ n # L  BY <1>1, <2>2, <2>6, <3>3, SMTT(30) DEF KeysDistinct
    <3>4. CASE m # L /\ n = L
      <4>1. i \in OldOf(m) /\ j - 1 \in Slots /\ InUse(j - 1)  BY <2>2, <2>3, <3>4
      <4>2. data[j - 1].key # calls[m].old[i].key  BY <3>2, <4>1
      <4>. QED  BY <2>2, <2>3, <3>4, <4>2
    <3>5. CASE m = L /\ n # L
      <4>1. j \in OldOf(n) /\ i - 1 \in Slots /\ InUse(i - 1)  BY <2>2, <2>3, <3>5
      <4>2. data[i - 1].key # calls[n].old[j].key  BY <3>2, <4>1
      <4>. QED  BY <2>2, <2>3, <3>5, <4>2, SMTT(30)
    <3>6. CASE m = L /\ n = L
      <4>1. i - 1 # j - 1  BY <2>3, <2>6, <3>6
      <4>. QED  BY <2>3, <3>1, <3>6, <4>1, SMTT(30)
    <3>. QED  BY <3>3, <3>4, <3>5, <3>6, SMTT(30)
  <2>7. \A m, n \in Pending' : \A j \in OldOf(n)' : calls'[m].key # calls'[n].old[j].key
    BY <2>1, <2>5
  <2>8. \A m, n \in Pending' : \A i \in OldOf(m)', j \in OldOf(n)' :
          m # n \/ i # j => calls'[m].old[i].key # calls'[n].old[j].key
    BY <2>1, <2>6, SMTT(30)
  <2>. QED  BY <1>5, <2>4, <2>7, <2>8 DEF KeysDistinct
<1>. QED  BY <1>6, <1>7, <1>8, <1>9 DEF IndInv

\* An element goes from the old table into an insertion of its own.
LEMMA CopyStep ==
  ASSUME IndInv, Copy, NEW L, L = Len(calls), NEW o, o = calls[L].old
  PROVE  /\ UNCHANGED <<table_size, size, data, it, out>>
         /\ L \in Pending /\ L + 1 \notin Pending /\ L \in Nat
         /\ calls' \in Seq(Calls)
         /\ \A n \in Pending : /\ calls'[n].key = calls[n].key
                               /\ calls'[n].value = calls[n].value
                               /\ n # L => calls'[n].old = calls[n].old
         /\ Len(o) \in Nat /\ Len(o) >= 1 /\ Len(calls'[L].old) = Len(o) - 1
         /\ \A j \in 1 .. Len(o) - 1 : calls'[L].old[j] = o[j + 1]
         /\ \/ o[1] = Free /\ Pending' = Pending
            \/ /\ o[1] # Free /\ Pending' = Pending \cup {L + 1}
               /\ calls'[L + 1].key = o[1].key /\ calls'[L + 1].value = o[1].value
               /\ calls'[L + 1].old = <<>>
<1>. DEFINE e == Head(o)
            up == SetTop(Tail(o))
            c == Call(e.key, e.value)
<1>1. calls # <<>> /\ Top.old # <<>> /\ TypeOK  BY DEF Copy, IndInv
<1>2. L \in Nat /\ L >= 1 /\ Top = calls[L] /\ o = Top.old /\ o \in Seq(Elements \cup {Free})
  BY <1>1, TopType
<1>3. /\ calls' = IF e = Free THEN up ELSE Append(up, c)
      /\ UNCHANGED <<table_size, size, data, it, out>>
  BY <1>2 DEF Copy
<1>4. /\ e = o[1] /\ e \in Elements \cup {Free} /\ Tail(o) \in Seq(Elements \cup {Free})
      /\ Len(o) \in Nat /\ Len(o) >= 1 /\ Len(Tail(o)) = Len(o) - 1
      /\ \A j \in 1 .. Len(o) - 1 : Tail(o)[j] = o[j + 1]
  <2>1. o # <<>>  BY <1>1, <1>2
  <2>. QED  BY <1>2, <2>1
<1>5. /\ up \in Seq(Calls) /\ Len(up) = L
      /\ \A n \in Pending : n # L => up[n] = calls[n]
      /\ up[L].key = calls[L].key /\ up[L].value = calls[L].value /\ up[L].old = Tail(o)
  BY <1>1, <1>2, <1>4, SetTopType, ZenonT(40)
<1>. HIDE DEF up, e
<1>6. e # Free => /\ e \in Elements /\ c \in Calls
                  /\ c.key = e.key /\ c.value = e.value /\ c.old = <<>>
  BY <1>4 DEF Call, Calls, Elements
<1>. HIDE DEF c
<1>7. calls' \in Seq(Calls)  BY <1>3, <1>5, <1>6
<1>8. \A n \in Pending : calls'[n] = up[n]
  BY <1>2, <1>3, <1>5, <1>6 DEF Pending
<1>9. L \in Pending /\ L + 1 \notin Pending  BY <1>2 DEF Pending
<1>10. \/ e = Free /\ Pending' = Pending
       \/ e # Free /\ Pending' = Pending \cup {L + 1} /\ calls'[L + 1] = c
  <2>1. CASE e = Free  BY <1>2, <1>3, <1>5, <2>1 DEF Pending
  <2>2. CASE e # Free
    <3>1. calls' = Append(up, c)  BY <1>3, <2>2
    <3>2. Len(calls') = L + 1 /\ calls'[L + 1] = c  BY <1>2, <1>5, <1>6, <2>2, <3>1, SMTT(30)
    <3>3. Pending' = Pending \cup {L + 1}  BY <1>2, <3>2 DEF Pending
    <3>. QED  BY <2>2, <3>2, <3>3
  <2>. QED  BY <2>1, <2>2
<1>11. \A n \in Pending : /\ calls'[n].key = calls[n].key
                          /\ calls'[n].value = calls[n].value
                          /\ n # L => calls'[n].old = calls[n].old
                          /\ n = L => calls'[n].old = Tail(o)
  BY <1>5, <1>8, SMTT(30)
<1>. QED  BY <1>2, <1>3, <1>4, <1>6, <1>7, <1>9, <1>10, <1>11, ZenonT(40)

LEMMA CopyInv ==
  ASSUME IndInv, Copy
  PROVE  IndInv'
<1>0. PICK L, o : L = Len(calls) /\ o = calls[L].old  BY Zenon
<1>. DEFINE e == o[1]
<1>1. TypeOK /\ KeysDistinct  BY DEF IndInv
<1>2. UNCHANGED <<table_size, size, data, it, out>> /\ calls' \in Seq(Calls)
  BY <1>0, CopyStep
<1>3. /\ L \in Pending /\ L + 1 \notin Pending
      /\ \A n \in Pending : /\ calls'[n].key = calls[n].key
                            /\ n # L => calls'[n].old = calls[n].old
  BY <1>0, CopyStep
<1>4. /\ Len(o) \in Nat /\ Len(o) >= 1 /\ Len(calls'[L].old) = Len(o) - 1
      /\ \A j \in 1 .. Len(o) - 1 : calls'[L].old[j] = o[j + 1]
  <2>. HIDE DEF e
  <2>1. Len(o) \in Nat /\ Len(o) >= 1 /\ Len(calls'[L].old) = Len(o) - 1
    BY <1>0, CopyStep, ZenonT(40)
  <2>2. \A j \in 1 .. Len(o) - 1 : calls'[L].old[j] = o[j + 1]
    BY <1>0, CopyStep
  <2>. QED  BY <2>1, <2>2
<1>5. \/ e = Free /\ Pending' = Pending
      \/ /\ e # Free /\ Pending' = Pending \cup {L + 1}
         /\ calls'[L + 1].key = e.key /\ calls'[L + 1].old = <<>>
  BY <1>0, CopyStep
<1>6. o = calls[L].old  BY <1>0
<1>. HIDE DEF e
<1>7. Slots' = Slots /\ \A s : InUse(s)' <=> InUse(s)  BY <1>2 DEF Slots, InUse
<1>8. TypeOK'  BY <1>1, <1>2, <1>7, SMTT(30) DEF TypeOK
<1>9. InReach'  BY <1>2, <1>7 DEF IndInv, InReach, Probe
<1>10. Used' = Used  BY <1>7 DEF Used
<1>11. Counted'  BY <1>2, <1>10, SMTT(30) DEF IndInv, Counted
<1>12. /\ \A s, t \in Slots : InUse(s) /\ InUse(t) /\ s # t => data[s].key # data[t].key
       /\ \A s \in Slots, n \in Pending : InUse(s) => data[s].key # calls[n].key
  BY <1>1 DEF KeysDistinct
<1>13. \A m, n \in Pending : m # n => calls[m].key # calls[n].key
  BY <1>1, SMTT(30) DEF KeysDistinct
<1>14. \A s \in Slots, n \in Pending : \A j \in OldOf(n) :
         InUse(s) => data[s].key # calls[n].old[j].key
  BY <1>1 DEF KeysDistinct
<1>15. \A m, n \in Pending : \A j \in OldOf(n) : calls[m].key # calls[n].old[j].key
  BY <1>1 DEF KeysDistinct
<1>16. \A m, n \in Pending : \A i \in OldOf(m), j \in OldOf(n) :
         m # n \/ i # j => calls[m].old[i].key # calls[n].old[j].key
  BY <1>1 DEF KeysDistinct
<1>17. KeysDistinct'
  <2>1. \A n \in Pending : n # L => OldOf(n)' = OldOf(n)  BY <1>3 DEF OldOf
  <2>2. \A j \in OldOf(L)' : /\ j \in Int /\ j + 1 \in OldOf(L) /\ j + 1 # 1
                             /\ calls'[L].old[j] = calls[L].old[j + 1]
    <3>1. \A j \in OldOf(L)' : j \in 1 .. Len(o) - 1 /\ calls'[L].old[j] # Free
      BY <1>4 DEF OldOf
    <3>2. \A j \in 1 .. Len(o) - 1 : j \in Int /\ j + 1 \in 1 .. Len(o) /\ j + 1 # 1
      BY <1>4
    <3>. QED  BY <1>4, <1>6, <3>1, <3>2 DEF OldOf
  <2>3. e # Free => 1 \in OldOf(L) /\ calls[L].old[1] = e
    BY <1>4, <1>6 DEF OldOf, e
  <2>4. L + 1 \in Pending' => OldOf(L + 1)' = {}  BY <1>3, <1>5 DEF OldOf
  <2>5. \A s, t \in Slots' : InUse(s)' /\ InUse(t)' /\ s # t => data'[s].key # data'[t].key
    BY <1>2, <1>7, <1>12
  <2>6. \A s \in Slots', n \in Pending' : InUse(s)' => data'[s].key # calls'[n].key
    <3>1. \A s \in Slots, n \in Pending : InUse(s) => data[s].key # calls'[n].key
      BY <1>3, <1>12
    <3>2. e # Free => \A s \in Slots : InUse(s) => data[s].key # e.key
      BY <1>3, <1>14, <2>3
    <3>. QED  BY <1>2, <1>7, <1>3, <1>5, <3>1, <3>2
  <2>7. \A m, n \in Pending' : m # n => calls'[m].key # calls'[n].key
    <3>1. \A m, n \in Pending : m # n => calls'[m].key # calls'[n].key
      BY <1>3, <1>13
    <3>2. e # Free => \A n \in Pending : calls'[n].key # e.key
      BY <1>3, <1>15, <2>3
    <3>. QED  BY <1>3, <1>5, <3>1, <3>2
  <2>8. \A n \in Pending' : \A j \in OldOf(n)' : n \in Pending
    BY <1>3, <1>5, <2>4
  <2>9. \A n \in Pending : \A j \in OldOf(n)' :
          \E i \in OldOf(n) : /\ calls'[n].old[j].key = calls[n].old[i].key
                              /\ n = L => i = j + 1 /\ i # 1
                              /\ n # L => i = j
    BY <1>3, <2>1, <2>2
  <2>10. \A s \in Slots', n \in Pending' : \A j \in OldOf(n)' :
           InUse(s)' => data'[s].key # calls'[n].old[j].key
    <3>. SUFFICES ASSUME NEW s \in Slots, NEW n \in Pending, NEW j \in OldOf(n)', InUse(s)
                  PROVE  data[s].key # calls'[n].old[j].key
      BY <1>2, <1>7, <2>8, SMTT(30)
    <3>1. PICK i \in OldOf(n) : calls'[n].old[j].key = calls[n].old[i].key  BY <2>9, SMTT(30)
    <3>. QED  BY <1>14, <3>1, SMTT(30)
  <2>11. \A m, n \in Pending' : \A j \in OldOf(n)' : calls'[m].key # calls'[n].old[j].key
    <3>. SUFFICES ASSUME NEW m \in Pending', NEW n \in Pending, NEW j \in OldOf(n)'
                  PROVE  calls'[m].key # calls'[n].old[j].key
      BY <2>8
    <3>1. PICK i \in OldOf(n) : /\ calls'[n].old[j].key = calls[n].old[i].key
                                /\ n = L => i # 1
      BY <2>9
    <3>2. CASE m \in Pending
      <4>1. calls[m].key # calls[n].old[i].key  BY <1>15, <3>2, SMTT(30)
      <4>. QED  BY <1>3, <3>1, <3>2, <4>1, SMTT(30)
    <3>3. CASE m = L + 1 /\ e # Free /\ calls'[m].key = e.key
      <4>1. L # n \/ 1 # i  BY <3>1, SMTT(30)
      <4>2. calls[L].old[1].key # calls[n].old[i].key  BY <1>3, <1>16, <2>3, <3>3, <4>1, SMTT(30)
      <4>. QED  BY <2>3, <3>1, <3>3, <4>2, SMTT(30)
    <3>. QED  BY <1>3, <1>5, <3>2, <3>3, SMTT(30)
  <2>12. ASSUME NEW m \in Pending', NEW n \in Pending', NEW i \in OldOf(m)', NEW j \in OldOf(n)',
                m # n \/ i # j
         PROVE  calls'[m].old[i].key # calls'[n].old[j].key
    <3>1. m \in Pending /\ n \in Pending  BY <2>8, SMTT(30)
    <3>2. PICK a \in OldOf(m) : /\ calls'[m].old[i].key = calls[m].old[a].key
                                /\ m = L => a = i + 1
                                /\ m # L => a = i
      BY <2>9, <3>1
    <3>3. PICK b \in OldOf(n) : /\ calls'[n].old[j].key = calls[n].old[b].key
                                /\ n = L => b = j + 1
                                /\ n # L => b = j
      BY <2>9, <3>1
    <3>4. m # n \/ a # b
      <4>1. m = L => i \in Int  BY <2>2
      <4>2. n = L => j \in Int  BY <2>2
      <4>. QED  BY <2>12, <3>2, <3>3, <4>1, <4>2, SMTT(30)
    <3>5. calls[m].old[a].key # calls[n].old[b].key  BY <1>16, <3>1, <3>4
    <3>. QED  BY <3>2, <3>3, <3>5
  <2>13. \A m, n \in Pending' : \A i \in OldOf(m)', j \in OldOf(n)' :
           m # n \/ i # j => calls'[m].old[i].key # calls'[n].old[j].key
    BY <2>12
  <2>. QED  BY <2>5, <2>6, <2>7, <2>10, <2>11, <2>13, Zenon DEF KeysDistinct
<1>. QED  BY <1>8, <1>9, <1>11, <1>17 DEF IndInv

-----------------------------------------------------------------------------
(***************************************************************************)
(* The inductive invariant: types, windows, distinct keys, and the count,  *)
(* the last two also of elements that are being copied.                    *)
(***************************************************************************)
THEOREM HashmapInvariant == Spec => []IndInv
<1>1. IndInv /\ [Next]_vars => IndInv'
  <2>. SUFFICES ASSUME IndInv, [Next]_vars PROVE IndInv'  OBVIOUS
  <2>1. CASE \E k \in Keys, v \in Values : Put(k, v)  BY <2>1, PutInv
  <2>2. CASE Store  BY <2>2, StoreInv
  <2>3. CASE Grow  BY <2>3, GrowInv
  <2>4. CASE OutOfMemory  BY <2>4, OutOfMemoryInv
  <2>5. CASE Copy  BY <2>5, CopyInv
  <2>6. CASE \E k \in Keys, remove \in BOOLEAN : Get(k, remove)  BY <2>6, GetInv
  <2>7. CASE ItNew \/ ItNext \/ ItRemove \/ ItFree  BY <2>7, IteratorInv
  <2>8. CASE UNCHANGED vars  BY <2>8, SameTable DEF vars, IndInv, TypeOK
  <2>. QED  BY <2>1, <2>2, <2>3, <2>4, <2>5, <2>6, <2>7, <2>8, SMTT(30) DEF Next
<1>. QED  BY <1>1, InitInv, PTL DEF Spec

(***************************************************************************)
(* hashmap_get finds whatever is in the table, for every hash function,    *)
(* window and size: no order of insertions, removals and rehashing moves   *)
(* an element out of its window or inserts a key twice.                    *)
(***************************************************************************)
THEOREM NothingOutOfReach == Spec => []Findable
<1>1. IndInv => Findable  BY DEF IndInv, InReach, Findable
<1>. QED  BY <1>1, HashmapInvariant, PTL

(***************************************************************************)
(* hashmap_length is the number of elements in use.                        *)
(***************************************************************************)
THEOREM SizeNeverDrifts == Spec => []SizeIsCount
<1>1. IndInv => SizeIsCount
  <2>1. Used = {s \in Slots : data[s] # Free}  BY DEF Used, InUse
  <2>. QED  BY <2>1 DEF IndInv, Counted, SizeIsCount
<1>. QED  BY <1>1, HashmapInvariant, PTL

(***************************************************************************)
(* The size, the iterator's index and the results keep their types: in     *)
(* particular no removal takes the size below zero.                        *)
(***************************************************************************)
THEOREM HashmapTypes == Spec => []TypeOK
<1>1. IndInv => TypeOK  BY DEF IndInv
<1>. QED  BY <1>1, HashmapInvariant, PTL

-----------------------------------------------------------------------------
\* The three places in which the map's elements are while a table is copied.
InTable(e) == \E s \in Slots : InUse(s) /\ e = data[s]

InOld(e) == \E n \in Pending : \E j \in OldOf(n) : e = calls[n].old[j]

OnTheWay(e) ==
  \E n \in Pending : n # 1 /\ e = [key |-> calls[n].key, value |-> calls[n].value]

LEMMA HeldIff ==
  ASSUME TypeOK
  PROVE  \A e : e \in Held <=> e \in Elements /\ (InTable(e) \/ InOld(e) \/ OnTheWay(e))
<1>1. ASSUME NEW n \in Pending
      PROVE  /\ calls[n].key \in Keys /\ calls[n].value \in Values
             /\ calls[n].old \in Seq(Elements \cup {Free})
  <2>1. calls[n] \in Calls  BY DEF TypeOK, Pending
  <2>. QED  BY <2>1 DEF Calls
<1>2. ASSUME NEW e PROVE InTable(e) => e \in Elements
  BY DEF InTable, InUse, TypeOK
<1>3. ASSUME NEW e PROVE InOld(e) => e \in Elements
  <2>1. \A n \in Pending : \A j \in OldOf(n) : calls[n].old[j] \in Elements
    BY <1>1 DEF OldOf
  <2>. QED  BY <2>1 DEF InOld
<1>4. ASSUME NEW e PROVE OnTheWay(e) => e \in Elements
  BY <1>1 DEF OnTheWay, Elements
<1>5. Free \notin Elements  BY HashmapAssumption
<1>6. ASSUME NEW e PROVE e \in Copying <=> OnTheWay(e)
  <2>1. \A n : n \in 2 .. Len(calls) <=> n \in Pending /\ n # 1
    BY DEF TypeOK, Pending
  <2>. QED  BY <2>1 DEF Copying, OnTheWay
<1>7. ASSUME NEW e, e # Free PROVE e \in {data[s] : s \in Slots} <=> InTable(e)
  BY <1>7 DEF InTable, InUse
<1>8. ASSUME NEW e, e # Free PROVE e \in Old <=> InOld(e)
  BY <1>8 DEF InOld, Old, Waiting, OldOf
<1>9. \A e : e \in Held <=>
               e # Free /\ (e \in {data[s] : s \in Slots} \/ e \in Old \/ e \in Copying)
  BY DEF Held
<1>. SUFFICES ASSUME NEW e
              PROVE  e \in Held <=> e \in Elements /\ (InTable(e) \/ InOld(e) \/ OnTheWay(e))
  OBVIOUS
<1>10. CASE e = Free  BY <1>5, <1>9, <1>10
<1>11. CASE e # Free  BY <1>2, <1>3, <1>4, <1>6, <1>7, <1>8, <1>9, <1>11, Zenon
<1>. QED  BY <1>10, <1>11

\* Distinct keys: a key stands for one element.
LEMMA HeldUnique ==
  ASSUME IndInv, NEW d \in Held, NEW e \in Held, d.key = e.key
  PROVE  d = e
<1>. USE DEF IndInv
<1>1. InTable(d) \/ InOld(d) \/ OnTheWay(d)  BY HeldIff
<1>2. InTable(e) \/ InOld(e) \/ OnTheWay(e)  BY HeldIff
<1>3. CASE InTable(d) /\ InTable(e)  BY <1>3 DEF InTable, KeysDistinct
<1>4. CASE InTable(d) /\ InOld(e)  BY <1>4 DEF InTable, InOld, KeysDistinct
<1>5. CASE InTable(d) /\ OnTheWay(e)  BY <1>5, SMTT(30) DEF InTable, OnTheWay, KeysDistinct
<1>6. CASE InOld(d) /\ InTable(e)  BY <1>6 DEF InTable, InOld, KeysDistinct
<1>7. CASE InOld(d) /\ InOld(e)  BY <1>7 DEF InOld, KeysDistinct
<1>8. CASE InOld(d) /\ OnTheWay(e)  BY <1>8, SMTT(30) DEF InOld, OnTheWay, KeysDistinct
<1>9. CASE OnTheWay(d) /\ InTable(e)  BY <1>9 DEF InTable, OnTheWay, KeysDistinct
<1>10. CASE OnTheWay(d) /\ InOld(e)  BY <1>10, SMTT(30) DEF InOld, OnTheWay, KeysDistinct
<1>11. CASE OnTheWay(d) /\ OnTheWay(e)  BY <1>11 DEF OnTheWay, KeysDistinct
<1>. QED
  BY <1>1, <1>2, <1>3, <1>4, <1>5, <1>6, <1>7, <1>8, <1>9, <1>10, <1>11, SMTT(30)

\* The mapped store is the function that the elements held describe.
Described ==
  /\ Contents \in [Keys -> Values \cup {Missing}]
  /\ Held \subseteq Elements
  /\ \A e \in Held : Contents[e.key] = e.value
  /\ \A k \in Keys : Contents[k] # Missing => \E e \in Held : e.key = k

LEMMA ContentsDescribed == IndInv => Described
<1>. SUFFICES ASSUME IndInv PROVE Described  OBVIOUS
<1>1. Held \subseteq Elements  BY HeldIff DEF IndInv
<1>2. ASSUME NEW k \in Keys, NEW e \in Held, e.key = k
      PROVE  Contents[k] = e.value
  <2>. DEFINE c == CHOOSE d \in Held : d.key = k
  <2>1. c \in Held /\ c.key = k  BY <1>2
  <2>2. Contents[k] = c.value  BY <1>2 DEF Contents
  <2>. HIDE DEF c
  <2>3. c = e  BY <1>2, <2>1, HeldUnique
  <2>. QED  BY <2>2, <2>3
<1>3. ASSUME NEW k \in Keys, \A e \in Held : e.key # k
      PROVE  Contents[k] = Missing
  BY <1>3 DEF Contents
<1>4. \A k \in Keys : Contents[k] \in Values \cup {Missing}
  BY <1>1, <1>2, <1>3 DEF Elements
<1>5. Contents \in [Keys -> Values \cup {Missing}]
  <2>1. Contents = [k \in Keys |-> Contents[k]]  BY DEF Contents
  <2>. QED  BY <1>4, <2>1
<1>6. \A e \in Held : Contents[e.key] = e.value
  BY <1>1, <1>2 DEF Elements
<1>7. \A k \in Keys : Contents[k] # Missing => \E e \in Held : e.key = k
  BY <1>3
<1>. QED  BY <1>1, <1>5, <1>6, <1>7 DEF Described

\* The three lemmas that follow are implications, to be used of the next state.
HeldChar == \A e : e \in Held <=> e \in Elements /\ (InTable(e) \/ InOld(e) \/ OnTheWay(e))

LEMMA IndHeld == IndInv => HeldChar
BY HeldIff DEF IndInv, HeldChar

LEMMA NoIterator == it = -2 => Todo = {} /\ Current = Missing
BY DEF Todo, Current, Slots

LEMMA SameHeld ==
  ASSUME Held' = Held
  PROVE  Contents' = Contents
BY DEF Contents

LEMMA AddHeld ==
  ASSUME Described, Described', NEW e \in Elements, Held' = Held \cup {e},
         \A d \in Held : d.key # e.key
  PROVE  Contents[e.key] = Missing /\ Contents' = [Contents EXCEPT ![e.key] = e.value]
<1>1. e.key \in Keys /\ e.value \in Values  BY DEF Elements
<1>2. Contents[e.key] = Missing  BY <1>1 DEF Described
<1>3. Contents'[e.key] = e.value  BY DEF Described
<1>4. ASSUME NEW k \in Keys, k # e.key PROVE Contents'[k] = Contents[k]
  <2>1. CASE \E d \in Held : d.key = k  BY <2>1 DEF Described
  <2>2. CASE \A d \in Held : d.key # k
    <3>1. Contents[k] = Missing  BY <2>2 DEF Described
    <3>2. Contents'[k] = Missing  BY <1>4, <2>2 DEF Described
    <3>. QED  BY <3>1, <3>2
  <2>. QED  BY <2>1, <2>2
<1>5. Contents \in [Keys -> Values \cup {Missing}] /\ Contents' \in [Keys -> Values \cup {Missing}]
  BY DEF Described
<1>. QED  BY <1>1, <1>2, <1>3, <1>4, <1>5

LEMMA RemoveHeld ==
  ASSUME Described, Described', NEW e \in Held, Held' = Held \ {e},
         \A d \in Held : d.key = e.key => d = e
  PROVE  /\ Contents[e.key] = e.value /\ e.value # Missing
         /\ Contents' = [Contents EXCEPT ![e.key] = Missing]
<1>1. e \in Elements /\ e.key \in Keys /\ e.value \in Values  BY DEF Described, Elements
<1>2. Contents[e.key] = e.value /\ e.value # Missing
  BY <1>1, HashmapAssumption DEF Described
<1>3. Contents'[e.key] = Missing  BY <1>1 DEF Described
<1>4. ASSUME NEW k \in Keys, k # e.key PROVE Contents'[k] = Contents[k]
  <2>1. CASE \E d \in Held : d.key = k  BY <1>4, <2>1 DEF Described
  <2>2. CASE \A d \in Held : d.key # k
    <3>1. Contents[k] = Missing  BY <2>2 DEF Described
    <3>2. Contents'[k] = Missing  BY <2>2 DEF Described
    <3>. QED  BY <3>1, <3>2
  <2>. QED  BY <2>1, <2>2
<1>5. Contents \in [Keys -> Values \cup {Missing}] /\ Contents' \in [Keys -> Values \cup {Missing}]
  BY DEF Described
<1>. QED  BY <1>1, <1>2, <1>3, <1>4, <1>5, SMTT(30)

LEMMA LoseHeld ==
  ASSUME Described, Described', Held' \subseteq Held
  PROVE  \E lost \in SUBSET Map!Present :
           Contents' = [k \in Keys |-> IF k \in lost THEN Missing ELSE Contents[k]]
<1>. DEFINE lost == {k \in Keys : Contents[k] # Missing /\ Contents'[k] = Missing}
<1>1. lost \in SUBSET Map!Present  BY DEF Map!Present
<1>2. ASSUME NEW k \in Keys, k \notin lost PROVE Contents'[k] = Contents[k]
  <2>1. CASE \E d \in Held' : d.key = k  BY <2>1 DEF Described
  <2>2. CASE \A d \in Held' : d.key # k
    <3>1. Contents'[k] = Missing  BY <2>2 DEF Described
    <3>. QED  BY <1>2, <3>1
  <2>. QED  BY <2>1, <2>2
<1>3. Contents' \in [Keys -> Values \cup {Missing}]  BY DEF Described
<1>4. Contents' = [k \in Keys |-> IF k \in lost THEN Missing ELSE Contents[k]]
  BY <1>2, <1>3
<1>. QED  BY <1>1, <1>4, ZenonT(40)

\* Copying an element and growing the table move elements.
LEMMA CopyHeld ==
  ASSUME IndInv, HeldChar, HeldChar', Copy
  PROVE  Held' = Held
<1>0. PICK L, o : L = Len(calls) /\ o = calls[L].old  BY ZenonT(40)
<1>1. /\ data' = data /\ Slots' = Slots /\ o = calls[L].old
      /\ L \in Pending /\ L \in Nat /\ L + 1 \notin Pending /\ L + 1 # 1
      /\ \A n \in Pending : /\ calls'[n].key = calls[n].key
                            /\ calls'[n].value = calls[n].value
                            /\ n # L => calls'[n].old = calls[n].old
  <2>1. L \in Nat /\ L # 0  BY <1>0, CopyStep DEF Pending
  <2>. QED  BY <1>0, <2>1, CopyStep, SMTT(30) DEF Slots
<1>2. /\ Len(o) \in Nat /\ Len(o) >= 1 /\ Len(calls'[L].old) = Len(o) - 1
      /\ \A j \in 1 .. Len(o) - 1 : calls'[L].old[j] = o[j + 1]
  <2>1. Len(o) \in Nat /\ Len(o) >= 1 /\ Len(calls'[L].old) = Len(o) - 1
    BY <1>0, CopyStep, SMTT(30)
  <2>2. \A j \in 1 .. Len(o) - 1 : calls'[L].old[j] = o[j + 1]
    BY <1>0, CopyStep
  <2>. QED  BY <2>1, <2>2
<1>3. \/ o[1] = Free /\ Pending' = Pending
      \/ /\ o[1] # Free /\ Pending' = Pending \cup {L + 1}
         /\ calls'[L + 1].key = o[1].key /\ calls'[L + 1].value = o[1].value
         /\ calls'[L + 1].old = <<>>
  BY <1>0, CopyStep
<1>4. \A e : InTable(e)' <=> InTable(e)  BY <1>1 DEF InTable, InUse
<1>5. \A n \in Pending : n # L => OldOf(n)' = OldOf(n)  BY <1>1 DEF OldOf
<1>6. \A j : j \in OldOf(L)' <=> j \in 1 .. Len(o) - 1 /\ o[j + 1] # Free
  BY <1>2 DEF OldOf
<1>7. \A j : j \in OldOf(L) <=> j \in 1 .. Len(o) /\ o[j] # Free
  BY <1>1 DEF OldOf
<1>8. L + 1 \in Pending' => OldOf(L + 1)' = {}
  BY <1>1, <1>3 DEF OldOf
<1>9. ASSUME NEW e \in Elements, InOld(e)' PROVE InOld(e)
  <2>1. PICK n \in Pending' : \E j \in OldOf(n)' : e = calls'[n].old[j]
    BY <1>9 DEF InOld
  <2>2. PICK j \in OldOf(n)' : e = calls'[n].old[j]  BY <2>1
  <2>3. n \in Pending  BY <1>3, <1>8, <2>2, SMTT(30)
  <2>4. CASE n # L  BY <1>1, <1>5, <2>2, <2>3, <2>4, SMTT(30) DEF InOld
  <2>5. CASE n = L
    <3>1. j \in 1 .. Len(o) - 1 /\ o[j + 1] # Free /\ e = o[j + 1]
      BY <1>2, <1>6, <2>2, <2>5, SMTT(30)
    <3>2. j + 1 \in OldOf(L)  BY <1>2, <1>7, <3>1
    <3>. QED  BY <1>1, <3>1, <3>2, SMTT(30) DEF InOld
  <2>. QED  BY <2>4, <2>5
<1>10. ASSUME NEW e \in Elements, OnTheWay(e)' PROVE InOld(e) \/ OnTheWay(e)
  <2>1. PICK n \in Pending' : /\ n # 1
                              /\ e = [key |-> calls'[n].key, value |-> calls'[n].value]
    BY <1>10 DEF OnTheWay
  <2>2. CASE n \in Pending  BY <1>1, <2>1, <2>2 DEF OnTheWay
  <2>3. CASE n = L + 1 /\ o[1] # Free
    <3>1. 1 \in OldOf(L)  BY <1>2, <1>7, <2>3
    <3>2. o[1] \in Elements
      <4>1. calls[L] \in Calls  BY <1>1 DEF IndInv, TypeOK, Pending
      <4>2. o \in Seq(Elements \cup {Free})  BY <1>1, <4>1 DEF Calls
      <4>. QED  BY <1>2, <2>3, <4>2
    <3>3. e.key = o[1].key /\ e.value = o[1].value  BY <1>1, <1>3, <2>1, <2>3
    <3>4. e = o[1]  BY <3>2, <3>3 DEF Elements
    <3>. QED  BY <1>1, <3>1, <3>4 DEF InOld
  <2>. QED  BY <1>3, <2>2, <2>3
<1>11. ASSUME NEW e \in Elements, InOld(e) PROVE InOld(e)' \/ OnTheWay(e)'
  <2>1. PICK n \in Pending : \E j \in OldOf(n) : e = calls[n].old[j]
    BY <1>11 DEF InOld
  <2>2. PICK j \in OldOf(n) : e = calls[n].old[j]  BY <2>1
  <2>3. n \in Pending'  BY <1>3
  <2>4. CASE n # L  BY <1>1, <1>5, <2>2, <2>3, <2>4, ZenonT(40) DEF InOld
  <2>5. CASE n = L /\ j = 1
    <3>1. o[1] # Free /\ e = o[1]  BY <1>1, <1>7, <2>2, <2>5
    <3>2. /\ L + 1 \in Pending' /\ L + 1 # 1
          /\ e.key = calls'[L + 1].key /\ e.value = calls'[L + 1].value
      BY <1>1, <1>3, <3>1
    <3>3. e = [key |-> calls'[L + 1].key, value |-> calls'[L + 1].value]
      BY <3>2 DEF Elements
    <3>. QED  BY <3>2, <3>3 DEF OnTheWay
  <2>6. CASE n = L /\ j # 1
    <3>1. j \in 1 .. Len(o) /\ o[j] # Free /\ e = o[j]  BY <1>1, <1>7, <2>2, <2>6
    <3>2. j - 1 \in 1 .. Len(o) - 1 /\ (j - 1) + 1 = j  BY <1>2, <2>6, <3>1
    <3>3. j - 1 \in OldOf(L)' /\ calls'[L].old[j - 1] = e  BY <1>2, <1>6, <3>1, <3>2, SMTT(30)
    <3>. QED  BY <2>3, <2>6, <3>3 DEF InOld
  <2>. QED  BY <2>4, <2>5, <2>6
<1>12. ASSUME NEW e, OnTheWay(e) PROVE OnTheWay(e)'
  BY <1>1, <1>3, <1>12 DEF OnTheWay
<1>13. \A e : e \in Held' <=> e \in Held
  BY <1>4, <1>9, <1>10, <1>11, <1>12, SMTT(30) DEF HeldChar
<1>. QED  BY <1>13

LEMMA GrowHeld ==
  ASSUME IndInv, HeldChar, HeldChar', Grow
  PROVE  Held' = Held
<1>0. PICK L : L = Len(calls)  BY Zenon
<1>1. /\ data' = [s \in Slots' |-> Free]
      /\ L \in Pending /\ calls[L].old = <<>> /\ Pending' = Pending
      /\ \A n \in Pending : /\ calls'[n].key = calls[n].key
                            /\ calls'[n].value = calls[n].value
                            /\ n # L => calls'[n].old = calls[n].old
  BY <1>0, GrowStep
<1>2. /\ Len(calls'[L].old) = table_size /\ table_size \in Nat
      /\ \A j \in 1 .. table_size : calls'[L].old[j] = data[j - 1] /\ j - 1 \in Slots
  BY <1>0, GrowStep DEF IndInv, TypeOK
<1>3. \A n \in Pending : n # L => OldOf(n)' = OldOf(n)  BY <1>1 DEF OldOf
<1>4. OldOf(L) = {}  BY <1>1 DEF OldOf
<1>5. \A e : ~InTable(e)'  BY <1>1 DEF InTable, InUse
<1>6. \A e : OnTheWay(e)' <=> OnTheWay(e)  BY <1>1 DEF OnTheWay
<1>7. ASSUME NEW e, InOld(e)' PROVE InOld(e) \/ InTable(e)
  <2>1. PICK n \in Pending : \E j \in OldOf(n)' : e = calls'[n].old[j]
    BY <1>1, <1>7 DEF InOld
  <2>2. CASE n # L  BY <1>1, <1>3, <2>1, <2>2 DEF InOld
  <2>3. CASE n = L
    <3>1. PICK j \in 1 .. table_size : calls'[L].old[j] # Free /\ e = calls'[L].old[j]
      BY <1>2, <2>1, <2>3 DEF OldOf
    <3>. QED  BY <1>2, <3>1 DEF InTable, InUse
  <2>. QED  BY <2>2, <2>3
<1>8. ASSUME NEW e, InOld(e) PROVE InOld(e)'
  BY <1>1, <1>3, <1>4, <1>8 DEF InOld
<1>9. ASSUME NEW e, InTable(e) PROVE InOld(e)'
  <2>1. PICK s \in Slots : InUse(s) /\ e = data[s]  BY <1>9 DEF InTable
  <2>2. s + 1 \in 1 .. table_size /\ (s + 1) - 1 = s  BY <1>2 DEF Slots
  <2>3. calls'[L].old[s + 1] = e /\ e # Free  BY <1>2, <2>1, <2>2 DEF InUse
  <2>4. s + 1 \in OldOf(L)'  BY <1>2, <2>2, <2>3 DEF OldOf
  <2>. QED  BY <1>1, <2>3, <2>4 DEF InOld
<1>10. \A e : e \in Held' <=> e \in Held
  BY <1>5, <1>6, <1>7, <1>8, <1>9 DEF HeldChar
<1>. QED  BY <1>10

\* Storing adds the element of the insertion itself, or moves a copied one.
LEMMA StoreHeld ==
  ASSUME IndInv, HeldChar, HeldChar', Store, NEW L, L = Len(calls),
         NEW e, e = [key |-> calls[L].key, value |-> calls[L].value]
  PROVE  /\ e \in Elements /\ Held' = Held \cup {e}
         /\ L # 1 => e \in Held
         /\ L = 1 => \A d \in Held : d.key # e.key
<1>1. /\ L \in Pending /\ calls[L].old = <<>> /\ Pending' = Pending \ {L}
      /\ \A n \in Pending' : calls'[n] = calls[n]
      /\ Slots' = Slots
  BY StoreStep
<1>2. PICK s \in Slots : ~InUse(s) /\ data' = [data EXCEPT ![s] = e]
  BY StoreStep
<1>3. e \in Elements /\ e # Free
  <2>1. calls[L] \in Calls  BY <1>1 DEF IndInv, TypeOK, Pending
  <2>. QED  BY <2>1, HashmapAssumption DEF Calls, Elements
<1>4. /\ data'[s] = e /\ \A r \in Slots : r # s => data'[r] = data[r]
  BY <1>2, SMTT(30) DEF IndInv, TypeOK
<1>5. \A d : InTable(d)' <=> InTable(d) \/ d = e
  BY <1>1, <1>2, <1>3, <1>4, SMTT(30) DEF InTable, InUse
<1>6. OldOf(L) = {} /\ \A n \in Pending' : OldOf(n)' = OldOf(n)  BY <1>1 DEF OldOf
<1>7. \A d : InOld(d)' <=> InOld(d)
  <2>1. ASSUME NEW d, InOld(d)' PROVE InOld(d)  BY <1>1, <1>6, <2>1 DEF InOld
  <2>2. ASSUME NEW d, InOld(d) PROVE InOld(d)'  BY <1>1, <1>6, <2>2 DEF InOld
  <2>. QED  BY <2>1, <2>2
<1>8. \A d : OnTheWay(d)' => OnTheWay(d)  BY <1>1 DEF OnTheWay
<1>9. \A d : OnTheWay(d) => OnTheWay(d)' \/ d = e  BY <1>1, SMTT(30) DEF OnTheWay
<1>10. ASSUME NEW d PROVE d \in Held' <=> d \in Held \/ d = e
  <2>1. d \in Held <=> d \in Elements /\ (InTable(d) \/ InOld(d) \/ OnTheWay(d))
    BY Zenon DEF HeldChar
  <2>2. d \in Held' <=> d \in Elements /\ (InTable(d)' \/ InOld(d)' \/ OnTheWay(d)')
    BY Zenon DEF HeldChar
  <2>3. /\ InTable(d)' <=> InTable(d) \/ d = e
        /\ InOld(d)' <=> InOld(d)
        /\ OnTheWay(d)' => OnTheWay(d)
        /\ OnTheWay(d) => OnTheWay(d)' \/ d = e
    BY <1>5, <1>7, <1>8, <1>9, Zenon
  <2>. QED  BY <1>3, <2>1, <2>2, <2>3, Zenon
<1>11. L # 1 => e \in Held  BY <1>1, <1>3, SMTT(30) DEF HeldChar, OnTheWay
<1>12. ASSUME L = 1, NEW d \in Held PROVE d.key # e.key
  <2>1. Pending = {1} /\ e.key = calls[1].key
    <3>1. Len(calls) = 1  BY <1>12
    <3>. QED  BY <1>12, <3>1 DEF Pending
  <2>2. ~InOld(d) /\ ~OnTheWay(d)  BY <1>6, <1>12, <2>1, SMTT(30) DEF InOld, OnTheWay
  <2>3. PICK r \in Slots : InUse(r) /\ d = data[r]  BY <2>2 DEF HeldChar, InTable
  <2>. QED  BY <2>1, <2>3 DEF IndInv, KeysDistinct
<1>. QED  BY <1>3, <1>10, <1>11, <1>12, SMTT(30)

\* Between calls everything is in the table.
LEMMA IdleHeld ==
  ASSUME IndInv, HeldChar, calls = <<>>
  PROVE  \A e : e \in Held <=> InTable(e)
<1>1. Pending = {}  BY DEF Pending
<1>2. \A e : ~InOld(e) /\ ~OnTheWay(e)  BY <1>1 DEF InOld, OnTheWay
<1>3. \A e : InTable(e) => e \in Elements  BY DEF InTable, InUse, IndInv, TypeOK
<1>. QED  BY <1>2, <1>3 DEF HeldChar

\* The insertion is over before an iteration begins, and the other way round.
NoIteration == calls # <<>> => it = -2

LEMMA NoIterationInv == Spec => []NoIteration
<1>1. Init => NoIteration  BY SMTT(30) DEF Init, NoIteration
<1>2. NoIteration /\ [Next]_vars => NoIteration'
  BY ZenonT(40) DEF NoIteration, Next, vars, Put, Store, Grow, OutOfMemory, Copy, Get, ItNew, ItNext,
         ItRemove, ItFree, Idle, Searches
<1>. QED  BY <1>1, <1>2, PTL DEF Spec

\* An insertion implements Map!Put, Map!PutFails, or nothing the users see.
LEMMA PutRefines ==
  ASSUME IndInv, HeldChar, HeldChar', Described, Described', NoIteration,
         \/ \E k \in Keys, v \in Values : Put(k, v)
         \/ Store \/ Grow \/ OutOfMemory \/ Copy
  PROVE  [Map!Next]_(Map!vars)
<1>1. it = -2 /\ it' = -2
  BY ZenonT(40) DEF NoIteration, Put, Store, Grow, OutOfMemory, Copy, Idle, Searches
<1>2. Todo = {} /\ Current = Missing /\ Todo' = {} /\ Current' = Missing
  <2>1. (it = -2)' => (Todo = {} /\ Current = Missing)'  BY NoIterator, PTL
  <2>. QED  BY <1>1, <2>1, NoIterator
<1>3. ASSUME Held' = Held, out' = out PROVE UNCHANGED Map!vars
  BY <1>2, <1>3, SameHeld DEF Map!vars
<1>4. CASE \E k \in Keys, v \in Values : Put(k, v)
  <2>1. PICK k \in Keys, v \in Values : Put(k, v)  BY <1>4
  <2>2. /\ calls = <<>> /\ calls' = <<Call(k, v)>> /\ data' = data /\ out' = out
        /\ Slots' = Slots
    BY <2>1 DEF Put, Idle, Slots
  <2>3. Pending = {} /\ Pending' = {1}  BY <2>2 DEF Pending
  <2>4. OldOf(1)' = {}  BY <2>2 DEF OldOf, Call
  <2>5. \A e : /\ ~InOld(e) /\ ~OnTheWay(e) /\ ~InOld(e)' /\ ~OnTheWay(e)'
               /\ InTable(e)' <=> InTable(e)
    BY <2>2, <2>3, <2>4 DEF InOld, OnTheWay, InTable, InUse
  <2>6. Held' = Held  BY <2>5 DEF HeldChar
  <2>. QED  BY <1>3, <2>2, <2>6
<1>5. CASE Copy
  <2>1. out' = out  BY <1>5 DEF Copy
  <2>. QED  BY <1>3, <1>5, <2>1, CopyHeld, SMTT(30)
<1>6. CASE Grow
  <2>1. out' = out  BY <1>6 DEF Grow
  <2>. QED  BY <1>3, <1>6, <2>1, GrowHeld
<1>7. CASE OutOfMemory
  <2>1. /\ calls' = <<>> /\ data' = data /\ Slots' = Slots
        /\ out' = Result("MAP_OMEM", Missing)
    BY <1>7 DEF OutOfMemory, Slots
  <2>2. Pending' = {}  BY <2>1, SMTT(30) DEF Pending
  <2>3. \A e : ~InOld(e)' /\ ~OnTheWay(e)' /\ (InTable(e)' <=> InTable(e))
    BY <2>1, <2>2 DEF InOld, OnTheWay, InTable, InUse
  <2>4. Held' \subseteq Held  BY <2>3 DEF HeldChar
  <2>5. Map!PutFails  BY <1>2, <2>1, <2>4, LoseHeld, SMTT(30) DEF Map!PutFails, Map!Result, Result
  <2>. QED  BY <2>5 DEF Map!Next
<1>8. CASE Store
  <2>1. PICK L : L = Len(calls)  BY ZenonT(40)
  <2>. DEFINE e == [key |-> calls[L].key, value |-> calls[L].value]
  <2>2. /\ e \in Elements /\ Held' = Held \cup {e}
        /\ L # 1 => e \in Held
        /\ L = 1 => \A d \in Held : d.key # e.key
    BY <1>8, <2>1, StoreHeld
  <2>3. out' = IF L = 1 THEN Result("MAP_OK", Missing) ELSE out
    BY <1>8, <2>1, StoreStep
  <2>. HIDE DEF e
  <2>4. CASE L # 1
    <3>1. Held' = Held  BY <2>2, <2>4
    <3>. QED  BY <1>3, <2>3, <2>4, <3>1
  <2>5. CASE L = 1
    <3>1. Contents[e.key] = Missing /\ Contents' = [Contents EXCEPT ![e.key] = e.value]
      BY <2>2, <2>5, AddHeld, SMTT(30)
    <3>2. Map!Put(e.key, e.value)
      BY <1>2, <2>3, <2>5, <3>1, SMTT(30) DEF Map!Put, Map!Result, Result
    <3>3. e.key \in Keys /\ e.value \in Values  BY <2>2 DEF Elements
    <3>. QED  BY <3>2, <3>3 DEF Map!Next
  <2>. QED  BY <2>4, <2>5
<1>. QED  BY <1>4, <1>5, <1>6, <1>7, <1>8, SMTT(30)

\* A removal takes one element out of the table.
LEMMA EraseHeld ==
  ASSUME IndInv, HeldChar, HeldChar', Described, Described', calls = <<>>, calls' = <<>>,
         table_size' = table_size, NEW s \in Slots, InUse(s), Erase(s), IndInv'
  PROVE  /\ Contents[data[s].key] = data[s].value /\ data[s].value # Missing
         /\ data[s].key \in Keys
         /\ Contents' = [Contents EXCEPT ![data[s].key] = Missing]
<1>. DEFINE e == data[s]
<1>1. /\ Slots' = Slots /\ data'[s] = Free
      /\ \A r \in Slots : r # s => data'[r] = data[r]
  BY DEF Slots, Erase, IndInv, TypeOK
<1>2. \A d : d \in Held <=> InTable(d)  BY IdleHeld
<1>3. \A d : d \in Held' <=> InTable(d)'
  <2>1. Pending' = {}  BY DEF Pending
  <2>2. \A d : ~InOld(d)' /\ ~OnTheWay(d)'  BY <2>1, SMTT(30) DEF InOld, OnTheWay
  <2>3. \A d : InTable(d)' => d \in Elements  BY DEF InTable, InUse, IndInv, TypeOK
  <2>. QED  BY <2>2, <2>3 DEF HeldChar
<1>4. e \in Held  BY <1>2 DEF InTable
<1>5. \A d \in Held : d.key = e.key => d = e  BY <1>4, HeldUnique, SMTT(30)
<1>6. \A r \in Slots : InUse(r) /\ data[r] = e => r = s  BY DEF IndInv, KeysDistinct
<1>7. \A d : InTable(d)' <=> InTable(d) /\ d # e
  <2>1. ASSUME NEW d, InTable(d)' PROVE InTable(d) /\ d # e
    BY <1>1, <1>6, <2>1, SMTT(30) DEF InTable, InUse
  <2>2. ASSUME NEW d, InTable(d), d # e PROVE InTable(d)'
    BY <1>1, <2>2 DEF InTable, InUse
  <2>. QED  BY <2>1, <2>2
<1>. HIDE DEF e
<1>8. Held' = Held \ {e}  BY <1>2, <1>3, <1>7, SMTT(30)
<1>9. e.key \in Keys  BY <1>4 DEF Described, Elements
<1>. QED  BY <1>4, <1>5, <1>8, <1>9, RemoveHeld, SMTT(30) DEF e

LEMMA GetRefines ==
  ASSUME IndInv, IndInv', HeldChar, HeldChar', Described, Described',
         NEW k \in Keys, NEW remove \in BOOLEAN, Get(k, remove)
  PROVE  Map!Get(k, remove)
<1>1. calls = <<>> /\ it = -2 /\ it' = -2 /\ calls' = calls /\ table_size' = table_size
  BY DEF Get, Idle
<1>2. Todo = {} /\ Current = Missing /\ Todo' = {} /\ Current' = Missing
  <2>1. (it = -2)' => (Todo = {} /\ Current = Missing)'  BY NoIterator, PTL
  <2>. QED  BY <1>1, <2>1, NoIterator
<1>3. \A d : d \in Held <=> InTable(d)  BY <1>1, IdleHeld
<1>4. ASSUME data' = data PROVE Contents' = Contents
  <2>1. \A d : (InTable(d)' <=> InTable(d)) /\ (InOld(d)' <=> InOld(d))
                 /\ (OnTheWay(d)' <=> OnTheWay(d))
    BY <1>1, <1>4, SMTT(30) DEF InTable, InOld, OnTheWay, InUse, Slots, Pending, OldOf
  <2>2. Held' = Held  BY <2>1 DEF HeldChar
  <2>. QED  BY <2>2, SameHeld, SMTT(30)
<1>5. CASE /\ Unknown(k) /\ out' = Result("MAP_MISSING", Missing)
           /\ UNCHANGED <<data, size>>
  <2>1. \A d \in Held : d.key # k
    BY <1>3, <1>5 DEF InTable, Unknown, Has, InUse, IndInv, InReach
  <2>2. Contents[k] = Missing  BY <2>1 DEF Described
  <2>3. [Contents EXCEPT ![k] = Missing] = Contents  BY <2>2 DEF Described
  <2>4. Contents' = Contents  BY <1>4, <1>5
  <2>. QED  BY <1>2, <1>5, <2>2, <2>3, <2>4, SMTT(30) DEF Map!Get, Map!Result, Result
<1>6. CASE \E s \in Slots :
             /\ Finds(k, s)
             /\ out' = Result("MAP_OK", data[s].value)
             /\ IF remove THEN Erase(s) ELSE UNCHANGED <<data, size>>
  <2>1. PICK s \in Slots : /\ Finds(k, s)
                           /\ out' = Result("MAP_OK", data[s].value)
                           /\ IF remove THEN Erase(s) ELSE UNCHANGED <<data, size>>
    BY <1>6
  <2>2. InUse(s) /\ data[s].key = k  BY <2>1 DEF Finds, Has, InUse
  <2>3. data[s] \in Held  BY <1>3, <2>2 DEF InTable
  <2>4. Contents[k] = data[s].value  BY <2>2, <2>3 DEF Described
  <2>5. Contents[k] # Missing
    <3>1. data[s].value \in Values  BY <2>3, SMTT(30) DEF Described, Elements
    <3>. QED  BY <2>4, <3>1, HashmapAssumption
  <2>6. out' = Map!Result(IF Contents[k] = Missing THEN "MAP_MISSING" ELSE "MAP_OK", Contents[k])
    <3>1. out' = Result("MAP_OK", Contents[k])  BY <2>1, <2>4
    <3>. QED  BY <2>5, <3>1 DEF Map!Result, Result
  <2>7. CASE remove
    <3>1. Contents' = [Contents EXCEPT ![k] = Missing]
      BY <1>1, <2>1, <2>2, <2>7, EraseHeld, SMTT(30)
    <3>. QED  BY <1>2, <2>6, <2>7, <3>1 DEF Map!Get
  <2>8. CASE ~remove
    <3>1. Contents' = Contents  BY <1>4, <2>1, <2>8
    <3>. QED  BY <1>2, <2>6, <2>8, <3>1 DEF Map!Get
  <2>. QED  BY <2>7, <2>8
<1>. QED  BY <1>5, <1>6 DEF Get

\* The keys in the table are the keys of the map, and those that an iterator
\* has yet to visit are the ones in the slots after it.
LEMMA IteratorRefines ==
  ASSUME IndInv, IndInv', HeldChar, HeldChar', Described, Described', NoIteration,
         ItNew \/ ItNext \/ ItRemove \/ ItFree
  PROVE  Map!ItNew \/ Map!ItNext \/ Map!ItRemove \/ Map!ItFree
<1>1. calls = <<>> /\ calls' = <<>> /\ table_size' = table_size /\ Slots' = Slots
  BY DEF NoIteration, ItNew, ItNext, ItRemove, ItFree, Idle, Slots
<1>2. \A d : d \in Held <=> InTable(d)  BY <1>1, IdleHeld
<1>3. table_size \in Nat /\ it \in Int /\ \A s \in Slots : s \in Nat /\ s < table_size
  BY DEF IndInv, TypeOK, Slots
<1>4. \A s \in Slots : InUse(s) => /\ data[s].key \in Keys /\ data[s].key # Missing
                                   /\ Contents[data[s].key] = data[s].value
                                   /\ data[s].value # Missing
  <2>1. \A s \in Slots : InUse(s) => data[s] \in Held  BY <1>2 DEF InTable
  <2>. QED  BY <2>1, HashmapAssumption DEF Described, Elements
<1>5. \A k \in Keys : Contents[k] # Missing => \E s \in Slots : InUse(s) /\ data[s].key = k
  BY <1>2 DEF Described, InTable
<1>6. ASSUME data' = data PROVE Contents' = Contents
  <2>1. \A d : (InTable(d)' <=> InTable(d)) /\ (InOld(d)' <=> InOld(d))
                 /\ (OnTheWay(d)' <=> OnTheWay(d))
    BY <1>1, <1>6 DEF InTable, InOld, OnTheWay, InUse, Slots, Pending, OldOf
  <2>2. Held' = Held  BY <2>1, SMTT(30) DEF HeldChar
  <2>. QED  BY <2>2, SameHeld
<1>7. \A s, t \in Slots : InUse(s) /\ InUse(t) /\ s # t => data[s].key # data[t].key
  BY ZenonT(40) DEF IndInv, KeysDistinct
<1>8. CASE ItFree
  <2>1. it' = -2 /\ data' = data /\ out' = out  BY <1>8 DEF ItFree
  <2>2. Todo' = {} /\ Current' = Missing  BY <2>1 DEF Todo, Current, Slots
  <2>. QED  BY <1>6, <2>1, <2>2 DEF Map!ItFree
<1>9. CASE ItNew
  <2>1. it' = -1 /\ data' = data /\ out' = out  BY <1>9 DEF ItNew
  <2>2. Current' = Missing  BY <2>1 DEF Current, Slots
  <2>3. Todo' = {data[s].key : s \in {r \in Slots : r > -1 /\ data[r] # Free}}
    BY <1>1, <2>1 DEF Todo
  <2>4. \A k : k \in Todo' <=> \E s \in Slots : InUse(s) /\ k = data[s].key
    BY <1>3, <2>3, SMTT(30) DEF InUse
  <2>5. Todo' = Map!Present  BY <1>4, <1>5, <2>4, SMTT(30) DEF Map!Present
  <2>. QED  BY <1>6, <2>1, <2>2, <2>5, SMTT(30) DEF Map!ItNew
<1>10. CASE ItNext
  <2>1. it # -2 /\ data' = data  BY <1>10 DEF ItNext
  <2>2. \A k : k \in Todo <=> \E s \in Slots : s > it /\ InUse(s) /\ k = data[s].key
    BY <2>1 DEF Todo, InUse
  <2>3. it' # -2 => \A k : k \in Todo' <=> \E s \in Slots : s > it' /\ InUse(s) /\ k = data[s].key
    BY <1>1, <2>1 DEF Todo, InUse
  <2>4. CASE \E s \in Slots :
               /\ s > it /\ data[s] # Free
               /\ \A r \in Slots : it < r /\ r < s => data[r] = Free
               /\ it' = s
               /\ out' = Result("MAP_OK", data[s].value)
    <3>1. PICK s \in Slots :
            /\ s > it /\ InUse(s)
            /\ \A r \in Slots : it < r /\ r < s => ~InUse(r)
            /\ it' = s
            /\ out' = Result("MAP_OK", data[s].value)
      BY <2>4 DEF InUse
    <3>2. data[s].key \in Todo  BY <2>2, <3>1
    <3>3. Current' = data[s].key  BY <1>1, <2>1, <3>1, SMTT(30) DEF Current, InUse
    <3>4. \A r \in Slots : InUse(r) => (r > it /\ r # s <=> r > s)
      BY <1>3, <3>1, SMTT(30)
    <3>5. \A k : k \in Todo' <=> k \in Todo /\ k # data[s].key
      BY <1>3, <1>7, <2>2, <2>3, <3>1, <3>4, SMTT(30)
    <3>6. Todo' = Todo \ {data[s].key}  BY <3>5, SMTT(30)
    <3>7. Map!ItNext
      BY <1>4, <1>6, <2>1, <3>1, <3>2, <3>3, <3>6, SMTT(30) DEF Map!ItNext, Map!Result, Result
    <3>. QED  BY <3>7
  <2>5. CASE /\ \A s \in Slots : s > it => data[s] = Free
             /\ it' = table_size
             /\ out' = Result("MAP_MISSING", Missing)
    <3>1. Todo = {}  BY <2>2, <2>5 DEF InUse
    <3>2. it' # -2 /\ it' \notin Slots /\ \A s \in Slots : ~(s > it')  BY <1>3, <2>5
    <3>3. Todo' = {}  BY <2>3, <3>2
    <3>4. Current' = Missing  BY <1>1, <3>2 DEF Current
    <3>. QED  BY <1>6, <2>1, <2>5, <3>1, <3>3, <3>4, SMTT(30) DEF Map!ItNext, Map!Result, Result
  <2>. QED  BY <1>10, <2>4, <2>5, SMTT(30) DEF ItNext
<1>11. CASE ItRemove
  <2>1. it # -2 /\ it' = it  BY <1>11 DEF ItRemove
  <2>2. CASE it \in Slots /\ InUse(it)
    <3>1. Erase(it) /\ out' = Result("MAP_OK", Missing)
      BY <1>11, <2>2 DEF ItRemove, InUse
    <3>2. Current = data[it].key  BY <2>2, SMTT(30) DEF Current, InUse
    <3>3. data'[it] = Free /\ \A r \in Slots : r # it => data'[r] = data[r]
      BY <2>2, <3>1 DEF Erase, IndInv, TypeOK
    <3>4. Current' = Missing  BY <2>1, <3>3 DEF Current
    <3>5. \A r \in Slots : r > it => data'[r] = data[r]  BY <1>3, <3>3
    <3>6. Todo' = Todo  BY <1>1, <2>1, <3>5, SMTT(30) DEF Todo
    <3>7. Contents' = [Contents EXCEPT ![data[it].key] = Missing]
      BY <1>1, <2>2, <3>1, EraseHeld, SMTT(30)
    <3>8. Current # Missing  BY <1>4, <2>2, <3>2, SMTT(30)
    <3>. QED  BY <3>1, <3>2, <3>4, <3>6, <3>7, <3>8, SMTT(30) DEF Map!ItRemove, Map!Result, Result
  <2>3. CASE ~(it \in Slots /\ InUse(it))
    <3>1. out' = Result("MAP_MISSING", Missing) /\ data' = data
      BY <1>11, <2>3 DEF ItRemove, InUse
    <3>2. Current = Missing  BY <2>3, SMTT(30) DEF Current, InUse
    <3>3. Current' = Current /\ Todo' = Todo  BY <1>1, <2>1, <3>1, SMTT(30) DEF Current, Todo
    <3>. QED  BY <1>6, <3>1, <3>2, <3>3, SMTT(30) DEF Map!ItRemove, Map!Result, Result
  <2>. QED  BY <2>2, <2>3
<1>. QED  BY <1>8, <1>9, <1>10, <1>11, SMTT(30)

LEMMA InitRefines == Init => Map!Init
<1>. SUFFICES ASSUME Init PROVE Map!Init  OBVIOUS
<1>1. IndInv  BY InitInv
<1>2. Described /\ HeldChar  BY <1>1, ContentsDescribed, IndHeld, SMTT(30)
<1>3. calls = <<>> /\ it = -2 /\ out = Result("MAP_OK", Missing) /\ \A s \in Slots : ~InUse(s)
  BY HashmapAssumption DEF Init, EmptyTable, Slots, InUse
<1>4. \A e : e \notin Held  BY <1>1, <1>2, <1>3, IdleHeld, SMTT(30) DEF InTable
<1>5. Contents = [k \in Keys |-> Missing]  BY <1>2, <1>4 DEF Described
<1>6. Todo = {} /\ Current = Missing  BY <1>3, NoIterator
<1>. QED  BY <1>3, <1>5, <1>6 DEF Map!Init, Map!Result, Result

(***************************************************************************)
(* hashmap.c implements the finite map of its header for every hash        *)
(* function, table size and probe window: each call takes one step of the  *)
(* map when it returns, and the steps inside hashmap_rehash are invisible. *)
(***************************************************************************)
THEOREM HashmapIsFiniteMap == Spec => IsFiniteMap
<1>1. /\ IndInv /\ IndInv' /\ HeldChar /\ HeldChar' /\ Described /\ Described' /\ NoIteration
      /\ [Next]_vars
      => [Map!Next]_(Map!vars)
  <2>. SUFFICES ASSUME IndInv, IndInv', HeldChar, HeldChar', Described, Described', NoIteration,
                       [Next]_vars
                PROVE  [Map!Next]_(Map!vars)
    OBVIOUS
  <2>1. CASE \/ \E k \in Keys, v \in Values : Put(k, v)
             \/ Store \/ Grow \/ OutOfMemory \/ Copy
    BY <2>1, PutRefines
  <2>2. CASE \E k \in Keys, remove \in BOOLEAN : Get(k, remove)
    <3>1. \E k \in Keys, remove \in BOOLEAN : Map!Get(k, remove)  BY <2>2, GetRefines
    <3>. QED  BY <3>1 DEF Map!Next
  <2>3. CASE ItNew \/ ItNext \/ ItRemove \/ ItFree
    BY <2>3, IteratorRefines, SMTT(30) DEF Map!Next
  <2>4. CASE UNCHANGED vars
    <3>1. Held' = Held
      BY <2>4, SMTT(30) DEF vars, Held, Slots, Old, Waiting, Pending, Copying
    <3>2. Todo' = Todo /\ Current' = Current  BY <2>4 DEF vars, Todo, Current, Slots
    <3>. QED  BY <2>4, <3>1, <3>2, SameHeld, SMTT(30) DEF vars, Map!vars
  <2>. QED  BY <2>1, <2>2, <2>3, <2>4, SMTT(30) DEF Next
<1>. QED
  BY <1>1, InitRefines, HashmapInvariant, NoIterationInv, IndHeld, ContentsDescribed, PTL
  DEF Spec, IsFiniteMap, Map!Spec

(***************************************************************************)
(* Whatever the sizes, running out of memory for the table of the          *)
(* insertion itself keeps every element (hashmap_rehash allocates the new  *)
(* table before it gives up the old one): only a failure in the middle of  *)
(* copying loses some.                                                     *)
(***************************************************************************)
THEOREM OmemLosesOnlyCopies == Spec => OmemKeepsElements
<1>1. ASSUME IndInv, HeldChar, HeldChar', NoIteration, Next,
             out'.status = "MAP_OMEM", Len(calls) = 1
      PROVE  Contents' = Contents
  <2>1. calls # <<>> /\ it = -2  BY <1>1, SMTT(30) DEF NoIteration
  <2>2. Grow \/ Copy \/ OutOfMemory \/ Store
    BY <1>1, <2>1 DEF Next, Put, Get, Idle, ItNew, ItNext, ItRemove, ItFree
  <2>3. CASE Grow  BY <1>1, <2>3, GrowHeld, SameHeld
  <2>4. CASE Copy  BY <1>1, <2>4, CopyHeld, SameHeld, SMTT(30)
  <2>5. CASE Store
    <3>1. out' = Result("MAP_OK", Missing)  BY <1>1, <2>5 DEF Store
    <3>. QED  BY <1>1, <3>1 DEF Result
  <2>6. CASE OutOfMemory
    <3>1. /\ calls' = <<>> /\ data' = data /\ Slots' = Slots /\ calls[1].old = <<>>
      BY <1>1, <2>6, SMTT(30) DEF OutOfMemory, Searches, Top, Slots
    <3>2. Pending = {1} /\ Pending' = {} /\ OldOf(1) = {}
      BY <1>1, <3>1, SMTT(30) DEF Pending, OldOf
    <3>3. \A e : /\ ~InOld(e) /\ ~OnTheWay(e) /\ ~InOld(e)' /\ ~OnTheWay(e)'
                 /\ InTable(e)' <=> InTable(e)
      BY <3>1, <3>2, SMTT(30) DEF InOld, OnTheWay, InTable, InUse
    <3>4. Held' = Held  BY <1>1, <3>3 DEF HeldChar
    <3>. QED  BY <3>4, SameHeld, SMTT(30)
  <2>. QED  BY <2>2, <2>3, <2>4, <2>5, <2>6, SMTT(30)
<1>2. /\ IndInv /\ HeldChar /\ HeldChar' /\ NoIteration /\ [Next]_vars
      => [out'.status = "MAP_OMEM" /\ Len(calls) = 1 => Contents' = Contents]_vars
  BY <1>1
<1>. QED
  BY <1>2, HashmapInvariant, NoIterationInv, IndHeld, PTL DEF Spec, OmemKeepsElements

=============================================================================

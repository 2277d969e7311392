------------------------------- MODULE Hashmap -------------------------------
(***************************************************************************)
(* src/src/hashmap.c: open addressing with a short probe window, no marks  *)
(* for removed elements, and a table that doubles whenever it is half full *)
(* or a window has no room.                                                *)
(*                                                                         *)
(* hashmap_put and hashmap_rehash call each other: calls is the stack of   *)
(* the insertions under way, each with the old table it is copying, if     *)
(* any.  Every calloc may fail.  The user is the peer table, which looks a *)
(* key up before it inserts it and does nothing else while it iterates.    *)
(***************************************************************************)
EXTENDS Integers, Sequences, FiniteSets

CONSTANTS
  Keys, Values,
  Hash,         \* siphash24 of each key
  InitialSize,  \* INITIAL_SIZE (256)
  MaxChain,     \* MAX_CHAIN_LENGTH (8)
  MaxTable,     \* bound on the size of the table
  Free,         \* an element that is not in use
  Missing       \* no value

Elements == [key: Keys, value: Values]

ASSUME HashmapAssumption ==
  /\ Hash \in [Keys -> Nat]
  /\ InitialSize \in Nat \ {0} /\ MaxChain \in Nat \ {0} /\ MaxTable \in Nat
  /\ Free \notin Elements /\ Missing \notin Values \cup Keys

VARIABLES
  table_size, size, data,   \* struct hashmap_map
  calls,                    \* insertions under way
  it,                       \* index of the iterator, or -2 without one
  out                       \* status and value of the last call

vars == <<table_size, size, data, calls, it, out>>

Result(status, v) == [status |-> status, value |-> v]

EmptyTable(n) == [i \in 0 .. n - 1 |-> Free]

\* hashmap_new, when it has memory: otherwise there is no table.
Init ==
  /\ table_size = InitialSize /\ size = 0 /\ data = EmptyTable(InitialSize)
  /\ calls = <<>> /\ it = -2 /\ out = Result("MAP_OK", Missing)

-----------------------------------------------------------------------------
\* hashmap_hash_int and the n-th probe from it
Probe(k, n) == (Hash[k] + n) % table_size

Chain == 0 .. MaxChain - 1

Has(s, k) == data[s] # Free /\ data[s].key = k

Suits(s, k) == data[s] # Free => data[s].key = k

\* hashmap_hash returns slot s
MutPlaceUnbounded(k, s) ==
  /\ size < table_size \div 2
  /\ \E n \in 0 .. MaxChain :
       /\ s = Probe(k, n) /\ Suits(s, k)
       /\ \A m \in 0 .. n - 1 : ~Suits(Probe(k, m), k)

Places(k, s) ==
  /\ size < table_size \div 2
  /\ \E n \in Chain :
       /\ s = Probe(k, n) /\ Suits(s, k)
       /\ \A m \in 0 .. n - 1 : ~Suits(Probe(k, m), k)

\* hashmap_hash returns MAP_FULL
Full(k) == size >= table_size \div 2 \/ \A n \in Chain : ~Suits(Probe(k, n), k)

\* hashmap_get finds k in slot s, the first of the window that has it
Finds(k, s) ==
  \E n \in Chain :
    /\ s = Probe(k, n) /\ Has(s, k)
    /\ \A m \in 0 .. n - 1 : ~Has(Probe(k, m), k)

Slots == 0 .. table_size - 1

\* hashmap_get does not find it: a hole does not end the search
MutStopsAtFree(k) ==
  \A n \in Chain :
    Has(Probe(k, n), k) => \E m \in 0 .. n - 1 : data[Probe(k, m)] = Free

Unknown(k) == \A n \in Chain : ~Has(Probe(k, n), k)

Idle == calls = <<>> /\ it = -2

-----------------------------------------------------------------------------
\* An insertion, with what hashmap_rehash has yet to copy on its behalf.
Call(k, v) == [key |-> k, value |-> v, old |-> <<>>]

Top == calls[Len(calls)]

SetTop(old) == [calls EXCEPT ![Len(calls)].old = old]

\* awdl_peer_add inserts a key that hashmap_get does not find.
Put(k, v) ==
  /\ Idle /\ Unknown(k)
  /\ calls' = <<Call(k, v)>>
  /\ UNCHANGED <<table_size, size, data, it, out>>

\* hashmap_put looks for a slot: it is not, or no longer, rehashing.
Searches == calls # <<>> /\ Top.old = <<>>

\* It has found one.
Store ==
  /\ Searches
  /\ \E s \in Slots :
       /\ Places(Top.key, s)
       /\ data' = [data EXCEPT ![s] = [key |-> Top.key, value |-> Top.value]]
  /\ size' = size + 1
  /\ calls' = SubSeq(calls, 1, Len(calls) - 1)
  /\ out' = IF Len(calls) = 1 THEN Result("MAP_OK", Missing) ELSE out
  /\ UNCHANGED <<table_size, it>>

\* There is none, and hashmap_rehash gets a new table ...
MutGrowKeepsSize ==
  /\ Searches /\ Full(Top.key)
  /\ 2 * table_size <= MaxTable
  /\ table_size' = 2 * table_size
  /\ data' = EmptyTable(2 * table_size)
  /\ calls' = SetTop([i \in 1 .. table_size |-> data[i - 1]])
  /\ UNCHANGED <<it, out, size>>

Grow ==
  /\ Searches /\ Full(Top.key)
  /\ 2 * table_size <= MaxTable
  /\ table_size' = 2 * table_size /\ size' = 0
  /\ data' = EmptyTable(2 * table_size)
  /\ calls' = SetTop([i \in 1 .. table_size |-> data[i - 1]])
  /\ UNCHANGED <<it, out>>

\* ... or does not: all the calls return MAP_OMEM, and the old tables that
\* were being copied are lost.
MutOmemAfterSwap ==
  /\ Searches /\ Full(Top.key)
  /\ calls' = <<>> /\ size' = 0 /\ data' = EmptyTable(table_size)
  /\ out' = Result("MAP_OMEM", Missing)
  /\ UNCHANGED <<table_size, it>>

OutOfMemory ==
  /\ Searches /\ Full(Top.key)
  /\ calls' = <<>>
  /\ out' = Result("MAP_OMEM", Missing)
  /\ UNCHANGED <<table_size, size, data, it>>

\* hashmap_rehash copies the next element of the old table.
Copy ==
  /\ calls # <<>> /\ Top.old # <<>>
  /\ LET e == Head(Top.old)
         up == SetTop(Tail(Top.old))
     IN  calls' = IF e = Free THEN up ELSE Append(up, Call(e.key, e.value))
  /\ UNCHANGED <<table_size, size, data, it, out>>

Erase(s) == data' = [data EXCEPT ![s] = Free] /\ size' = size - 1

Get(k, remove) ==
  /\ Idle
  /\ \/ /\ Unknown(k)
        /\ out' = Result("MAP_MISSING", Missing)
        /\ UNCHANGED <<data, size>>
     \/ \E s \in Slots :
          /\ Finds(k, s)
          /\ out' = Result("MAP_OK", data[s].value)
          /\ IF remove THEN Erase(s) ELSE UNCHANGED <<data, size>>
  /\ UNCHANGED <<table_size, calls, it>>

-----------------------------------------------------------------------------
ItNew == Idle /\ it' = -1 /\ UNCHANGED <<table_size, size, data, calls, out>>

\* hashmap_it_next: to the next element in use, or to the end of the table,
\* where the users stop
ItNext ==
  /\ it # -2 /\ it < table_size
  /\ \/ \E s \in Slots :
          /\ s > it /\ data[s] # Free
          /\ \A r \in Slots : it < r /\ r < s => data[r] = Free
          /\ it' = s
          /\ out' = Result("MAP_OK", data[s].value)
     \/ /\ \A s \in Slots : s > it => data[s] = Free
        /\ it' = table_size
        /\ out' = Result("MAP_MISSING", Missing)
  /\ UNCHANGED <<table_size, size, data, calls>>

MutItRemoveUnchecked ==
  /\ it # -2
  /\ IF it \in Slots
     THEN Erase(it) /\ out' = Result("MAP_OK", Missing)
     ELSE out' = Result("MAP_MISSING", Missing) /\ UNCHANGED <<size, data>>
  /\ UNCHANGED <<table_size, calls, it>>

ItRemove ==
  /\ it # -2
  /\ IF it \in Slots /\ data[it] # Free
     THEN Erase(it) /\ out' = Result("MAP_OK", Missing)
     ELSE out' = Result("MAP_MISSING", Missing) /\ UNCHANGED <<size, data>>
  /\ UNCHANGED <<table_size, calls, it>>

ItFree == it # -2 /\ it' = -2 /\ UNCHANGED <<table_size, size, data, calls, out>>

Next ==
  \/ \E k \in Keys, v \in Values : Put(k, v)
  \/ Store \/ Grow \/ OutOfMemory \/ Copy
  \/ \E k \in Keys, remove \in BOOLEAN : Get(k, remove)
  \/ ItNew \/ ItNext \/ ItRemove \/ ItFree

Spec == Init /\ [][Next]_vars

-----------------------------------------------------------------------------
Calls == [key: Keys, value: Values, old: Seq(Elements \cup {Free})]

TypeOK ==
  /\ table_size \in Nat \ {0}
  /\ size \in Nat
  /\ data \in [Slots -> Elements \cup {Free}]
  /\ calls \in Seq(Calls)
  /\ it \in -2 .. table_size
  /\ out.status \in {"MAP_OK", "MAP_MISSING", "MAP_OMEM"}
  /\ out.value \in Values \cup {Missing}

InUse(s) == data[s] # Free

\* No key is in two places: slots of the table, insertions under way, and
\* elements that wait to be copied.
Pending == 1 .. Len(calls)

OldOf(n) == {j \in 1 .. Len(calls[n].old) : calls[n].old[j] # Free}

KeysDistinct ==
  /\ \A s, t \in Slots : InUse(s) /\ InUse(t) /\ s # t => data[s].key # data[t].key
  /\ \A s \in Slots, n \in Pending : InUse(s) => data[s].key # calls[n].key
  /\ \A m, n \in Pending : m # n => calls[m].key # calls[n].key
  /\ \A s \in Slots, n \in Pending : \A j \in OldOf(n) :
       InUse(s) => data[s].key # calls[n].old[j].key
  /\ \A m, n \in Pending : \A j \in OldOf(n) : calls[m].key # calls[n].old[j].key
  /\ \A m, n \in Pending : \A i \in OldOf(m), j \in OldOf(n) :
       m # n \/ i # j => calls[m].old[i].key # calls[n].old[j].key

(***************************************************************************)
(* Nothing in the table is out of reach: every element lies in the probe   *)
(* window of its key, in the table of the moment, and hides behind no      *)
(* other element with that key, so hashmap_get finds it.  hashmap_put      *)
(* takes the first hole of the window without looking further, and relies  *)
(* on its users and on hashmap_rehash never to insert a key twice.         *)
(***************************************************************************)
Findable ==
  /\ \A s \in Slots : InUse(s) => \E n \in Chain : s = Probe(data[s].key, n)
  /\ KeysDistinct

\* The elements in the table, those waiting in an old one, those being copied
Waiting(old) == {old[j] : j \in 1 .. Len(old)}

Copying == {[key |-> calls[n].key, value |-> calls[n].value] : n \in 2 .. Len(calls)}

Old == UNION {Waiting(calls[n].old) : n \in Pending}

Held == ({data[s] : s \in Slots} \cup Old \cup Copying) \ {Free}

Contents ==
  LET held == Held
  IN  [k \in Keys |-> IF \E e \in held : e.key = k
                      THEN (CHOOSE e \in held : e.key = k).value ELSE Missing]

\* What the iterator has yet to visit, and what it is at
Todo == IF it = -2 THEN {} ELSE {data[s].key : s \in {r \in Slots : r > it /\ data[r] # Free}}

Current == IF it \in Slots /\ data[it] # Free THEN data[it].key ELSE Missing

Map == INSTANCE FiniteMap WITH store <- Contents, todo <- Todo, current <- Current

(***************************************************************************)
(* The table is the finite map its users take it for: although removals    *)
(* leave holes in the probe windows and tables are copied in the middle of *)
(* an insertion, a key is found exactly when it was inserted and not       *)
(* removed, with its own value, and an iteration that removes elements     *)
(* visits each of the others once.                                         *)
(***************************************************************************)
IsFiniteMap == Map!Spec

(***************************************************************************)
(* Between calls hashmap_length counts the elements: the size that decides *)
(* when the table is half full never drifts from the elements in use,      *)
(* whatever rehashing was cut short.                                       *)
(***************************************************************************)
SizeIsCount == calls = <<>> => size = Cardinality({s \in Slots : data[s] # Free})

(***************************************************************************)
(* Running out of memory loses elements only when it strikes while an      *)
(* element is being copied: a failure to double the table for the          *)
(* insertion itself leaves all the elements where they were.               *)
(***************************************************************************)
OmemKeepsElements ==
  [][out'.status = "MAP_OMEM" /\ Len(calls) = 1 => Contents' = Contents]_vars

=============================================================================

------------------------------ MODULE FiniteMap ------------------------------
(***************************************************************************)
(* What src/src/hashmap.h promises the peer table: a finite map whose      *)
(* iterator visits every element once and may remove the one it is at.     *)
(* The only licence it takes is memory: an insertion that runs out of it   *)
(* reports MAP_OMEM, inserts nothing, and may lose other elements.         *)
(***************************************************************************)
CONSTANTS Keys, Values, Missing

VARIABLES
  store,    \* value of each key, or Missing
  todo,     \* keys the iterator has yet to visit
  current,  \* key the iterator is at, or Missing
  out       \* status and value of the last call

vars == <<store, todo, current, out>>

Result(status, v) == [status |-> status, value |-> v]

Present == {k \in Keys : store[k] # Missing}

Init ==
  /\ store = [k \in Keys |-> Missing]
  /\ todo = {} /\ current = Missing /\ out = Result("MAP_OK", Missing)

Put(k, v) ==
  /\ store[k] = Missing
  /\ store' = [store EXCEPT ![k] = v]
  /\ out' = Result("MAP_OK", Missing)
  /\ UNCHANGED <<todo, current>>

PutFails ==
  /\ \E lost \in SUBSET Present :
       store' = [k \in Keys |-> IF k \in lost THEN Missing ELSE store[k]]
  /\ out' = Result("MAP_OMEM", Missing)
  /\ UNCHANGED <<todo, current>>

Get(k, remove) ==
  /\ store' = IF remove THEN [store EXCEPT ![k] = Missing] ELSE store
  /\ out' = Result(IF store[k] = Missing THEN "MAP_MISSING" ELSE "MAP_OK", store[k])
  /\ UNCHANGED <<todo, current>>

ItNew == todo' = Present /\ current' = Missing /\ UNCHANGED <<store, out>>

ItNext ==
  \/ \E k \in todo :
       /\ todo' = todo \ {k} /\ current' = k
       /\ out' = Result("MAP_OK", store[k])
       /\ UNCHANGED store
  \/ /\ todo = {} /\ current' = Missing
     /\ out' = Result("MAP_MISSING", Missing)
     /\ UNCHANGED <<store, todo>>

ItRemove ==
  IF current = Missing
  THEN out' = Result("MAP_MISSING", Missing) /\ UNCHANGED <<store, todo, current>>
  ELSE /\ store' = [store EXCEPT ![current] = Missing]
       /\ current' = Missing
       /\ out' = Result("MAP_OK", Missing)
       /\ UNCHANGED todo

ItFree == todo' = {} /\ current' = Missing /\ UNCHANGED <<store, out>>

Next ==
  \/ \E k \in Keys, v \in Values : Put(k, v)
  \/ PutFails
  \/ \E k \in Keys, remove \in BOOLEAN : Get(k, remove)
  \/ ItNew \/ ItNext \/ ItRemove \/ ItFree

Spec == Init /\ [][Next]_vars

=============================================================================

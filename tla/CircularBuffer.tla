--------------------------- MODULE CircularBuffer ---------------------------
(***************************************************************************)
(* src/src/circular_buffer.c: an array with a head, a tail and a flag that *)
(* tells full from empty when the two meet.                                *)
(***************************************************************************)
EXTENDS Integers, Sequences

CONSTANTS
  Max,      \* size of the buffer
  Data,     \* elements
  Nothing   \* no element returned

ASSUME BufferAssumption ==
  /\ Max \in Nat \ {0}           \* assert(size) in circular_buf_init
  /\ Nothing \notin Data

VARIABLES buffer, head, tail, full,
          out                    \* return value and *data of the last call

bufVars == <<buffer, head, tail, full, out>>

Cells == 0 .. Max - 1

Result(ok, d) == [ok |-> ok, data |-> d]

\* circular_buf_init: malloc leaves the elements uninitialised.
BufInit ==
  /\ buffer \in [Cells -> Data]
  /\ head = 0 /\ tail = 0 /\ full = FALSE
  /\ out = Result(TRUE, Nothing)

IsEmpty == ~full /\ head = tail

Size ==
  IF full THEN Max ELSE IF head >= tail THEN head - tail ELSE Max + head - tail

\* Write at the head, then advance_pointer.
MutStoreKeepsTail(d) ==
  /\ buffer' = [buffer EXCEPT ![head] = d]
  /\ head' = (head + 1) % Max
  /\ tail' = tail
  /\ full' = (head' = tail')

Store(d) ==
  /\ buffer' = [buffer EXCEPT ![head] = d]
  /\ head' = (head + 1) % Max
  /\ tail' = IF full THEN (tail + 1) % Max ELSE tail
  /\ full' = (head' = tail')

Put(d) == Store(d) /\ out' = Result(TRUE, Nothing)

Put2(d) ==
  IF full
  THEN UNCHANGED <<buffer, head, tail, full>> /\ out' = Result(FALSE, Nothing)
  ELSE Store(d) /\ out' = Result(TRUE, Nothing)

\* circular_buf_get, with retreat_pointer unless it only peeks.
MutGetKeepsFull(peek) ==
  IF IsEmpty
  THEN UNCHANGED <<head, tail, full, buffer>> /\ out' = Result(FALSE, Nothing)
  ELSE /\ out' = Result(TRUE, buffer[tail])
       /\ tail' = (IF peek THEN tail ELSE (tail + 1) % Max)
       /\ UNCHANGED <<buffer, head, full>>

Get(peek) ==
  IF IsEmpty
  THEN UNCHANGED <<head, tail, full, buffer>> /\ out' = Result(FALSE, Nothing)
  ELSE /\ out' = Result(TRUE, buffer[tail])
       /\ IF peek
          THEN UNCHANGED <<tail, full>>
          ELSE full' = FALSE /\ tail' = (tail + 1) % Max
       /\ UNCHANGED <<buffer, head>>

\* circular_buf_reset: the data stay in the array.
Reset ==
  /\ head' = 0 /\ tail' = 0 /\ full' = FALSE
  /\ out' = Result(TRUE, Nothing)
  /\ UNCHANGED buffer

BufNext ==
  \/ \E d \in Data : Put(d) \/ Put2(d)
  \/ \E peek \in BOOLEAN : Get(peek)
  \/ Reset

BufSpec == BufInit /\ [][BufNext]_bufVars

-----------------------------------------------------------------------------
\* full is set only where it tells a full buffer from an empty one.
BufferOK ==
  /\ buffer \in [Cells -> Data]
  /\ head \in Cells /\ tail \in Cells
  /\ full \in BOOLEAN
  /\ full => head = tail
  /\ out \in [ok: BOOLEAN, data: Data \cup {Nothing}]

\* The elements between tail and head, around the end of the array.
Contents == [i \in 1 .. Size |-> buffer[(tail + i - 1) % Max]]

Queue == INSTANCE BoundedQueue WITH q <- Contents

(***************************************************************************)
(* The buffer is the bounded queue its header documents: every call        *)
(* returns and leaves what that queue would, with elements in order and    *)
(* none lost except the oldest one that circular_buf_put overwrites.       *)
(***************************************************************************)
IsBoundedQueue == Queue!Spec

=============================================================================

---------------------------- MODULE BoundedQueue ----------------------------
(***************************************************************************)
(* What src/src/circular_buffer.h promises its users: a queue of at most   *)
(* Max elements.  circular_buf_put gives up the oldest element when there  *)
(* is no room, circular_buf_put2 refuses the new one.                      *)
(***************************************************************************)
EXTENDS Integers, Sequences

CONSTANTS Max, Data, Nothing

VARIABLES
  q,     \* the elements, oldest first
  out    \* what the last call returned: success, and the element if any

vars == <<q, out>>

Result(ok, d) == [ok |-> ok, data |-> d]

\* circular_buf_init, "returned in an empty state"
Init == q = <<>> /\ out = Result(TRUE, Nothing)

\* "Old data is overwritten"
Put(d) ==
  /\ q' = IF Len(q) = Max THEN Append(Tail(q), d) ELSE Append(q, d)
  /\ out' = Result(TRUE, Nothing)

\* "rejects new data if the buffer is full"
Put2(d) ==
  IF Len(q) = Max
  THEN q' = q /\ out' = Result(FALSE, Nothing)
  ELSE q' = Append(q, d) /\ out' = Result(TRUE, Nothing)

\* "Retrieve a value from the buffer", and leave it there for a peek
Get(peek) ==
  IF q = <<>>
  THEN q' = q /\ out' = Result(FALSE, Nothing)
  ELSE q' = (IF peek THEN q ELSE Tail(q)) /\ out' = Result(TRUE, Head(q))

\* "Reset the circular buffer to empty"
Reset == q' = <<>> /\ out' = Result(TRUE, Nothing)

Next ==
  \/ \E d \in Data : Put(d) \/ Put2(d)
  \/ \E peek \in BOOLEAN : Get(peek)
  \/ Reset

Spec == Init /\ [][Next]_vars

=============================================================================

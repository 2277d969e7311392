-------------------------- MODULE MCCircularBuffer --------------------------
(* A buffer of three elements: it fills, wraps and overwrites.              *)
EXTENDS CircularBuffer

=============================================================================

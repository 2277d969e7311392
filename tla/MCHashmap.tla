------------------------------ MODULE MCHashmap ------------------------------
(* Four keys that share windows in the tables of 8 and 16 elements, and     *)
(* wrap around their ends: insertions double the table, twice in a row and  *)
(* in the middle of copying.                                                *)
EXTENDS Hashmap

MCKeys == 1 .. 4

MCHash == <<7, 7, 8, 15>>

=============================================================================

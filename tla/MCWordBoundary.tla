---------------------------- MODULE MCWordBoundary ----------------------------
(* Constants for the runs of WordBoundary. *)
EXTENDS WordBoundary

CONSTANT MaxLen     \* bound: size of a blob

AllTexts == UNION {[1..n -> Byte] : n \in 0..MaxLen}
===============================================================================

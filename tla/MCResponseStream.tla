--------------------------- MODULE MCResponseStream ---------------------------
(* Instances of ResponseStream for TLC. *)
EXTENDS ResponseStream

\* Bodies from empty to well past the modulus of the length, of either outcome.
ServedLengths == [code : {200}, clen : 0 .. U16 + MaxSize] \cup [code : {500}, clen : {1}]
=============================================================================

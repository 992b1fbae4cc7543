------------------------------ MODULE MCDisplay ------------------------------
(* Instances of Display for TLC. *)
EXTENDS DisplayLife, TLC

\* A body that fits MaxSize = 2, and one that exceeds MaxSize = 1.
ServedShort == {[code |-> 200, clen |-> 1]}
ServedLong  == {[code |-> 200, clen |-> 2]}

\* A callback that has written to memory of others leaves nothing to be said
\* about the program, and the safety properties say nothing then.
Defined == ~tainted

Symmetry == Permutations(Addr) \cup Permutations(Pcb)
=============================================================================

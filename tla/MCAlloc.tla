------------------------------- MODULE MCAlloc -------------------------------
(* Instances of Alloc for TLC. *)
EXTENDS Alloc

\* Group 0 holds its own metadata in its first unit, and group 1 has a reserved one.
MCImplied == [g \in Group |-> IF g = 0 THEN {0} ELSE {}]
MCReserved == {<<1, 0>>}
=============================================================================

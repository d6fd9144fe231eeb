------------------------------ MODULE MCMemory ------------------------------
(* Slots are interchangeable: a slot is only ever chosen by being free.    *)
EXTENDS Memory, TLC

Symmetry == Permutations(Procs)
=============================================================================

------------------------------- MODULE MCAhci -------------------------------
EXTENDS Ahci

CONSTANT v1

(* Every sector holds the same at first; writes make them differ.          *)
MCDisks == {[p \in Ports |-> [l \in Lbas |-> v1]]}
=============================================================================

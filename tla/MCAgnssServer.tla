--------------------------- MODULE MCAgnssServer ---------------------------
(* Instances of AgnssServer for TLC, with the inductive invariants.        *)
EXTENDS AgnssServerProofs, TLC

CONSTANTS g1, g2, b1, b2, x1, dev1, dev2

Symmetry == Permutations(Devices) \cup Permutations(GpsSats)
=============================================================================

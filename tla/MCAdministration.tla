--------------------------- MODULE MCAdministration ---------------------------
(* Bounds for TLC: two concurrent handlers, the first administrator and one *)
(* more name.                                                                *)
EXTENDS Administration, TLC

CONSTANTS t1, t2, root, guest

TwoThreads == {t1, t2}
TwoUsers == {root, guest}

Symmetry == Permutations(TwoThreads)
=============================================================================

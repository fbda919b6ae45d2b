----------------------------- MODULE MCEnrollment -----------------------------
(* Bounds for TLC: two machines compete for one use; two processes run a   *)
(* cycle and two run rotate-token.                                           *)
EXTENDS Enrollment, TLC

CONSTANTS a, b, service, once, o1, o2

TwoMachines == {a, b}
TwoRunners == {service, once}
TwoOperators == {o1, o2}

Symmetry == Permutations(TwoMachines) \cup Permutations(TwoRunners)
            \cup Permutations(TwoOperators)
=============================================================================

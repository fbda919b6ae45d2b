----------------------------- MODULE MCFirstStart -----------------------------
(* Bounds for TLC: one container, killed once.                               *)
EXTENDS FirstStart

CONSTANT c1

OneContainer == {c1}
=============================================================================

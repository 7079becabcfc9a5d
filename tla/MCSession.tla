------------------------------ MODULE MCSession ------------------------------
(* A user with two browsers, and two workers.                               *)
EXTENDS Session, TLC

CONSTANTS b1, b2, w1, w2

Symmetry == Permutations({b1, b2}) \cup Permutations({w1, w2})
==============================================================================

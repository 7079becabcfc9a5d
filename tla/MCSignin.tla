------------------------------ MODULE MCSignin -------------------------------
(* Three pairs, two of them from one address, two workers, and stores that  *)
(* hold two records and one window.                                         *)
EXTENDS Signin, TLC

CONSTANTS k1, k2, k3, a1, a2, w1, w2

MCAddressOf == (k1 :> a1) @@ (k2 :> a1) @@ (k3 :> a2)
Symmetry == Permutations({k1, k2}) \cup Permutations({w1, w2})
==============================================================================

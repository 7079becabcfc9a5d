----------------------------- MODULE MCAccounts -----------------------------
(* Two accounts, which two servers of two builds create and migrate; two of *)
(* three passwords differ past their 72nd byte only.                        *)
EXTENDS Accounts, TLC

CONSTANTS p1, p2, p3

MCStart == [p \in Passwords |-> IF p = p2 THEN p1 ELSE p]
Symmetry == Permutations(Ids) \cup Permutations(Workers) \cup Permutations(Emails)
==============================================================================

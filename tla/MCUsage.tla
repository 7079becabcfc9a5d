------------------------------- MODULE MCUsage -------------------------------
(* Three concurrent requests of one user, a limit of 2, or 0, a clock that  *)
(* sees a window open, end and open anew, and two COMMITs whose callers are *)
(* not told: one may be executed late beside requests that go on.           *)
EXTENDS Usage, TLC

CONSTANTS r1, r2, r3

MCRequests == {r1, r2, r3}
MCLimits == {0, 2}
Symmetry == Permutations(MCRequests)
==============================================================================

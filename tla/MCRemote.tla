------------------------------ MODULE MCRemote ------------------------------
(* Two processes, a new database or an old one, and two streams at a time.   *)
EXTENDS Remote
==============================================================================

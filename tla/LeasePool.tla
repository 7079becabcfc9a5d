------------------------------ MODULE LeasePool ------------------------------
(***************************************************************************)
(* What backend/src/db.rs promises of its connection pool, without saying   *)
(* how: every connection is free, leased to one thread or shut; a           *)
(* transaction lives inside one lease; and once the pool is shut no lease   *)
(* is granted and a connection that comes back is shut, not shelved.        *)
(* ConnPool implements this specification.                                  *)
(***************************************************************************)
CONSTANTS Conns,    \* the connections the pool was opened with
          Threads,  \* the threads that borrow them
          Free,     \* the lessee of a shelved connection
          Gone      \* the lessee of a connection that was closed

VARIABLES lessee,   \* who has each connection
          inTxn,    \* the connections with an open transaction
          shut      \* has the pool been shut down

vars == <<lessee, inTxn, shut>>

Init == /\ lessee = [c \in Conns |-> Free]
        /\ inTxn = {}
        /\ shut = FALSE

(* A thread that has no lease gets a free connection. *)
Grant(t, c) ==
    /\ ~shut
    /\ lessee[c] = Free
    /\ \A d \in Conns : lessee[d] # t
    /\ lessee' = [lessee EXCEPT ![c] = t]
    /\ UNCHANGED <<inTxn, shut>>

(* The lessee opens a transaction: the database admits one writer. *)
Open(t, c) ==
    /\ lessee[c] = t
    /\ inTxn = {}
    /\ inTxn' = {c}
    /\ UNCHANGED <<lessee, shut>>

(* The lessee ends its transaction, by commit or by rollback. *)
End(t, c) ==
    /\ lessee[c] = t
    /\ c \in inTxn
    /\ inTxn' = inTxn \ {c}
    /\ UNCHANGED <<lessee, shut>>

(* A lease ends outside any transaction, on the shelf or, after shutdown,   *)
(* with the connection closed.                                              *)
Release(t, c) ==
    /\ lessee[c] = t
    /\ c \notin inTxn
    /\ lessee' = [lessee EXCEPT ![c] = IF shut THEN Gone ELSE Free]
    /\ UNCHANGED <<inTxn, shut>>

(* Shutdown closes what is on the shelf and leaves the leases alone. *)
Shut ==
    /\ ~shut
    /\ shut' = TRUE
    /\ lessee' = [c \in Conns |-> IF lessee[c] = Free THEN Gone ELSE lessee[c]]
    /\ UNCHANGED inTxn

Next ==
    \/ \E t \in Threads, c \in Conns :
          Grant(t, c) \/ Open(t, c) \/ End(t, c) \/ Release(t, c)
    \/ Shut

Spec == Init /\ [][Next]_vars
==============================================================================

------------------------------ MODULE ConnPool -------------------------------
(***************************************************************************)
(* The connection pool of backend/src/db.rs: Pool::with, Pool::transaction, *)
(* Pool::checkout, Pool::close_all and the Drop of Checkout and of TxGuard. *)
(*                                                                          *)
(* A critical section of the pool mutex is one action.  What the code does  *)
(* after it unlocks (notify_one, notify_all, the statements of a            *)
(* transaction) is an action of its own, so that other threads run between  *)
(* a push and its notification as they do in the program.                   *)
(***************************************************************************)
EXTENDS FiniteSets, Integers

CONSTANTS Conns,    \* the connections Pool::open put in the pool
          Threads,  \* request workers and cleanup threads
          NoConn,   \* "this thread holds no connection"
          Gone      \* "this connection has been closed"

ASSUME ConnPoolAssumption ==
    /\ Conns # {} /\ IsFiniteSet(Conns)       \* count = size.max(1)
    /\ IsFiniteSet(Threads)
    /\ NoConn \notin Conns \cup Threads
    /\ Gone \notin Conns \cup Threads
    /\ Gone # NoConn

VARIABLES idle,     \* PoolState.idle
          closed,   \* PoolState.closed
          closer,   \* where the thread that calls close_all is
          pc,       \* where each thread is
          conn,     \* the connection in each thread's Checkout guard
          txn       \* the connections with an open transaction

vars == <<idle, closed, closer, pc, conn, txn>>

PCs == {"out", "checkout", "waiting", "with", "begin", "body", "commit",
        "rollback", "return", "notify"}

InTransaction == {"body", "commit", "rollback"}
Holding == InTransaction \cup {"with", "begin", "return"}

At(label) == {t \in Threads : pc[t] = label}

Goto(t, label) == pc' = [pc EXCEPT ![t] = label]

(* A step that moves the thread and touches nothing else. *)
Move(t, from, to) ==
    /\ pc[t] = from
    /\ Goto(t, to)
    /\ UNCHANGED <<idle, closed, closer, conn, txn>>

Init ==
    /\ idle = Conns
    /\ closed = FALSE
    /\ closer = "idle"
    /\ pc = [t \in Threads |-> "out"]
    /\ conn = [t \in Threads |-> NoConn]
    /\ txn = {}
------------------------------------------------------------------------------
(* Faults: plausible bugs of the actions below.  No specification uses     *)
(* them; each is what some property of this module must rule out.           *)

(* A closure that fails leaves without returning its connection. *)
LeakOnError(t) ==
    /\ pc[t] = "with"
    /\ conn' = [conn EXCEPT ![t] = NoConn]
    /\ Goto(t, "out")
    /\ UNCHANGED <<idle, closed, closer, txn>>

(* No TxGuard: an error or a panic skips the ROLLBACK. *)
BodyFailsUnguarded(t) == Move(t, "body", "return")

(* Drop of Checkout notifies only when the idle list goes from empty to     *)
(* non-empty, the classic misuse of notify_one.                             *)
NotifyOnlyFirst(t) ==
    /\ pc[t] = "return"
    /\ idle' = IF closed THEN idle ELSE idle \cup {conn[t]}
    /\ conn' = [conn EXCEPT ![t] = NoConn]
    /\ Goto(t, IF closed \/ idle # {} THEN "out" ELSE "notify")
    /\ UNCHANGED <<closed, closer, txn>>

(* Drop of Checkout does not look at the closed flag. *)
ReturnResurrects(t) ==
    /\ pc[t] = "return"
    /\ idle' = idle \cup {conn[t]}
    /\ conn' = [conn EXCEPT ![t] = NoConn]
    /\ Goto(t, "notify")
    /\ UNCHANGED <<closed, closer, txn>>

(* close_all calls notify_one. *)
NotifyAllWakesOne ==
    /\ closer = "notifyAll"
    /\ closer' = "done"
    /\ \/ At("waiting") = {} /\ UNCHANGED pc
       \/ \E w \in At("waiting") : Goto(w, "checkout")
    /\ UNCHANGED <<idle, closed, conn, txn>>
------------------------------------------------------------------------------
(* Pool::with or Pool::transaction is called. *)
Call(t) == Move(t, "out", "checkout")

(* Pool::checkout, one turn of its loop: the pool is closed. *)
CheckoutClosed(t) == closed /\ Move(t, "checkout", "out")

(* Pool::checkout takes an idle connection, for with or for transaction. *)
CheckoutTake(t) ==
    /\ pc[t] = "checkout"
    /\ ~closed
    /\ \E c \in idle :
          /\ idle' = idle \ {c}
          /\ conn' = [conn EXCEPT ![t] = c]
    /\ \E label \in {"with", "begin"} : Goto(t, label)
    /\ UNCHANGED <<closed, closer, txn>>

(* Pool::checkout finds nothing and waits on the condition variable; the    *)
(* wait releases the mutex in the same step.                                *)
CheckoutWait(t) == ~closed /\ idle = {} /\ Move(t, "checkout", "waiting")

(* A condition variable may wake its waiter with no notification. *)
SpuriousWake(t) == Move(t, "waiting", "checkout")

(* The closure given to Pool::with ends: a value, an error or a panic. *)
WithEnds(t) == Move(t, "with", "return")

(* BEGIN IMMEDIATE gets the database's one write lock. *)
Begin(t) ==
    /\ pc[t] = "begin"
    /\ txn = {}
    /\ txn' = txn \cup {conn[t]}
    /\ Goto(t, "body")
    /\ UNCHANGED <<idle, closed, closer, conn>>

(* BEGIN IMMEDIATE fails, busy for longer than BUSY_TIMEOUT_MS or broken:   *)
(* the error returns before a TxGuard exists.                               *)
BeginFails(t) == Move(t, "begin", "return")

(* The closure of a transaction returns a value, and COMMIT follows. *)
BodyReturns(t) == Move(t, "body", "commit")

(* The closure returns an error or panics: TxGuard is dropped. *)
BodyFails(t) == Move(t, "body", "rollback")

(* COMMIT succeeds and the guard is marked committed. *)
Commit(t) ==
    /\ pc[t] = "commit"
    /\ txn' = txn \ {conn[t]}
    /\ Goto(t, "return")
    /\ UNCHANGED <<idle, closed, closer, conn>>

(* COMMIT fails; the database may already have rolled the transaction back. *)
CommitFails(t) ==
    /\ pc[t] = "commit"
    /\ txn' \in {txn, txn \ {conn[t]}}
    /\ Goto(t, "rollback")
    /\ UNCHANGED <<idle, closed, closer, conn>>

(* Drop of an uncommitted TxGuard: SQLite's ROLLBACK ends the transaction,  *)
(* or fails because none is open any more; the failure is only printed.     *)
Rollback(t) ==
    /\ pc[t] = "rollback"
    /\ txn' = txn \ {conn[t]}
    /\ Goto(t, "return")
    /\ UNCHANGED <<idle, closed, closer, conn>>

(* Drop of Checkout, its critical section: the connection goes back to the  *)
(* idle list or, when the pool has been closed meanwhile, is closed.        *)
Return(t) ==
    /\ pc[t] = "return"
    /\ idle' = IF closed THEN idle ELSE idle \cup {conn[t]}
    /\ conn' = [conn EXCEPT ![t] = NoConn]
    /\ Goto(t, IF closed THEN "out" ELSE "notify")
    /\ UNCHANGED <<closed, closer, txn>>

(* Drop of Checkout, after the unlock: notify_one. *)
NotifyOne(t) ==
    /\ pc[t] = "notify"
    /\ \/ /\ At("waiting") = {}
          /\ Goto(t, "out")
       \/ \E w \in At("waiting") :
             pc' = [pc EXCEPT ![t] = "out", ![w] = "checkout"]
    /\ UNCHANGED <<idle, closed, closer, conn, txn>>

(* Pool::close_all, its critical section. *)
Close ==
    /\ closer = "idle"
    /\ closed' = TRUE
    /\ idle' = {}
    /\ closer' = "notifyAll"
    /\ UNCHANGED <<pc, conn, txn>>

(* Pool::close_all, after the unlock: notify_all. *)
NotifyAll ==
    /\ closer = "notifyAll"
    /\ closer' = "done"
    /\ pc' = [t \in Threads |-> IF pc[t] = "waiting" THEN "checkout" ELSE pc[t]]
    /\ UNCHANGED <<idle, closed, conn, txn>>
------------------------------------------------------------------------------
(* What a thread does once it has called the pool. *)
Proceed(t) ==
    \/ CheckoutClosed(t) \/ CheckoutTake(t) \/ CheckoutWait(t)
    \/ WithEnds(t)
    \/ Begin(t) \/ BeginFails(t)
    \/ BodyReturns(t) \/ BodyFails(t)
    \/ Commit(t) \/ CommitFails(t) \/ Rollback(t)
    \/ Return(t) \/ NotifyOne(t)

Next ==
    \/ \E t \in Threads : Call(t) \/ SpuriousWake(t) \/ Proceed(t)
    \/ Close
    \/ NotifyAll

Spec == Init /\ [][Next]_vars

(* A thread inside the pool is scheduled, a closure and a statement end     *)
(* (SQLite's busy timeout and the transport timeout bound them), and        *)
(* close_all runs to its end.  Nobody is obliged to call the pool, to call  *)
(* close_all or to wake spuriously.                                         *)
FairSpec ==
    /\ Spec
    /\ \A t \in Threads : WF_vars(Proceed(t))
    /\ WF_vars(NotifyAll)
------------------------------------------------------------------------------
TypeOK ==
    /\ idle \subseteq Conns
    /\ closed \in BOOLEAN
    /\ closer \in {"idle", "notifyAll", "done"}
    /\ pc \in [Threads -> PCs]
    /\ conn \in [Threads -> Conns \cup {NoConn}]
    /\ txn \subseteq Conns

(* Every connection of an open pool is in exactly one place, the idle list  *)
(* or one thread's guard: none is handed to two threads, none is lost on an *)
(* error path (Checkout's Drop, whatever the closure did).                  *)
ExclusiveLease ==
    /\ \A t \in Threads : conn[t] # NoConn <=> pc[t] \in Holding
    /\ \A t \in Threads : conn[t] \notin idle
    /\ \A t, u \in Threads : conn[t] = conn[u] /\ conn[t] # NoConn => t = u
    /\ ~closed => \A c \in Conns : c \in idle \/ \E t \in Threads : conn[t] = c

(* "a connection is never returned to the pool with a transaction still     *)
(* open" (Pool::transaction): an open transaction belongs to a thread that  *)
(* is inside Pool::transaction, so no other caller can join it.             *)
TransactionsEndBeforeReturn ==
    \A c \in txn : \E t \in Threads : conn[t] = c /\ pc[t] \in InTransaction

(* No wake-up is lost, although checkout's Drop notifies after it unlocks   *)
(* and a newcomer may take the connection meanwhile: while a thread sleeps, *)
(* each idle connection has a notification on its way or a thread that is   *)
(* awake and about to look; and nobody sleeps through close_all.            *)
NoLostWakeup ==
    /\ At("waiting") # {} =>
          Cardinality(idle) <= Cardinality(At("notify")) + Cardinality(At("checkout"))
    /\ closed /\ At("waiting") # {} => closer = "notifyAll"

(* Connections that are out when close_all runs are closed as they come     *)
(* back, and sleeping threads are woken "so none block forever".            *)
CloseDrains ==
    closed ~> (idle = {} /\ \A t \in Threads : conn[t] = NoConn /\ pc[t] # "waiting")
------------------------------------------------------------------------------
(* The pool implements the leases of LeasePool: NoConn stands for Free. *)
lessee ==
    [c \in Conns |-> IF c \in idle THEN NoConn
                     ELSE IF \E t \in Threads : conn[t] = c
                          THEN CHOOSE t \in Threads : conn[t] = c
                          ELSE Gone]

Lease == INSTANCE LeasePool WITH Free <- NoConn, inTxn <- txn, shut <- closed

ImplementsLease == Lease!Spec
==============================================================================

---------------------------- MODULE ConnRemoteProofs ----------------------------
(* Theorems about the two layers between a caller and its database: module  *)
(* ConnPool, which lends connections and ends their transactions, for every *)
(* set of connections and of threads, and module Remote, which carries a    *)
(* transaction over HTTP, for every set of processes, of accounts and of    *)
(* streams.  Both show a transaction to be its owner's alone, and both      *)
(* implement an abstract specification: LeasePool and AtomicData.           *)
EXTENDS ConnPool, Remote, FiniteSetTheorems, TLAPS

(***************************************************************************)
(* ConnPool                                                                *)
(***************************************************************************)

(* What close_all leaves behind; with it ExclusiveLease and the first part  *)
(* of NoLostWakeup are inductive.                                           *)
CloseInv ==
    /\ closed <=> closer # "idle"
    /\ closed => idle = {}

(* The second part of ExclusiveLease and TransactionsEndBeforeReturn need   *)
(* the program counters: one invariant carries them all.                    *)
LeaseInv == TypeOK /\ CloseInv /\ ExclusiveLease /\ TransactionsEndBeforeReturn
------------------------------------------------------------------------------
(* The pool starts with every connection on the idle list. *)
LEMMA LeaseInvInit == Init => LeaseInv
BY ConnPoolAssumption
DEF Init, LeaseInv, TypeOK, CloseInv, ExclusiveLease,
    TransactionsEndBeforeReturn, PCs, Holding, InTransaction

(* A step of a thread, of close_all, or none keeps the leases exclusive and *)
(* the transactions inside them.                                            *)
LEMMA LeaseInvNext == LeaseInv /\ [Next]_vars => LeaseInv'
<1> SUFFICES ASSUME LeaseInv, [Next]_vars PROVE LeaseInv'
  OBVIOUS
<1> USE ConnPoolAssumption
    DEF LeaseInv, TypeOK, CloseInv, ExclusiveLease, TransactionsEndBeforeReturn,
        PCs, Holding, InTransaction, Goto
<1>1. ASSUME NEW t \in Threads, Call(t) PROVE LeaseInv'
  BY <1>1 DEF Call, Move
<1>2. ASSUME NEW t \in Threads, SpuriousWake(t) PROVE LeaseInv'
  BY <1>2 DEF SpuriousWake, Move
<1>3. ASSUME NEW t \in Threads, CheckoutClosed(t) PROVE LeaseInv'
  BY <1>3 DEF CheckoutClosed, Move
<1>4. ASSUME NEW t \in Threads, CheckoutTake(t) PROVE LeaseInv'
  BY <1>4 DEF CheckoutTake
<1>5. ASSUME NEW t \in Threads, CheckoutWait(t) PROVE LeaseInv'
  BY <1>5 DEF CheckoutWait, Move
<1>6. ASSUME NEW t \in Threads, WithEnds(t) PROVE LeaseInv'
  BY <1>6 DEF WithEnds, Move
<1>7. ASSUME NEW t \in Threads, Begin(t) PROVE LeaseInv'
  BY <1>7 DEF Begin
<1>8. ASSUME NEW t \in Threads, BeginFails(t) PROVE LeaseInv'
  BY <1>8 DEF BeginFails, Move
<1>9. ASSUME NEW t \in Threads, BodyReturns(t) PROVE LeaseInv'
  BY <1>9 DEF BodyReturns, Move
<1>10. ASSUME NEW t \in Threads, BodyFails(t) PROVE LeaseInv'
  BY <1>10 DEF BodyFails, Move
<1>11. ASSUME NEW t \in Threads, Commit(t) PROVE LeaseInv'
  BY <1>11 DEF Commit
<1>12. ASSUME NEW t \in Threads, CommitFails(t) PROVE LeaseInv'
  BY <1>12 DEF CommitFails
<1>13. ASSUME NEW t \in Threads, Rollback(t) PROVE LeaseInv'
  BY <1>13 DEF Rollback
<1>14. ASSUME NEW t \in Threads, Return(t) PROVE LeaseInv'
  BY <1>14 DEF Return
<1>15. ASSUME NEW t \in Threads, NotifyOne(t) PROVE LeaseInv'
  BY <1>15 DEF NotifyOne, At
<1>16. CASE Close
  BY <1>16 DEF Close
<1>17. CASE NotifyAll
  BY <1>17 DEF NotifyAll
<1>18. CASE UNCHANGED vars
  BY <1>18 DEF vars
<1>19. QED
  BY <1>1, <1>2, <1>3, <1>4, <1>5, <1>6, <1>7, <1>8, <1>9, <1>10, <1>11,
     <1>12, <1>13, <1>14, <1>15, <1>16, <1>17, <1>18
  DEF Next, Proceed

(* The lease invariant, from which the next three theorems follow. *)
LEMMA LeaseInvariance == Spec => []LeaseInv
BY LeaseInvInit, LeaseInvNext, PTL DEF Spec

(* The variables keep their types. *)
THEOREM ConnPoolTypeCorrect == Spec => []TypeOK
BY LeaseInvariance, PTL DEF LeaseInv

(* No connection is shared, and none is lost while the pool is open. *)
THEOREM LeasesAreExclusive == Spec => []ExclusiveLease
BY LeaseInvariance, PTL DEF LeaseInv

(* A connection never goes back to the pool with its transaction open. *)
THEOREM NoTransactionIsPooled == Spec => []TransactionsEndBeforeReturn
BY LeaseInvariance, PTL DEF LeaseInv
------------------------------------------------------------------------------
(* The threads at a label are finitely many, before a step and after it. *)
LEMMA AtIsFinite ==
    ASSUME NEW l
    PROVE  /\ IsFiniteSet(At(l)) /\ Cardinality(At(l)) \in Nat
           /\ IsFiniteSet(At(l)') /\ Cardinality(At(l)') \in Nat
<1>1. At(l) \subseteq Threads /\ At(l)' \subseteq Threads
  BY DEF At
<1>2. QED
  BY <1>1, ConnPoolAssumption, FS_Subset, FS_CardinalityType

(* So are the idle connections. *)
LEMMA IdleIsFinite ==
    ASSUME TypeOK
    PROVE  IsFiniteSet(idle) /\ Cardinality(idle) \in Nat
BY ConnPoolAssumption, FS_Subset, FS_CardinalityType DEF TypeOK

(* What a thread's move does to the sets of threads by label. *)
LEMMA GotoMovesOne ==
    ASSUME TypeOK, NEW t \in Threads, NEW l, Goto(t, l)
    PROVE  \A m : At(m)' = IF m = l THEN At(m) \cup {t} ELSE At(m) \ {t}
BY DEF TypeOK, Goto, At

(* NoLostWakeup in two parts: idle connections are accounted for, and       *)
(* close_all leaves no sleeper behind.                                      *)
Accounted ==
    At("waiting") # {} =>
        Cardinality(idle) <= Cardinality(At("notify")) + Cardinality(At("checkout"))

AllWoken == closed /\ At("waiting") # {} => closer = "notifyAll"

SleepInv == LeaseInv /\ Accounted /\ AllWoken

(* At the start nobody waits.                                               *)
LEMMA SleepInvInit == Init => SleepInv
<1>1. Init => At("waiting") = {}
  BY DEF Init, At
<1>2. QED
  BY <1>1, LeaseInvInit DEF SleepInv, Accounted, AllWoken

(* With an empty idle list there is nothing to account for. *)
LEMMA NothingIdle ==
    ASSUME idle' = {}
    PROVE  Accounted'
BY FS_EmptySet, AtIsFinite DEF Accounted

(* A step that neither puts a thread to sleep nor changes the idle list,    *)
(* and takes no thread away from the wakers, keeps the account.             *)
LEMMA WakersKept ==
    ASSUME Accounted, idle' = idle, At("waiting")' \subseteq At("waiting"),
           Cardinality(At("notify")) + Cardinality(At("checkout"))
             <= Cardinality(At("notify")') + Cardinality(At("checkout")'),
           TypeOK
    PROVE  Accounted'
BY AtIsFinite, IdleIsFinite DEF Accounted

(* Each step keeps each sleeper accounted for. *)
LEMMA SleepInvNext == SleepInv /\ [Next]_vars => SleepInv'
<1> SUFFICES ASSUME SleepInv, [Next]_vars PROVE SleepInv'
  OBVIOUS
<1>0. LeaseInv' /\ TypeOK /\ CloseInv
  BY LeaseInvNext DEF SleepInv, LeaseInv
<1> SUFFICES Accounted' /\ AllWoken'
  BY <1>0 DEF SleepInv
<1>1. ASSUME NEW t \in Threads, Call(t) PROVE Accounted' /\ AllWoken'
  <2>1. At("waiting")' = At("waiting") /\ At("notify")' = At("notify")
        /\ At("checkout")' = At("checkout") \cup {t}
    BY <1>0, <1>1, GotoMovesOne DEF Call, Move, At
  <2>2. Cardinality(At("checkout")) <= Cardinality(At("checkout")')
    BY <2>1, AtIsFinite, FS_Subset
  <2>3. Accounted'
    BY <1>0, <1>1, <2>1, <2>2, WakersKept, AtIsFinite DEF SleepInv, Call, Move
  <2>4. QED
    BY <1>1, <2>1, <2>3 DEF SleepInv, AllWoken, Call, Move
<1>2. ASSUME NEW t \in Threads, SpuriousWake(t) PROVE Accounted' /\ AllWoken'
  <2>1. At("waiting")' \subseteq At("waiting") /\ At("notify")' = At("notify")
        /\ At("checkout")' = At("checkout") \cup {t}
    BY <1>0, <1>2, GotoMovesOne DEF SpuriousWake, Move, At
  <2>2. Cardinality(At("checkout")) <= Cardinality(At("checkout")')
    BY <2>1, AtIsFinite, FS_Subset
  <2>3. Accounted'
    BY <1>0, <1>2, <2>1, <2>2, WakersKept, AtIsFinite DEF SleepInv, SpuriousWake, Move
  <2>4. QED
    BY <1>2, <2>1, <2>3 DEF SleepInv, AllWoken, SpuriousWake, Move
<1>3. ASSUME NEW t \in Threads, CheckoutClosed(t) PROVE Accounted' /\ AllWoken'
  <2>1. idle' = {} /\ At("waiting")' = At("waiting")
    BY <1>0, <1>3, GotoMovesOne DEF CheckoutClosed, Move, At, CloseInv
  <2>2. QED
    BY <1>3, <2>1, NothingIdle DEF SleepInv, AllWoken, CheckoutClosed, Move
<1>4. ASSUME NEW t \in Threads, CheckoutTake(t) PROVE Accounted' /\ AllWoken'
  <2>1. PICK c \in idle : idle' = idle \ {c}
    BY <1>4 DEF CheckoutTake
  <2>2. At("waiting")' = At("waiting") /\ At("notify")' = At("notify")
        /\ At("checkout")' = At("checkout") \ {t} /\ t \in At("checkout")
    BY <1>0, <1>4, GotoMovesOne DEF CheckoutTake, At
  <2>3. /\ Cardinality(idle') = Cardinality(idle) - 1
        /\ Cardinality(At("checkout")') = Cardinality(At("checkout")) - 1
    BY <1>0, <2>1, <2>2, IdleIsFinite, AtIsFinite, FS_RemoveElement
  <2>4. Accounted'
    BY <1>0, <2>2, <2>3, IdleIsFinite, AtIsFinite DEF SleepInv, Accounted
  <2>5. QED
    BY <1>4, <2>2, <2>4 DEF SleepInv, AllWoken, CheckoutTake
<1>5. ASSUME NEW t \in Threads, CheckoutWait(t) PROVE Accounted' /\ AllWoken'
  BY <1>5, NothingIdle DEF CheckoutWait, Move, AllWoken
<1>6. ASSUME NEW t \in Threads,
             UNCHANGED <<idle, closed, closer>>,
             \A l \in {"waiting", "notify", "checkout"} : At(l)' = At(l)
      PROVE  Accounted' /\ AllWoken'
  BY <1>6 DEF SleepInv, Accounted, AllWoken
<1>7. ASSUME NEW t \in Threads,
             WithEnds(t) \/ Begin(t) \/ BeginFails(t) \/ BodyReturns(t)
               \/ BodyFails(t) \/ Commit(t) \/ CommitFails(t) \/ Rollback(t)
      PROVE  Accounted' /\ AllWoken'
  <2>1. UNCHANGED <<idle, closed, closer>>
    BY <1>7 DEF WithEnds, Begin, BeginFails, BodyReturns, BodyFails, Commit,
                CommitFails, Rollback, Move
  <2>2. \A l \in {"waiting", "notify", "checkout"} : At(l)' = At(l)
    BY <1>0, <1>7, GotoMovesOne
    DEF At, WithEnds, Begin, BeginFails, BodyReturns, BodyFails, Commit,
        CommitFails, Rollback, Move
  <2>3. QED
    BY <1>6, <2>1, <2>2
<1>8. ASSUME NEW t \in Threads, Return(t) PROVE Accounted' /\ AllWoken'
  <2>1. CASE closed
    <3>1. idle' = {} /\ At("waiting")' = At("waiting")
      BY <1>0, <1>8, <2>1, GotoMovesOne DEF Return, At, CloseInv
    <3>2. QED
      BY <1>8, <3>1, NothingIdle DEF SleepInv, AllWoken, Return
  <2>2. CASE ~closed
    <3>1. /\ At("waiting")' = At("waiting") /\ At("checkout")' = At("checkout")
          /\ At("notify")' = At("notify") \cup {t} /\ t \notin At("notify")
          /\ idle' = idle \cup {conn[t]}
      BY <1>0, <1>8, <2>2, GotoMovesOne DEF Return, At
    <3>2. Cardinality(At("notify")') = Cardinality(At("notify")) + 1
      BY <3>1, AtIsFinite, FS_AddElement
    <3>3. /\ Cardinality(idle') <= Cardinality(idle) + 1
          /\ Cardinality(idle') \in Nat
      <4>1. IsFiniteSet(idle) /\ Cardinality(idle) \in Nat
        BY <1>0, IdleIsFinite
      <4>2. Cardinality(idle \cup {conn[t]}) \in {Cardinality(idle), Cardinality(idle) + 1}
        BY <4>1, FS_AddElement
      <4>3. QED
        BY <3>1, <4>1, <4>2
    <3>4. Accounted'
      BY <1>0, <3>1, <3>2, <3>3, IdleIsFinite, AtIsFinite DEF SleepInv, Accounted
    <3>5. QED
      BY <1>8, <2>2, <3>4 DEF AllWoken, Return
  <2>3. QED
    BY <2>1, <2>2
<1>9. ASSUME NEW t \in Threads, NotifyOne(t) PROVE Accounted' /\ AllWoken'
  <2>1. CASE At("waiting") = {}
    <3>1. At("waiting")' = {}
      BY <1>0, <1>9, <2>1, GotoMovesOne DEF NotifyOne, At
    <3>2. QED
      BY <3>1 DEF Accounted, AllWoken
  <2>2. ASSUME NEW w \in At("waiting"),
               pc' = [pc EXCEPT ![t] = "out", ![w] = "checkout"]
        PROVE  Accounted' /\ AllWoken'
    <3>1. /\ At("waiting")' \subseteq At("waiting")
          /\ At("checkout")' = At("checkout") \cup {w} /\ w \notin At("checkout")
          /\ At("notify")' = At("notify") \ {t} /\ t \in At("notify")
      BY <1>0, <1>9, <2>2 DEF NotifyOne, At, TypeOK
    <3>2. /\ Cardinality(At("checkout")') = Cardinality(At("checkout")) + 1
          /\ Cardinality(At("notify")') = Cardinality(At("notify")) - 1
      BY <3>1, AtIsFinite, FS_AddElement, FS_RemoveElement
    <3>3. Accounted'
      BY <1>0, <1>9, <3>1, <3>2, WakersKept, AtIsFinite DEF SleepInv, NotifyOne
    <3>4. QED
      BY <1>9, <3>1, <3>3 DEF SleepInv, AllWoken, NotifyOne
  <2>3. QED
    BY <1>9, <2>1, <2>2 DEF NotifyOne
<1>10. CASE Close
  BY <1>10, NothingIdle DEF Close, AllWoken
<1>11. CASE NotifyAll
  <2>1. At("waiting")' = {}
    BY <1>0, <1>11 DEF NotifyAll, At, TypeOK
  <2>2. QED
    BY <2>1 DEF Accounted, AllWoken
<1>12. CASE UNCHANGED vars
  BY <1>12 DEF vars, SleepInv, Accounted, AllWoken, At
<1>13. QED
  BY <1>1, <1>2, <1>3, <1>4, <1>5, <1>7, <1>8, <1>9, <1>10, <1>11, <1>12
  DEF Next, Proceed

(* No thread sleeps beside an idle connection that nobody is about to take  *)
(* or announce, and none sleeps through close_all.                          *)
THEOREM WakeupsAreNotLost == Spec => []NoLostWakeup
<1>1. SleepInv => NoLostWakeup
  BY DEF SleepInv, Accounted, AllWoken, NoLostWakeup
<1>2. QED
  BY <1>1, SleepInvInit, SleepInvNext, PTL DEF Spec
------------------------------------------------------------------------------
(* The refinement mapping by its three cases: on the idle list, in the      *)
(* guard of one thread, closed.                                             *)
LesseeCases ==
    /\ \A c \in idle : lessee[c] = NoConn
    /\ \A t \in Threads : conn[t] # NoConn => lessee[conn[t]] = t
    /\ \A c \in Conns \ idle : (\A t \in Threads : conn[t] # c) => lessee[c] = Gone

(* What each connection's place says of its lessee.                         *)
LEMMA LesseeByCases == LeaseInv => LesseeCases
BY DEF LeaseInv, TypeOK, ExclusiveLease, LesseeCases, lessee

(* The mapping depends on the idle list and on the guards only. *)
LEMMA LesseeKept ==
    ASSUME UNCHANGED <<idle, conn>>
    PROVE  lessee' = lessee
BY DEF lessee

(* The pool opens with every connection free. *)
LEMMA RefinementInit == Init => Lease!Init
BY DEF Init, Lease!Init, lessee

(* Every step of the pool is a step of LeasePool or leaves it unchanged. *)
LEMMA RefinementNext == LeaseInv /\ LeaseInv' /\ [Next]_vars => [Lease!Next]_(Lease!vars)
<1> SUFFICES ASSUME LeaseInv, LeaseInv', [Next]_vars
             PROVE  [Lease!Next]_(Lease!vars)
  OBVIOUS
<1> USE ConnPoolAssumption DEF LeaseInv, TypeOK
<1>0. LesseeCases /\ LesseeCases'
  BY LesseeByCases, PTL
<1>1. ASSUME UNCHANGED <<idle, conn, closed, txn>>
      PROVE  [Lease!Next]_(Lease!vars)
  BY <1>1, LesseeKept DEF Lease!vars
<1>2. ASSUME NEW t \in Threads, CheckoutTake(t)
      PROVE  [Lease!Next]_(Lease!vars)
  <2>1. PICK c \in idle : idle' = idle \ {c} /\ conn' = [conn EXCEPT ![t] = c]
    BY <1>2 DEF CheckoutTake
  <2>2. conn[t] = NoConn /\ ~closed /\ UNCHANGED <<txn, closed>>
    BY <1>2 DEF CheckoutTake, ExclusiveLease, Holding, InTransaction
  <2>3. \A d \in Conns : lessee[d] # t
    BY <2>2 DEF lessee
  <2>4. \A d \in Conns : lessee'[d] = IF d = c THEN t ELSE lessee[d]
    BY <1>0, <2>1, <2>2 DEF LesseeCases
  <2>5. lessee' = [lessee EXCEPT ![c] = t]
    BY <2>4 DEF lessee
  <2>6. Lease!Grant(t, c)
    BY <1>0, <2>1, <2>2, <2>3, <2>5 DEF Lease!Grant, LesseeCases
  <2>7. QED
    BY <2>6 DEF Lease!Next
<1>3. ASSUME NEW t \in Threads, Begin(t)
      PROVE  [Lease!Next]_(Lease!vars)
  <2>1. conn[t] \in Conns /\ lessee[conn[t]] = t
    BY <1>0, <1>3 DEF Begin, LesseeCases, ExclusiveLease, Holding, InTransaction
  <2>2. Lease!Open(t, conn[t])
    BY <1>3, <2>1, LesseeKept DEF Begin, Lease!Open
  <2>3. QED
    BY <2>1, <2>2 DEF Lease!Next
<1>4. ASSUME NEW t \in Threads, Commit(t) \/ CommitFails(t) \/ Rollback(t)
      PROVE  [Lease!Next]_(Lease!vars)
  <2>1. conn[t] \in Conns /\ lessee[conn[t]] = t
    BY <1>0, <1>4 DEF Commit, CommitFails, Rollback, LesseeCases, ExclusiveLease,
                      Holding, InTransaction
  <2>2. /\ UNCHANGED <<idle, conn, closed>>
        /\ txn' = txn \/ txn' = txn \ {conn[t]}
    BY <1>4 DEF Commit, CommitFails, Rollback
  <2>3. CASE conn[t] \in txn /\ txn' = txn \ {conn[t]}
    BY <2>1, <2>2, <2>3, LesseeKept DEF Lease!End, Lease!Next
  <2>4. CASE txn' = txn
    BY <1>1, <2>2, <2>4
  <2>5. QED
    BY <2>2, <2>3, <2>4
<1>5. ASSUME NEW t \in Threads, Return(t)
      PROVE  [Lease!Next]_(Lease!vars)
  <2>1. conn[t] \in Conns /\ lessee[conn[t]] = t /\ conn[t] \notin idle
    BY <1>0, <1>5 DEF Return, LesseeCases, ExclusiveLease, Holding, InTransaction
  <2>2. conn[t] \notin txn
    BY <1>5 DEF Return, TransactionsEndBeforeReturn, ExclusiveLease, InTransaction
  <2>3. /\ idle' = IF closed THEN idle ELSE idle \cup {conn[t]}
        /\ conn' = [conn EXCEPT ![t] = NoConn]
        /\ UNCHANGED <<closed, txn>>
    BY <1>5 DEF Return
  <2>4. \A d \in Conns : lessee'[d] = IF d = conn[t] THEN IF closed THEN Gone ELSE NoConn
                                      ELSE lessee[d]
    BY <1>0, <2>1, <2>3 DEF LesseeCases, ExclusiveLease
  <2>5. lessee' = [lessee EXCEPT ![conn[t]] = IF closed THEN Gone ELSE NoConn]
    BY <2>4 DEF lessee
  <2>6. Lease!Release(t, conn[t])
    BY <2>1, <2>2, <2>3, <2>5 DEF Lease!Release
  <2>7. QED
    BY <2>1, <2>6 DEF Lease!Next
<1>6. CASE Close
  <2>1. ~closed /\ closed' = TRUE /\ idle' = {} /\ UNCHANGED <<conn, txn>>
    BY <1>6 DEF Close, CloseInv
  <2>2. \A c \in Conns : lessee'[c] = IF lessee[c] = NoConn THEN Gone ELSE lessee[c]
    BY <1>0, <2>1 DEF LesseeCases, ExclusiveLease
  <2>3. lessee' = [c \in Conns |-> IF lessee[c] = NoConn THEN Gone ELSE lessee[c]]
    BY <2>2 DEF lessee
  <2>4. QED
    BY <2>1, <2>3 DEF Lease!Shut, Lease!Next
<1>7. CASE NotifyAll
  BY <1>1, <1>7 DEF NotifyAll
<1>8. CASE UNCHANGED vars
  BY <1>1, <1>8 DEF vars
<1>9. ASSUME NEW t \in Threads,
             \/ Call(t) \/ SpuriousWake(t) \/ CheckoutClosed(t) \/ CheckoutWait(t)
             \/ WithEnds(t) \/ BeginFails(t) \/ BodyReturns(t) \/ BodyFails(t)
             \/ NotifyOne(t)
      PROVE  [Lease!Next]_(Lease!vars)
  BY <1>1, <1>9
  DEF Call, SpuriousWake, CheckoutClosed, CheckoutWait, WithEnds, BeginFails,
      BodyReturns, BodyFails, NotifyOne, Move
<1>10. QED
  BY <1>2, <1>3, <1>4, <1>5, <1>6, <1>7, <1>8, <1>9 DEF Next, Proceed

(* The pool implements exclusive leases with transactions inside them. *)
THEOREM PoolImplementsLeases == Spec => ImplementsLease
BY LeaseInvariance, RefinementInit, RefinementNext, PTL
DEF Spec, ImplementsLease, Lease!Spec

(***************************************************************************)
(* Remote                                                                  *)
(***************************************************************************)

(* What the seed, and the creation of an account, write in one transaction. *)
SeedRows == {<<"venue", None>>, <<"menu", None>>}
AccountRows(u) == {<<"user", u>>, <<"auth", u>>}

(* Where a process can be, and that it holds a baton just within a          *)
(* transaction.  Only a rollback may be sent without one.                   *)
SessionInv(p) ==
    LET r == sess[p]
    IN /\ r.run \in {"down", "ready"} => r.at = "none"
       /\ r.run = "opening" =>
             r.at \in {"create", "info", "alter", "index", "probe", "begin",
                       "venue", "menu", "commit", "rollback"}
       /\ r.run = "tx" =>
             p \in Users /\ r.at \in {"begin", "user", "auth", "commit", "rollback"}
       /\ r.at \notin InTx \cup {"commit", "rollback"} => r.baton = NoBaton
       /\ r.at \in InTx \cup {"commit"} => r.baton # NoBaton

(* The same of a message, sent or given up on.                              *)
Formed(m) ==
    /\ m.at \notin InTx \cup {"commit", "rollback"} => m.baton = NoBaton
    /\ m.at \in InTx \cup {"commit"} => m.baton # NoBaton
    /\ m.at \in {"user", "auth"} => m.by \in Users
    /\ m.close = (m.at # "begin" /\ (m.at \in {"commit", "rollback"} \/ m.baton = NoBaton))

(* What a transaction has written when m is its next statement.             *)
Fits(m, pend) ==
    /\ m.at \in {"venue", "user"} => pend = {}
    /\ m.at = "menu" => pend = {<<"venue", None>>}
    /\ m.at = "auth" => pend = {<<"user", m.by>>}
    /\ m.at = "commit" => pend = SeedRows \/ \E u \in Users : pend = AccountRows(u)

(* The stream that a baton names has expired, or waits for this statement.  *)
Agrees(m) ==
    LET r == streams[m.baton.stream]
    IN m.baton # NoBaton /\ r.open => r.n = m.baton.n /\ r.tx /\ Fits(m, r.pend)

(* A process that creates its account commits the rows of that account.     *)
CommitsOwn(p) ==
    sess[p].run = "tx" /\ sess[p].at = "commit" /\ streams[sess[p].baton.stream].open
        => streams[sess[p].baton.stream].pend = AccountRows(p)

ProcessInv(p) ==
    /\ SessionInv(p) /\ CommitsOwn(p)
    /\ sess[p].at # "none" => Formed(Message(p)) /\ Agrees(Message(p))

(* A stream is named by one session or by one message that was given up on, *)
(* never by two: nobody else can use a transaction up.                      *)
OneHolder ==
    /\ \A p, q \in Procs :
          sess[p].baton # NoBaton /\ sess[p].baton.stream = sess[q].baton.stream => p = q
    /\ \A m, o \in late :
          m.baton # NoBaton /\ m.baton.stream = o.baton.stream => m = o
    /\ \A p \in Procs, m \in late :
          sess[p].baton # NoBaton => sess[p].baton.stream # m.baton.stream

(* The rows of a transaction are new: however many processes found a table  *)
(* empty, or try again what may have happened, the seed is inserted once.   *)
RowsAreWrittenOnce == \A s \in Streams : streams[s].pend \cap data = {}

(* The server has one writer at a time, and rows that are not committed are *)
(* those of its transaction: what it found missing is missing until it ends.*)
TransactionsInv ==
    /\ \A s \in Streams : IF streams[s].tx THEN lock = s ELSE streams[s].pend = {}
    /\ RowsAreWrittenOnce

RemoteInv ==
    /\ RemoteTypeOK /\ WholeOrNothing /\ AckedIsKept /\ TransactionsInv /\ OneHolder
    /\ \A p \in Procs : ProcessInv(p)
    /\ \A m \in late : Formed(m) /\ Agrees(m)
------------------------------------------------------------------------------
(* Which statements begin and end a transaction.                            *)
LEMMA KindIs ==
    ASSUME NEW at
    PROVE  /\ Kind(at) = "Begin" <=> at = "begin"
           /\ Kind(at) = "End" <=> at \in {"commit", "rollback"}
BY DEF Kind

(* The statements that seed and create accounts write rows that no other    *)
(* does.                                                                    *)
LEMMA RowsOfIs ==
    ASSUME NEW m \in Messages, Formed(m)
    PROVE  /\ RowsOf(m) \subseteq Rows
           /\ m.at \in {"venue", "menu"} => RowsOf(m) = {<<m.at, None>>}
           /\ m.at \in {"user", "auth"} => RowsOf(m) = {<<m.at, m.by>>}
           /\ m.at \in {"create", "alter"} =>
                 RowsOf(m) \subseteq {<<"create", None>>, <<"alter", None>>}
           /\ m.at \notin Writes => RowsOf(m) = {}
<1>1. CASE m.at \in {"user", "auth"}
  <2>1. RowsOf(m) = {<<m.at, m.by>>} /\ m.by \in Users
    BY <1>1 DEF RowsOf, Formed
  <2>2. <<m.at, m.by>> \in {"user", "auth"} \X Users
    BY <1>1, <2>1
  <2>3. QED
    BY <1>1, <2>1, <2>2 DEF Rows, Writes, InTx
<1>2. CASE m.at = "create"
  BY <1>2 DEF RowsOf, Writes, InTx, Rows
<1>3. CASE m.at \in {"venue", "menu", "alter"}
  BY <1>3 DEF RowsOf, Writes, InTx, Rows
<1>4. CASE m.at \notin Writes
  BY <1>4 DEF RowsOf, Writes, InTx
<1>5. QED
  BY <1>1, <1>2, <1>3, <1>4 DEF Writes, InTx

(* The stream that a message reaches.                                       *)
LEMMA StreamOfIs ==
    ASSUME NEW m \in Messages, CanExec(m)
    PROVE  /\ m.baton # NoBaton => StreamOf(m) = m.baton.stream /\ m.baton.stream \in Streams
           /\ m.baton = NoBaton /\ m.close => StreamOf(m) = None
           /\ m.baton = NoBaton /\ ~m.close => StreamOf(m) \in Fresh
           /\ m.baton = NoBaton => m.baton.stream = None
<1>1. m.baton = NoBaton /\ ~m.close => StreamOf(m) \in Fresh
  <2>1. Fresh # {} => (CHOOSE s \in Fresh : TRUE) \in Fresh
    OBVIOUS
  <2>2. QED
    BY <2>1 DEF StreamOf, CanExec
<1>2. m.baton \in Batons \cup {NoBaton}
  BY DEF Messages
<1>3. m.baton # NoBaton => StreamOf(m) = m.baton.stream /\ m.baton.stream \in Streams
  BY <1>2 DEF StreamOf, Batons
<1>4. m.baton = NoBaton /\ m.close => StreamOf(m) = None
  BY DEF StreamOf
<1>5. QED
  BY <1>1, <1>3, <1>4 DEF NoBaton

(* A statement that is executed leaves a stream it does not name, and that  *)
(* another session or message names, as it is.                              *)
LEMMA ExecKeeps ==
    ASSUME RemoteInv, NEW m \in Messages, Formed(m), Agrees(m), NEW ok \in BOOLEAN, Exec(m, ok)
    PROVE  /\ streams' \in [Streams -> Stream] /\ lock' \in Streams \cup {None}
           /\ data' \subseteq Rows /\ data \subseteq data'
           /\ TransactionsInv' /\ WholeOrNothing'
           /\ \A s \in Streams : Named(s) /\ s # m.baton.stream => streams'[s] = streams[s]
           /\ ok /\ m.at = "commit" =>
                 streams[m.baton.stream].open /\ streams[m.baton.stream].pend \subseteq data'
<1>1. CASE ~Valid(m)
  BY <1>1 DEF Exec, Accepts, RemoteInv, RemoteTypeOK, TransactionsInv, RowsAreWrittenOnce,
              WholeOrNothing, Named
<1>2. CASE Valid(m)
  <2>1. /\ streams' = IF StreamOf(m) = None THEN streams
                      ELSE [streams EXCEPT ![StreamOf(m)] = After(m, ok)]
        /\ lock' = IF After(m, ok).tx THEN StreamOf(m)
                   ELSE IF lock = StreamOf(m) THEN None ELSE lock
        /\ data' = data \cup (IF ok /\ m.at = "commit" THEN Was(m).pend
                              ELSE IF InTxAfter(m, ok) THEN {} ELSE Wrote(m, ok))
        /\ CanExec(m) /\ ok = Accepts(m)
    BY <1>2 DEF Exec
  <2>2. Was(m) \in Stream /\ (~Was(m).tx => Was(m).pend = {})
    BY <1>2, StreamOfIs, <2>1 DEF Was, Closed, Stream, RemoteInv, RemoteTypeOK,
                                  TransactionsInv, RowsAreWrittenOnce
  <2>3. Was(m).pend \subseteq Rows /\ Wrote(m, ok) \subseteq Rows
    BY <2>2, RowsOfIs DEF Stream, Wrote
  <2>4. After(m, ok) \in Stream /\ (~After(m, ok).tx => After(m, ok).pend = {})
    <3>1. Closed \in Stream /\ ~Closed.tx /\ Closed.pend = {}
      BY DEF Closed, Stream
    <3>2. CASE ~m.close
      <4>1. 1 - Was(m).n \in {0, 1}
        BY <2>2 DEF Stream
      <4>2. InTxAfter(m, ok) \in BOOLEAN
        BY <2>2 DEF InTxAfter, Stream
      <4>3. (IF InTxAfter(m, ok) THEN Was(m).pend \cup Wrote(m, ok) ELSE {}) \in SUBSET Rows
        BY <2>3
      <4>4. QED
        BY <3>2, <4>1, <4>2, <4>3 DEF After, Stream
    <3>3. QED
      BY <3>1, <3>2 DEF After
  <2>5. StreamOf(m) \in Streams \cup {None} /\ None \notin Streams
    BY <2>1, StreamOfIs, RemoteAssumption DEF Fresh
  <2>6. streams' \in [Streams -> Stream] /\ lock' \in Streams \cup {None}
    BY <2>1, <2>4, <2>5 DEF RemoteInv, RemoteTypeOK
  <2>7. data' \subseteq Rows /\ data \subseteq data'
    BY <2>1, <2>3 DEF RemoteInv, RemoteTypeOK
  <2>8. ASSUME NEW s \in Streams
        PROVE  /\ IF streams'[s].tx THEN lock' = s ELSE streams'[s].pend = {}
               /\ streams'[s].pend \cap data' = {}
    <3>1. \A x \in Streams : IF streams[x].tx THEN lock = x ELSE streams[x].pend = {}
      BY DEF RemoteInv, TransactionsInv, RowsAreWrittenOnce
    <3>2. \A x \in Streams : streams[x].pend \cap data = {}
      BY DEF RemoteInv, TransactionsInv, RowsAreWrittenOnce
    <3>3. After(m, ok).tx => ~m.close /\ After(m, ok).tx = InTxAfter(m, ok)
      BY DEF After, Closed
    <3>4. Was(m).tx => m.baton # NoBaton /\ m.baton.stream \in Streams /\ StreamOf(m) = m.baton.stream
                       /\ Was(m) = streams[m.baton.stream] /\ lock = m.baton.stream
      BY <2>1, <3>1, StreamOfIs DEF Was, Closed
    <3>5. InTxAfter(m, ok) =>
             \/ Was(m).tx
             \/ ok /\ m.at = "begin" /\ m.baton = NoBaton /\ lock = None /\ Was(m).pend = {}
      BY <2>1, StreamOfIs DEF InTxAfter, Accepts, Formed, InTx, Was, Closed
    <3>6. Wrote(m, ok) # {} /\ ~InTxAfter(m, ok) => lock = None
      BY <2>1, <3>4, KindIs, RowsOfIs, StreamOfIs
      DEF InTxAfter, Accepts, Wrote, Formed, Agrees, Valid, Was, Writes, InTx
    <3>7. CASE s # StreamOf(m)
      <4>1. streams'[s] = streams[s]
        BY <2>1, <2>5, <3>7 DEF RemoteInv, RemoteTypeOK
      <4>2. streams[s].tx => ~After(m, ok).tx /\ lock # StreamOf(m)
        BY <2>5, <3>1, <3>3, <3>4, <3>5, <3>7
      <4>3. streams[s].tx => lock' = s
        BY <2>1, <3>1, <4>2
      <4>4. streams[s].tx => data' = data
        BY <2>1, <2>2, <2>5, <3>1, <3>4, <3>6, <3>7
      <4>5. QED
        BY <3>1, <3>2, <4>1, <4>3, <4>4
    <3>8. CASE s = StreamOf(m)
      <4>1. streams'[s] = After(m, ok)
        BY <2>1, <2>5, <3>8 DEF RemoteInv, RemoteTypeOK
      <4>2. After(m, ok).tx => lock' = s
        BY <2>1, <3>8
      <4>3. CASE ~After(m, ok).tx
        BY <2>4, <4>1, <4>3
      <4>4. CASE After(m, ok).tx
        <5>1. InTxAfter(m, ok) /\ After(m, ok).pend = Was(m).pend \cup Wrote(m, ok)
          BY <3>3, <4>4 DEF After
        <5>2. data' = data
          BY <2>1, <5>1, KindIs DEF InTxAfter
        <5>3. Was(m).pend \cap data = {}
          BY <3>2, <3>4, <3>5, <5>1
        <5>4. Wrote(m, ok) \cap data = {}
          <6>1. CASE ~ok \/ m.at \notin Writes
            BY <6>1, RowsOfIs DEF Wrote
          <6>2. CASE ok /\ m.at \in {"venue", "user"}
            BY <2>1, <6>2 DEF Wrote, Accepts, Unique
          <6>3. CASE ok /\ m.at = "menu"
            <7>1. Was(m).pend = {<<"venue", None>>} /\ Wrote(m, ok) = {<<"menu", None>>}
              BY <1>2, <6>3, RowsOfIs DEF Agrees, Fits, Formed, Valid, Was, Wrote, InTx
            <7>2. QED
              BY <5>3, <7>1 DEF RemoteInv, WholeOrNothing
          <6>4. CASE ok /\ m.at = "auth"
            <7>1. Was(m).pend = {<<"user", m.by>>} /\ Wrote(m, ok) = {<<"auth", m.by>>}
                  /\ m.by \in Users
              BY <1>2, <6>4, RowsOfIs DEF Agrees, Fits, Formed, Valid, Was, Wrote, InTx
            <7>2. QED
              BY <5>3, <7>1 DEF RemoteInv, WholeOrNothing
          <6>5. CASE ok /\ m.at \in {"create", "alter"}
            BY <3>5, <3>4, <5>1, <6>5 DEF Formed, InTx
          <6>6. QED
            BY <6>1, <6>2, <6>3, <6>4, <6>5 DEF Writes, InTx
        <5>5. QED
          BY <4>1, <4>2, <4>4, <5>1, <5>2, <5>3, <5>4
      <4>5. QED
        BY <4>3, <4>4
    <3>9. QED
      BY <3>7, <3>8
  <2>9. ASSUME NEW s \in Streams, Named(s), s # m.baton.stream
        PROVE  streams'[s] = streams[s]
    BY <2>1, <2>9, <2>5, StreamOfIs DEF Fresh, RemoteInv, RemoteTypeOK
  <2>10. ASSUME ok, m.at = "commit"
         PROVE  /\ streams[m.baton.stream].open
                /\ Was(m) = streams[m.baton.stream] /\ Was(m).pend \subseteq data'
    BY <1>2, <2>1, <2>10 DEF Formed, Valid, Was, InTx
  <2>11. WholeOrNothing'
    <3>1. CASE ok /\ m.at = "commit"
      <4>1. Was(m).pend = SeedRows \/ \E u \in Users : Was(m).pend = AccountRows(u)
        BY <3>1, <2>10 DEF Agrees, Fits, Formed
      <4>2. data' = data \cup Was(m).pend
        BY <2>1, <3>1
      <4>3. QED
        BY <4>1, <4>2 DEF WholeOrNothing, RemoteInv, SeedRows, AccountRows
    <3>2. CASE ~(ok /\ m.at = "commit")
      <4>1. m.at \in InTx /\ ok => InTxAfter(m, ok)
        BY <1>2 DEF Formed, Agrees, Valid, Was, InTxAfter, Kind, InTx
      <4>2. m.at \in {"create", "alter"} => RowsOf(m) \subseteq {<<"create", None>>,
      <<"alter", None>>}
        BY RowsOfIs
      <4>3. m.at \notin Writes => RowsOf(m) = {}
        BY RowsOfIs
      <4>4. data' \subseteq data \cup {<<"create", None>>, <<"alter", None>>}
        BY <2>1, <3>2, <4>1, <4>2, <4>3 DEF Wrote, Writes
      <4>5. QED
        BY <4>4, <2>7 DEF WholeOrNothing, RemoteInv
    <3>3. QED
      BY <3>1, <3>2
  <2>12. TransactionsInv'
    BY <2>8 DEF TransactionsInv, RowsAreWrittenOnce
  <2>13. QED
    BY <2>6, <2>7, <2>9, <2>10, <2>11, <2>12
<1>3. QED
  BY <1>1, <1>2

(* What the answer to an executed statement gives: the baton of the stream  *)
(* that the statement named, or of a new one that nobody names.             *)
LEMMA GivenIs ==
    ASSUME RemoteInv, NEW m \in Messages, Formed(m), NEW ok \in BOOLEAN, Exec(m, ok),
           Valid(m), ~m.close
    PROVE  /\ Given(m, ok) \in Batons /\ StreamOf(m) \in Streams
           /\ Given(m, ok).stream = StreamOf(m) /\ Given(m, ok).n = After(m, ok).n
           /\ streams'[StreamOf(m)] = After(m, ok)
           /\ After(m, ok).open /\ After(m, ok).tx = InTxAfter(m, ok)
           /\ After(m, ok).pend = IF InTxAfter(m, ok) THEN Was(m).pend \cup Wrote(m, ok) ELSE {}
<1>1. CanExec(m) /\ streams' = IF StreamOf(m) = None THEN streams
                               ELSE [streams EXCEPT ![StreamOf(m)] = After(m, ok)]
  BY DEF Exec
<1>2. StreamOf(m) \in Streams /\ StreamOf(m) # None
  BY <1>1, StreamOfIs, RemoteAssumption DEF Fresh
<1>3. Was(m).n \in {0, 1}
  BY StreamOfIs, <1>1 DEF Was, Closed, Stream, RemoteInv, RemoteTypeOK
<1>4. After(m, ok).n \in {0, 1}
  BY <1>3 DEF After
<1>5. Given(m, ok) = [stream |-> StreamOf(m), n |-> After(m, ok).n]
  BY DEF Given
<1>6. QED
  BY <1>1, <1>2, <1>4, <1>5 DEF After, Batons, RemoteInv, RemoteTypeOK

(* The message of a process, by what its session is at.                     *)
LEMMA MessageIs ==
    ASSUME RemoteInv, NEW p \in Procs, sess[p].at # "none"
    PROVE  /\ Message(p) \in Messages /\ Formed(Message(p)) /\ Agrees(Message(p))
           /\ Message(p).by = p /\ Message(p).at = sess[p].at
           /\ Message(p).baton = sess[p].baton
<1>1. /\ sess[p].at \in Stmts /\ sess[p].baton \in Batons \cup {NoBaton}
  BY DEF RemoteInv, RemoteTypeOK, Sessions
<1>2. Message(p).close \in BOOLEAN
  BY KindIs DEF Message
<1>3. QED
  BY <1>1, <1>2 DEF Message, Messages, RemoteInv, ProcessInv

(* A step of one process, and what it may leave of the rest.                *)
LEMMA SessionStep ==
    ASSUME RemoteInv, NEW p \in Procs, NEW r \in Sessions, sess' = [sess EXCEPT ![p] = r],
           streams' \in [Streams -> Stream], lock' \in Streams \cup {None},
           data' \subseteq Rows, data \subseteq data', TransactionsInv', WholeOrNothing',
           calm' \in BOOLEAN,
           \/ late' = late
           \/ /\ late' = late \cup {Message(p)} /\ sess[p].at # "none"
              /\ streams' = streams /\ r.baton = NoBaton,
           \A s \in Streams : Named(s) /\ s # sess[p].baton.stream => streams'[s] = streams[s],
           \/ r.baton = NoBaton
           \/ r.baton.stream = sess[p].baton.stream
           \/ r.baton.stream \in Fresh,
           ProcessInv(p)',
           acked' \in SUBSET Procs, \A u \in acked' : <<"user", u>> \in data'
    PROVE  RemoteInv'
<1>1. sess \in [Procs -> Sessions] /\ sess'[p] = r
  BY DEF RemoteInv, RemoteTypeOK
<1>2. \A q \in Procs : sess[q].baton \in Batons \cup {NoBaton}
  BY DEF RemoteInv, RemoteTypeOK, Sessions
<1>3. \A m \in late : m.baton \in Batons \cup {NoBaton}
  BY DEF RemoteInv, RemoteTypeOK, Messages
<1>4. None \notin Streams /\ NoBaton.stream = None
      /\ \A b \in Batons : b.stream \in Streams
  BY RemoteAssumption DEF NoBaton, Batons
<1>5. RemoteTypeOK'
  <2>1. late' \subseteq Messages
    BY MessageIs DEF RemoteInv, RemoteTypeOK
  <2>2. QED
    BY <1>1, <2>1 DEF RemoteTypeOK
<1>6. ASSUME NEW q \in Procs, q # p
      PROVE  ProcessInv(q)'
  <2>1. sess'[q] = sess[q] /\ Message(q)' = Message(q) /\ Message(q).baton = sess[q].baton
    BY <1>1, <1>6 DEF Message
  <2>2. CASE sess[q].baton = NoBaton
    BY <2>1, <2>2 DEF ProcessInv, SessionInv, CommitsOwn, Agrees, Formed, RemoteInv, InTx
  <2>3. CASE sess[q].baton # NoBaton
    <3>1. sess[q].baton.stream \in Streams /\ Named(sess[q].baton.stream)
      BY <1>2, <1>4, <2>3 DEF Named
    <3>2. sess[q].baton.stream # sess[p].baton.stream
      BY <1>6, <2>3 DEF OneHolder, RemoteInv
    <3>3. streams'[sess[q].baton.stream] = streams[sess[q].baton.stream]
      BY <3>1, <3>2
    <3>4. QED
      BY <2>1, <3>3 DEF ProcessInv, SessionInv, CommitsOwn, Agrees, Formed, Fits, RemoteInv
  <2>4. QED
    BY <2>2, <2>3
<1>7. ASSUME NEW m \in late, sess[p].baton # NoBaton => sess[p].baton.stream # m.baton.stream
      PROVE  Agrees(m)'
  <2>1. CASE m.baton = NoBaton
    BY <2>1 DEF Agrees
  <2>2. CASE m.baton # NoBaton
    <3>1. m.baton.stream \in Streams /\ Named(m.baton.stream)
      BY <1>3, <1>4, <2>2 DEF Named
    <3>2. m.baton.stream # sess[p].baton.stream
      BY <1>7, <1>4, <3>1
    <3>3. streams'[m.baton.stream] = streams[m.baton.stream]
      BY <3>1, <3>2
    <3>4. QED
      BY <3>3 DEF Agrees, Fits, RemoteInv
  <2>3. QED
    BY <2>1, <2>2
<1>8. ASSUME NEW m \in late'
      PROVE  Formed(m) /\ Agrees(m)'
  <2>1. CASE m \in late
    BY <1>7, <2>1 DEF OneHolder, RemoteInv
  <2>2. CASE m \notin late
    <3>1. m = Message(p) /\ streams' = streams /\ Formed(m) /\ Agrees(m)
      BY <1>8, <2>2, MessageIs
    <3>2. QED
      BY <3>1 DEF Agrees
  <2>3. QED
    BY <2>1, <2>2
<1>9. OneHolder'
  <2>1. ASSUME NEW q \in Procs, NEW o \in Procs, sess'[q].baton # NoBaton,
               sess'[q].baton.stream = sess'[o].baton.stream
        PROVE  q = o
    <3>1. q # p => sess'[q] = sess[q]
      BY <1>1
    <3>2. o # p => sess'[o] = sess[o]
      BY <1>1
    <3>3. r.baton.stream \in Fresh => \A x \in Procs : sess[x].baton.stream # r.baton.stream
      BY DEF Fresh, Named
    <3>4. r.baton \in Batons \cup {NoBaton}
      BY DEF Sessions
    <3>5. QED
      BY <1>1, <1>2, <1>4, <2>1, <3>1, <3>2, <3>3, <3>4 DEF OneHolder, RemoteInv
  <2>2. ASSUME NEW m \in late', NEW o \in late', m.baton # NoBaton,
               m.baton.stream = o.baton.stream
        PROVE  m = o
    <3>1. CASE late' = late
      BY <2>2, <3>1 DEF OneHolder, RemoteInv
    <3>2. CASE late' = late \cup {Message(p)} /\ sess[p].at # "none"
      <4>1. Message(p).baton = sess[p].baton
        BY DEF Message
      <4>2. QED
        BY <1>2, <1>3, <1>4, <2>2, <3>2, <4>1 DEF OneHolder, RemoteInv
    <3>3. QED
      BY <3>1, <3>2
  <2>3. ASSUME NEW q \in Procs, NEW m \in late', sess'[q].baton # NoBaton
        PROVE  sess'[q].baton.stream # m.baton.stream
    <3>1. q # p => sess'[q] = sess[q]
      BY <1>1
    <3>2. r.baton.stream \in Fresh => \A o \in late : o.baton.stream # r.baton.stream
      BY DEF Fresh, Named
    <3>3. Message(p).baton = sess[p].baton
      BY DEF Message
    <3>4. CASE m \in late
      BY <1>1, <1>2, <1>3, <1>4, <2>3, <3>1, <3>2, <3>4 DEF OneHolder, RemoteInv, Sessions
    <3>5. CASE m \notin late
      <4>1. m = Message(p) /\ r.baton = NoBaton
        BY <2>3, <3>5
      <4>2. q # p
        BY <1>1, <2>3, <4>1
      <4>3. sess[q].baton.stream # sess[p].baton.stream
        BY <2>3, <3>1, <4>2 DEF OneHolder, RemoteInv
      <4>4. QED
        BY <3>1, <3>3, <4>1, <4>2, <4>3
    <3>6. QED
      BY <3>4, <3>5
  <2>4. QED
    BY <2>1, <2>2, <2>3 DEF OneHolder
<1>10. QED
  <2>1. \A q \in Procs : ProcessInv(q)'
    BY <1>6
  <2>2. AckedIsKept'
    BY DEF AckedIsKept
  <2>3. QED
    BY <1>5, <1>8, <1>9, <2>1, <2>2 DEF RemoteInv, Formed

(* The statement that follows another, or an error, is one of the client's. *)
LEMMA NextIs ==
    ASSUME NEW run, NEW at \in Stmts, NEW found \in BOOLEAN, NEW violates \in BOOLEAN
    PROVE  /\ Follows(run, at, found) \in Stmts \cup {"none"}
           /\ Recovers(at, violates) \in Stmts \cup {"none"}
BY DEF Follows, Recovers, Stmts, Writes, InTx

(* Where the answer, or the lack of one, leaves the session.                *)
LEMMA AfterAnswerIs ==
    ASSUME RemoteInv, NEW p \in Procs, sess[p].at # "none",
           NEW heard \in BOOLEAN, NEW ok \in BOOLEAN, NEW found \in BOOLEAN,
           NEW violates \in BOOLEAN, NEW given \in Batons \cup {NoBaton},
           AfterAnswer(p, heard, ok, found, violates, given)
    PROVE  \E r \in Sessions :
              /\ sess' = [sess EXCEPT ![p] = r] /\ sess'[p] = r
              /\ r.baton = NextBaton(sess[p].at, Message(p).close, heard, ok, given)
              /\ r.at = IF ok THEN Follows(sess[p].run, sess[p].at, found)
                        ELSE Recovers(sess[p].at, violates)
              /\ r.run = IF r.at # "none" THEN sess[p].run
                         ELSE IF sess[p].run = "tx" \/ (ok /\ sess[p].at # "rollback")
                         THEN "ready" ELSE "down"
<1> DEFINE next == IF ok THEN Follows(sess[p].run, sess[p].at, found)
                   ELSE Recovers(sess[p].at, violates)
           b == NextBaton(sess[p].at, Message(p).close, heard, ok, given)
           over == IF sess[p].run = "tx" \/ (ok /\ sess[p].at # "rollback")
                   THEN [Down EXCEPT !.run = "ready"] ELSE Down
           r == IF next = "none" THEN [over EXCEPT !.baton = b]
                ELSE [sess[p] EXCEPT !.at = next, !.baton = b]
<1>1. sess[p] \in Sessions /\ sess[p].at \in Stmts
  BY DEF RemoteInv, RemoteTypeOK, Sessions
<1>2. next \in Stmts \cup {"none"}
  BY <1>1, NextIs
<1>3. b \in Batons \cup {NoBaton}
  BY DEF NextBaton
<1>4. over \in Sessions /\ over.at = "none"
      /\ over.run = IF sess[p].run = "tx" \/ (ok /\ sess[p].at # "rollback")
                    THEN "ready" ELSE "down"
  BY DEF Down, Sessions
<1>5. sess' = [sess EXCEPT ![p] = r]
  BY DEF AfterAnswer
<1> HIDE DEF next, b, over
<1>6. r \in Sessions /\ r.baton = b /\ r.at = next
      /\ (next = "none" => r.run = over.run) /\ (next # "none" => r.run = sess[p].run)
  BY <1>1, <1>2, <1>3, <1>4 DEF Sessions
<1>7. sess'[p] = r
  BY <1>5 DEF RemoteInv, RemoteTypeOK
<1> HIDE DEF r
<1>8. QED
  BY <1>4, <1>5, <1>6, <1>7 DEF next, b

(* What an unheard statement does to the server.                            *)
LEMMA UnheardKeeps ==
    ASSUME RemoteInv, NEW m \in Messages, Formed(m), Agrees(m), Unheard(m)
    PROVE  /\ streams' \in [Streams -> Stream] /\ lock' \in Streams \cup {None}
           /\ data' \subseteq Rows /\ data \subseteq data' /\ TransactionsInv' /\ WholeOrNothing'
           /\ late' = late \/ (late' = late \cup {m} /\ streams' = streams)
           /\ \A s \in Streams : Named(s) /\ s # m.baton.stream => streams'[s] = streams[s]
<1>1. CASE UNCHANGED <<streams, lock, data>> /\ (late' = late \/ late' = late \cup {m})
  BY <1>1 DEF RemoteInv, RemoteTypeOK, TransactionsInv, RowsAreWrittenOnce, WholeOrNothing
<1>2. CASE (\E ok \in BOOLEAN : Exec(m, ok)) /\ UNCHANGED late
  BY <1>2, ExecKeeps
<1>3. QED
  BY <1>1, <1>2 DEF Unheard

(* A session that gives its statement up holds no baton.                    *)
LEMMA GivesUp ==
    ASSUME RemoteInv, NEW p \in Procs, sess[p].at # "none", Unheard(Message(p)),
           NEW r \in Sessions, sess' = [sess EXCEPT ![p] = r], r.baton = NoBaton,
           \/ r.run \in {"down", "ready"} /\ r.at = "none"
           \/ r.run = sess[p].run /\ r.at = "rollback",
           UNCHANGED <<acked, calm>>
    PROVE  RemoteInv'
<1>1. /\ Message(p) \in Messages /\ Formed(Message(p)) /\ Agrees(Message(p))
      /\ Message(p).baton = sess[p].baton
  BY MessageIs
<1>2. /\ streams' \in [Streams -> Stream] /\ lock' \in Streams \cup {None}
      /\ data' \subseteq Rows /\ data \subseteq data' /\ TransactionsInv' /\ WholeOrNothing'
      /\ late' = late \/ (late' = late \cup {Message(p)} /\ streams' = streams)
      /\ \A s \in Streams : Named(s) /\ s # sess[p].baton.stream => streams'[s] = streams[s]
  BY <1>1, UnheardKeeps
<1>3. sess'[p] = r
  BY DEF RemoteInv, RemoteTypeOK
<1>4. ProcessInv(p)'
  <2>1. SessionInv(p)' /\ CommitsOwn(p)'
    BY <1>3 DEF SessionInv, CommitsOwn, RemoteInv, ProcessInv, InTx
  <2>2. r.at # "none" => /\ Message(p)'.at = "rollback" /\ Message(p)'.baton = NoBaton
                          /\ Message(p)'.close
    BY <1>3, KindIs DEF Message
  <2>3. r.at # "none" => Formed(Message(p))' /\ Agrees(Message(p))'
    BY <2>2 DEF Formed, Agrees, InTx
  <2>4. QED
    BY <1>3, <2>1, <2>3 DEF ProcessInv
<1>5. acked' \in SUBSET Procs /\ \A u \in acked' : <<"user", u>> \in data'
  BY <1>2 DEF RemoteInv, RemoteTypeOK, AckedIsKept
<1>6. calm' \in BOOLEAN
  BY DEF RemoteInv, RemoteTypeOK
<1>7. QED
  BY <1>2, <1>3, <1>4, <1>5, <1>6, SessionStep

(* The transport fails: the baton is dropped, the statement may still come. *)
LEMMA TransportFailsKeeps ==
    ASSUME RemoteInv, NEW p \in Procs, TransportFails(p)
    PROVE  RemoteInv'
<1>1. PICK heard \in BOOLEAN, ok \in BOOLEAN, found \in BOOLEAN, violates \in BOOLEAN :
         /\ ~heard /\ ~ok /\ ~found /\ ~violates
         /\ AfterAnswer(p, heard, ok, found, violates, NoBaton)
  BY Zenon DEF TransportFails
<1>2. PICK r \in Sessions :
         /\ sess' = [sess EXCEPT ![p] = r]
         /\ r.baton = NextBaton(sess[p].at, Message(p).close, heard, ok, NoBaton)
         /\ r.at = IF ok THEN Follows(sess[p].run, sess[p].at, found)
                   ELSE Recovers(sess[p].at, violates)
         /\ r.run = IF r.at # "none" THEN sess[p].run
                    ELSE IF sess[p].run = "tx" \/ (ok /\ sess[p].at # "rollback")
                    THEN "ready" ELSE "down"
  BY <1>1, AfterAnswerIs DEF TransportFails
<1>3. r.baton = NoBaton /\ r.at \in {"none", "rollback"}
  BY <1>1, <1>2 DEF NextBaton, Recovers
<1>4. UNCHANGED <<acked, calm>>
  BY DEF TransportFails, AfterAnswer
<1>5. QED
  BY <1>1, <1>2, <1>3, <1>4, GivesUp DEF TransportFails

(* A process is killed: its session is gone, its statement may still come.  *)
LEMMA CrashKeeps ==
    ASSUME RemoteInv, NEW p \in Procs, Crash(p)
    PROVE  RemoteInv'
<1>1. Down \in Sessions /\ Down.baton = NoBaton /\ Down.run = "down" /\ Down.at = "none"
  BY DEF Down, Sessions
<1>2. CASE sess[p].at # "none"
  BY <1>1, <1>2, GivesUp DEF Crash
<1>3. CASE sess[p].at = "none"
  <2>1. sess'[p] = Down
    BY DEF Crash, RemoteInv, RemoteTypeOK
  <2>2. ProcessInv(p)'
    BY <1>1, <2>1 DEF ProcessInv, SessionInv, CommitsOwn, InTx
  <2>3. QED
    BY <1>1, <1>3, <2>2, SessionStep
    DEF Crash, RemoteInv, RemoteTypeOK, AckedIsKept, TransactionsInv, RowsAreWrittenOnce,
        WholeOrNothing
<1>4. QED
  BY <1>2, <1>3

(* A session without a baton owes the server nothing.                       *)
LEMMA NothingOwed ==
    ASSUME NEW p \in Procs, SessionInv(p)', sess'[p].baton = NoBaton
    PROVE  ProcessInv(p)'
<1>1. sess'[p].at \notin InTx \cup {"commit"}
  BY DEF SessionInv
<1>2. /\ Message(p)'.at = sess'[p].at /\ Message(p)'.baton = NoBaton
      /\ Message(p)'.close = (sess'[p].at # "begin")
  BY KindIs DEF Message
<1>3. Formed(Message(p))' /\ Agrees(Message(p))'
  BY <1>1, <1>2 DEF Formed, Agrees, InTx
<1>4. CommitsOwn(p)'
  BY <1>1 DEF CommitsOwn
<1>5. QED
  BY <1>3, <1>4 DEF ProcessInv

(* A statement is executed and its answer heard.                            *)
LEMMA AnsweredKeeps ==
    ASSUME RemoteInv, NEW p \in Procs, Answered(p)
    PROVE  RemoteInv'
<1> DEFINE m == Message(p)
<1>1. PICK ran \in BOOLEAN, heard \in BOOLEAN, ok \in BOOLEAN, found \in BOOLEAN,
           violates \in BOOLEAN :
         /\ Exec(m, ran) /\ heard /\ (ok = ran \/ (sess[p].at = "index" /\ ~ok))
         /\ (violates => sess[p].at = "index")
         /\ AfterAnswer(p, heard, ok, found, violates, Given(m, ran))
  <2>1. PICK ran \in BOOLEAN :
           /\ Exec(m, ran)
           /\ \/ AfterAnswer(p, TRUE, ran, Found(m), FALSE, Given(m, ran))
              \/ sess[p].at = "index" /\ AfterAnswer(p, TRUE, FALSE, FALSE, TRUE, Given(m, ran))
    BY DEF Answered
  <2>2. Found(m) \in BOOLEAN
    BY DEF Found
  <2>3. QED
    BY <2>1, <2>2, Zenon
<1>2. sess[p].at # "none" /\ UNCHANGED <<late, calm>>
  BY DEF Answered
<1>3. /\ m \in Messages /\ Formed(m) /\ Agrees(m) /\ m.by = p
      /\ m.at = sess[p].at /\ m.baton = sess[p].baton
  BY <1>2, MessageIs
<1>4. PICK given \in Batons \cup {NoBaton} : given = Given(m, ran)
  BY <1>1, <1>3, GivenIs DEF Given
<1>5. PICK r \in Sessions :
         /\ sess' = [sess EXCEPT ![p] = r] /\ sess'[p] = r
         /\ r.baton = NextBaton(sess[p].at, m.close, heard, ok, given)
         /\ r.at = IF ok THEN Follows(sess[p].run, sess[p].at, found)
                   ELSE Recovers(sess[p].at, violates)
         /\ r.run = IF r.at # "none" THEN sess[p].run
                    ELSE IF sess[p].run = "tx" \/ (ok /\ sess[p].at # "rollback")
                    THEN "ready" ELSE "down"
  <2>1. AfterAnswer(p, heard, ok, found, violates, given)
    BY <1>1, <1>4
  <2>2. QED
    BY <1>2, <2>1, AfterAnswerIs
<1>6. /\ streams' \in [Streams -> Stream] /\ lock' \in Streams \cup {None}
      /\ data' \subseteq Rows /\ data \subseteq data' /\ TransactionsInv' /\ WholeOrNothing'
      /\ \A s \in Streams : Named(s) /\ s # sess[p].baton.stream => streams'[s] = streams[s]
      /\ ran /\ m.at = "commit" =>
            streams[m.baton.stream].open /\ streams[m.baton.stream].pend \subseteq data'
  BY <1>1, <1>3, ExecKeeps
<1>7. SessionInv(p) /\ CommitsOwn(p)
  BY DEF RemoteInv, ProcessInv
<1>8. /\ ProcessInv(p)'
      /\ \/ r.baton = NoBaton
         \/ r.baton.stream = sess[p].baton.stream
         \/ r.baton.stream \in Fresh
  <2>1. CASE sess[p].at \in {"create", "info", "alter", "index", "probe"}
    <3>1. m.close /\ sess[p].run = "opening"
      BY <1>3, <1>7, <2>1, <1>2 DEF Formed, SessionInv, InTx, RemoteInv, RemoteTypeOK, Sessions
    <3>2. r.baton = NoBaton
      BY <1>5, <3>1 DEF NextBaton
    <3>3. r.at \in {"create", "info", "alter", "index", "probe", "begin", "none"}
      BY <1>5, <2>1 DEF Follows, Recovers, InTx
    <3>4. SessionInv(p)'
      BY <1>5, <3>1, <3>2, <3>3 DEF SessionInv, InTx
    <3>5. QED
      BY <1>5, <3>2, <3>4, NothingOwed
  <2>2. CASE sess[p].at = "begin"
    <3>1. sess[p].run \in {"opening", "tx"} /\ (sess[p].run = "tx" => p \in Users)
      BY <1>7, <2>2 DEF SessionInv, RemoteInv, RemoteTypeOK, Sessions
    <3>2. m.baton = NoBaton /\ ~m.close /\ Valid(m) /\ ok = ran
      BY <1>1, <1>3, <2>2 DEF Formed, Valid, InTx
    <3>3. CASE ~ok
      <4>1. r.baton = NoBaton /\ r.at = "none"
        BY <1>5, <2>2, <3>3 DEF NextBaton, Recovers, InTx
      <4>2. SessionInv(p)'
        BY <1>5, <4>1 DEF SessionInv, InTx
      <4>3. QED
        BY <1>5, <4>1, <4>2, NothingOwed
    <3>4. CASE ok
      <4>1. r.baton = Given(m, ok) /\ r.at = (IF sess[p].run = "tx" THEN "user" ELSE "venue")
            /\ r.run = sess[p].run
        BY <1>1, <1>4, <1>5, <2>2, <3>2, <3>4, KindIs DEF NextBaton, Follows
      <4>2. StreamOf(m) \in Fresh
        BY <1>1, <1>3, <3>2, StreamOfIs DEF Exec
      <4>3. InTxAfter(m, ok) /\ Was(m).pend = {} /\ Wrote(m, ok) = {}
        BY <1>3, <2>2, <3>2, <3>4, RowsOfIs DEF InTxAfter, Was, Closed, Wrote, Writes, InTx
      <4>4. /\ r.baton \in Batons /\ r.baton.stream = StreamOf(m) /\ StreamOf(m) \in Streams
            /\ streams'[r.baton.stream].n = r.baton.n
            /\ streams'[r.baton.stream].tx /\ streams'[r.baton.stream].pend = {}
        BY <1>1, <1>3, <3>2, <4>1, <4>3, GivenIs
      <4>5. r.baton # NoBaton
        BY <4>4, RemoteAssumption DEF NoBaton
      <4>6. SessionInv(p)' /\ CommitsOwn(p)'
        BY <1>5, <3>1, <4>1, <4>5 DEF SessionInv, CommitsOwn, InTx
      <4>7. /\ Message(p)'.at = r.at /\ Message(p)'.baton = r.baton
            /\ Message(p)'.by = p /\ Message(p)'.close = FALSE
        BY <1>5, <4>1, <4>5, KindIs DEF Message
      <4>8. Formed(Message(p))'
        BY <3>1, <4>1, <4>5, <4>7 DEF Formed, InTx
      <4>9. Agrees(Message(p))'
        BY <4>1, <4>4, <4>7 DEF Agrees, Fits
      <4>10. QED
        BY <4>2, <4>4, <4>6, <4>8, <4>9 DEF ProcessInv
    <3>5. QED
      BY <3>3, <3>4
  <2>3. CASE sess[p].at \in InTx
    <3>1. sess[p].run \in {"opening",
    "tx"} /\ (sess[p].run = "tx" <=> sess[p].at \in {"user", "auth"})
          /\ (sess[p].run = "tx" => p \in Users)
      BY <1>7, <2>3 DEF SessionInv, RemoteInv, RemoteTypeOK, Sessions, InTx
    <3>2. m.baton # NoBaton /\ ~m.close /\ ok = ran /\ ~violates /\ sess[p].baton # NoBaton
      BY <1>1, <1>3, <2>3 DEF Formed, InTx
    <3>3. r.at = (IF ok THEN CASE sess[p].at = "venue" -> "menu" [] sess[p].at = "user" -> "auth"
                              [] sess[p].at \in {"menu", "auth"} -> "commit"
                  ELSE "rollback")
      BY <1>5, <2>3, <3>2 DEF Follows, Recovers, InTx
    <3>4. r.run = sess[p].run
      BY <1>5, <2>3, <3>3 DEF InTx
    <3>5. r.baton = Given(m, ok)
      BY <1>1, <1>4, <1>5, <2>3, <3>2, KindIs DEF NextBaton, InTx
    <3>6. CASE ~Valid(m)
      <4>1. ~ok /\ r.baton = NoBaton /\ r.at = "rollback"
        BY <1>1, <3>2, <3>3, <3>5, <3>6 DEF Exec, Accepts, Given
      <4>2. SessionInv(p)'
        BY <1>5, <3>1, <3>4, <4>1 DEF SessionInv, InTx
      <4>3. QED
        BY <1>5, <4>1, <4>2, NothingOwed
    <3>7. CASE Valid(m)
      <4>1. /\ Was(m) = streams[m.baton.stream] /\ Was(m).open /\ Was(m).tx
            /\ Fits(m, Was(m).pend) /\ InTxAfter(m, ok)
        BY <1>3, <2>3, <3>2, <3>7, KindIs DEF Valid, Was, Agrees, InTxAfter, InTx
      <4>2. StreamOf(m) = m.baton.stream
        BY <3>2 DEF StreamOf
      <4>3. /\ r.baton \in Batons /\ r.baton.stream = sess[p].baton.stream
            /\ sess[p].baton.stream \in Streams
            /\ streams'[r.baton.stream].open /\ streams'[r.baton.stream].n = r.baton.n
            /\ streams'[r.baton.stream].tx
            /\ streams'[r.baton.stream].pend = Was(m).pend \cup Wrote(m, ok)
        <5>1. Exec(m, ok)
          BY <1>1, <3>2
        <5>2. /\ Given(m, ok) \in Batons /\ StreamOf(m) \in Streams
              /\ Given(m, ok).stream = StreamOf(m) /\ Given(m, ok).n = After(m, ok).n
              /\ streams'[StreamOf(m)] = After(m, ok)
              /\ After(m, ok).open /\ After(m, ok).tx
              /\ After(m, ok).pend = Was(m).pend \cup Wrote(m, ok)
          BY <1>3, <3>2, <3>7, <4>1, <5>1, GivenIs
        <5>3. QED
          BY <1>3, <3>5, <4>2, <5>2
      <4>4. r.baton # NoBaton
        BY <4>3, RemoteAssumption DEF NoBaton
      <4>5. /\ Message(p)'.at = r.at /\ Message(p)'.baton = r.baton /\ Message(p)'.by = p
            /\ Message(p)'.close = (r.at \in {"commit", "rollback"})
        <5>1. r.at \in {"menu", "auth", "commit", "rollback"}
          BY <2>3, <3>3 DEF InTx
        <5>2. Kind(r.at) # "Begin" /\ (Kind(r.at) = "End" <=> r.at \in {"commit", "rollback"})
          BY <5>1, KindIs
        <5>3. CASE Kind(r.at) = "End"
          BY <1>5, <5>2, <5>3 DEF Message
        <5>4. CASE Kind(r.at) # "End"
          <6>1. (r.baton = NoBaton) = FALSE
            BY <4>4
          <6>2. Message(p)'.close = FALSE
            BY <1>5, <6>1, <5>2, <5>4 DEF Message
          <6>3. (r.at \in {"commit", "rollback"}) = FALSE
            BY <5>2, <5>4
          <6>4. /\ Message(p)'.at = r.at /\ Message(p)'.baton = r.baton /\ Message(p)'.by = p
            BY <1>5 DEF Message
          <6>5. QED
            BY <6>2, <6>3, <6>4
        <5>5. QED
          BY <5>3, <5>4
      <4>6. SessionInv(p)'
        BY <1>5, <2>3, <3>1, <3>3, <3>4, <4>4 DEF SessionInv, InTx
      <4>7. ok => Wrote(m, ok) = IF sess[p].at \in {"user", "auth"} THEN {<<sess[p].at, p>>}
                                 ELSE {<<sess[p].at, None>>}
        BY <1>3, <2>3, RowsOfIs DEF Wrote, InTx
      <4>8. CASE ok
        <5>1. CASE sess[p].at = "venue"
          <6>1. r.at = "menu" /\ Was(m).pend = {} /\ Wrote(m, ok) = {<<"venue", None>>}
            BY <1>3, <3>3, <4>1, <4>7, <4>8, <5>1 DEF Fits
          <6>2. QED
            BY <1>5, <4>3, <4>4, <4>5, <4>6, <6>1
            DEF ProcessInv, CommitsOwn, Formed, Agrees, Fits, InTx
        <5>2. CASE sess[p].at = "user"
          <6>1. r.at = "auth" /\ Was(m).pend = {} /\ Wrote(m, ok) = {<<"user", p>>}
            BY <1>3, <3>3, <4>1, <4>7, <4>8, <5>2 DEF Fits
          <6>2. QED
            BY <1>5, <3>1, <5>2, <4>3, <4>4, <4>5, <4>6, <6>1
            DEF ProcessInv, CommitsOwn, Formed, Agrees, Fits, InTx
        <5>3. CASE sess[p].at = "menu"
          <6>1. r.at = "commit" /\ Was(m).pend \cup Wrote(m, ok) = SeedRows
            BY <1>3, <3>3, <4>1, <4>7, <4>8, <5>3 DEF Fits, SeedRows
          <6>2. QED
            BY <1>5, <3>1, <3>4, <5>3, <4>3, <4>4, <4>5, <4>6, <6>1
            DEF ProcessInv, CommitsOwn, Formed, Agrees, Fits, InTx
        <5>4. CASE sess[p].at = "auth"
          <6>1. r.at = "commit" /\ Was(m).pend \cup Wrote(m, ok) = AccountRows(p)
            BY <1>3, <3>3, <4>1, <4>7, <4>8, <5>4 DEF Fits, AccountRows
          <6>2. QED
            BY <1>5, <3>1, <3>4, <5>4, <4>3, <4>4, <4>5, <4>6, <6>1
            DEF ProcessInv, CommitsOwn, Formed, Agrees, Fits, InTx
        <5>5. QED
          BY <2>3, <4>3, <5>1, <5>2, <5>3, <5>4 DEF InTx
      <4>9. CASE ~ok
        <5>1. r.at = "rollback"
          BY <3>3, <4>9
        <5>2. QED
          BY <1>5, <4>3, <4>4, <4>5, <4>6, <5>1
          DEF ProcessInv, CommitsOwn, Formed, Agrees, Fits, InTx
      <4>10. QED
        BY <4>8, <4>9
    <3>8. QED
      BY <3>6, <3>7
  <2>4. CASE sess[p].at \in {"commit", "rollback"}
    <3>1. r.baton = NoBaton
      BY <1>5, <2>4, KindIs DEF NextBaton
    <3>2. r.at \in {"none", "rollback"}
      BY <1>5, <2>4 DEF Follows, Recovers, InTx
    <3>3. sess[p].run \in {"opening", "tx"}
      BY <1>7, <2>4 DEF SessionInv, RemoteInv, RemoteTypeOK, Sessions
    <3>4. SessionInv(p)'
      BY <1>5, <1>7, <3>1, <3>2, <3>3 DEF SessionInv, InTx
    <3>5. QED
      BY <1>5, <3>1, <3>4, NothingOwed
  <2>5. QED
    BY <1>2, <2>1, <2>2, <2>3, <2>4 DEF RemoteInv, RemoteTypeOK, Sessions, Stmts, Writes, InTx
<1>9. acked' \in SUBSET Procs /\ \A u \in acked' : <<"user", u>> \in data'
  <2>1. acked' = IF sess[p].run = "tx" /\ sess[p].at = "commit" /\ ok THEN acked \cup {p} ELSE acked
    BY <1>1 DEF AfterAnswer
  <2>2. sess[p].run = "tx" /\ sess[p].at = "commit" /\ ok => <<"user", p>> \in data'
    BY <1>1, <1>3, <1>6, <1>7 DEF CommitsOwn, AccountRows
  <2>3. QED
    BY <1>6, <2>1, <2>2 DEF RemoteInv, RemoteTypeOK, AckedIsKept
<1>10. calm' \in BOOLEAN
  BY <1>2 DEF RemoteInv, RemoteTypeOK
<1> HIDE DEF m
<1>11. QED
  BY <1>2, <1>5, <1>6, <1>8, <1>9, <1>10, SessionStep

(* A process opens its session, or begins a transaction.                    *)
LEMMA StartKeeps ==
    ASSUME RemoteInv, NEW p \in Procs, Start(p) \/ Transact(p)
    PROVE  RemoteInv'
<1>1. PICK r \in Sessions :
         /\ sess' = [sess EXCEPT ![p] = r] /\ sess'[p] = r /\ r.baton = NoBaton
         /\ \/ r.run = "opening" /\ r.at = "create"
            \/ r.run = "tx" /\ r.at = "begin" /\ p \in Users
  <2>1. sess \in [Procs -> Sessions] /\ sess[p] \in Sessions
    BY DEF RemoteInv, RemoteTypeOK
  <2>2. CASE Start(p)
    <3> DEFINE r == [sess[p] EXCEPT !.run = "opening", !.at = "create"]
    <3>1. r \in Sessions /\ r.baton = NoBaton /\ r.run = "opening" /\ r.at = "create"
      BY <2>1, <2>2 DEF Start, Down, Sessions, Stmts, Writes
    <3>2. sess' = [sess EXCEPT ![p] = r]
      BY <2>1, <2>2 DEF Start
    <3>3. QED
      BY <2>1, <3>1, <3>2
  <2>3. CASE Transact(p)
    <3> DEFINE r == [sess[p] EXCEPT !.run = "tx", !.at = "begin"]
    <3>1. sess[p].baton = NoBaton /\ p \in Users
      BY <2>3 DEF Transact, RemoteInv, ProcessInv, SessionInv, InTx
    <3>2. r \in Sessions /\ r.baton = NoBaton /\ r.run = "tx" /\ r.at = "begin"
      BY <2>1, <3>1 DEF Sessions, Stmts
    <3>3. sess' = [sess EXCEPT ![p] = r]
      BY <2>1, <2>3 DEF Transact
    <3>4. QED
      BY <2>1, <3>1, <3>2, <3>3
  <2>4. QED
    BY <2>2, <2>3
<1>2. UNCHANGED <<late, streams, lock, data, acked, calm>>
  BY DEF Start, Transact
<1>3. SessionInv(p)'
  BY <1>1 DEF SessionInv, InTx
<1>4. ProcessInv(p)'
  BY <1>1, <1>3, NothingOwed
<1>5. QED
  BY <1>1, <1>2, <1>4, SessionStep
  DEF RemoteInv, RemoteTypeOK, AckedIsKept, TransactionsInv, RowsAreWrittenOnce, WholeOrNothing

(* The sessions and messages that name other streams than s, after a step   *)
(* that changes no other and sends nothing.                                 *)
LEMMA ServerStep ==
    ASSUME RemoteInv, NEW s, UNCHANGED <<sess, acked>>, late' \subseteq late,
           \A m \in late' : m.baton # NoBaton => m.baton.stream # s \/ ~streams'[s].open,
           \A p \in Procs : sess[p].baton # NoBaton => sess[p].baton.stream # s \/ ~streams'[s].open,
           streams' \in [Streams -> Stream], lock' \in Streams \cup {None},
           data' \subseteq Rows, data \subseteq data', TransactionsInv', WholeOrNothing',
           calm' \in BOOLEAN,
           \A x \in Streams : Named(x) /\ x # s => streams'[x] = streams[x]
    PROVE  RemoteInv'
<1>1. \A b \in Batons : b.stream \in Streams
  BY DEF Batons
<1>2. \A p \in Procs : sess[p].baton \in Batons \cup {NoBaton}
  BY DEF RemoteInv, RemoteTypeOK, Sessions
<1>3. \A m \in late : m.baton \in Batons \cup {NoBaton}
  BY DEF RemoteInv, RemoteTypeOK, Messages
<1>4. ASSUME NEW p \in Procs
      PROVE  ProcessInv(p)'
  <2>1. sess'[p] = sess[p] /\ Message(p)' = Message(p) /\ Message(p).baton = sess[p].baton
    BY DEF Message
  <2>2. CASE sess[p].baton = NoBaton
    BY <2>1, <2>2 DEF ProcessInv, SessionInv, CommitsOwn, Agrees, Formed, RemoteInv, InTx
  <2>3. CASE sess[p].baton # NoBaton /\ ~streams'[sess[p].baton.stream].open
    BY <2>1, <2>3 DEF ProcessInv, SessionInv, CommitsOwn, Agrees, Formed, RemoteInv
  <2>4. CASE sess[p].baton # NoBaton /\ sess[p].baton.stream # s
    <3>1. streams'[sess[p].baton.stream] = streams[sess[p].baton.stream]
      BY <1>1, <1>2, <2>4 DEF Named
    <3>2. QED
      BY <2>1, <3>1 DEF ProcessInv, SessionInv, CommitsOwn, Agrees, Formed, Fits, RemoteInv
  <2>5. QED
    BY <2>2, <2>3, <2>4
<1>5. ASSUME NEW m \in late'
      PROVE  Formed(m) /\ Agrees(m)'
  <2>1. m \in late
    BY <1>5
  <2>2. CASE m.baton = NoBaton \/ ~streams'[m.baton.stream].open
    BY <2>1, <2>2 DEF Agrees, RemoteInv
  <2>3. CASE m.baton # NoBaton /\ m.baton.stream # s
    <3>1. streams'[m.baton.stream] = streams[m.baton.stream]
      BY <1>1, <1>3, <2>1, <2>3 DEF Named
    <3>2. QED
      BY <2>1, <3>1 DEF Agrees, RemoteInv
  <2>4. QED
    BY <1>5, <2>2, <2>3
<1>6. OneHolder'
  BY DEF OneHolder, RemoteInv
<1>7. RemoteTypeOK'
  BY DEF RemoteInv, RemoteTypeOK
<1>8. AckedIsKept'
  BY DEF AckedIsKept, RemoteInv
<1>9. QED
  BY <1>4, <1>5, <1>6, <1>7, <1>8 DEF RemoteInv, Formed

(* A statement that was given up on is executed.                            *)
LEMMA ExecutedLateKeeps ==
    ASSUME RemoteInv, NEW m \in late, ExecutedLate(m)
    PROVE  RemoteInv'
<1>1. m \in Messages /\ Formed(m) /\ Agrees(m)
  BY DEF RemoteInv, RemoteTypeOK
<1>2. PICK ok \in BOOLEAN : Exec(m, ok)
  BY DEF ExecutedLate
<1>3. /\ streams' \in [Streams -> Stream] /\ lock' \in Streams \cup {None}
      /\ data' \subseteq Rows /\ data \subseteq data' /\ TransactionsInv' /\ WholeOrNothing'
      /\ \A s \in Streams : Named(s) /\ s # m.baton.stream => streams'[s] = streams[s]
  BY <1>1, <1>2, ExecKeeps
<1>4. UNCHANGED <<sess, acked, calm>> /\ late' = late \ {m}
  BY DEF ExecutedLate
<1>5. \A o \in late' : o.baton # NoBaton => o.baton.stream # m.baton.stream
  BY <1>4 DEF OneHolder, RemoteInv
<1>6. \A p \in Procs : sess[p].baton # NoBaton => sess[p].baton.stream # m.baton.stream
  BY DEF OneHolder, RemoteInv
<1>7. calm' \in BOOLEAN
  BY <1>4 DEF RemoteInv, RemoteTypeOK
<1> DEFINE s == m.baton.stream
<1>8. QED
  BY <1>3, <1>4, <1>5, <1>6, <1>7, ServerStep

(* The server rolls an idle stream back.                                    *)
LEMMA ExpireKeeps ==
    ASSUME RemoteInv, NEW s \in Streams, Expire(s)
    PROVE  RemoteInv'
<1>1. Closed \in Stream /\ ~Closed.tx /\ Closed.pend = {} /\ ~Closed.open
  BY DEF Closed, Stream
<1>2. /\ streams' = [streams EXCEPT ![s] = Closed] /\ streams \in [Streams -> Stream]
      /\ lock' = (IF lock = s THEN None ELSE lock) /\ lock \in Streams \cup {None}
      /\ UNCHANGED <<sess, late, data, acked, calm>>
  BY DEF Expire, RemoteInv, RemoteTypeOK
<1>3. streams' \in [Streams -> Stream] /\ ~streams'[s].open /\ lock' \in Streams \cup {None}
  BY <1>1, <1>2
<1>4. TransactionsInv'
  BY <1>1, <1>2 DEF TransactionsInv, RowsAreWrittenOnce, RemoteInv
<1>5. WholeOrNothing'
  BY <1>2 DEF WholeOrNothing, RemoteInv
<1>6. data' \subseteq Rows /\ data \subseteq data' /\ calm' \in BOOLEAN
  BY <1>2 DEF RemoteInv, RemoteTypeOK
<1>7. \A x \in Streams : x # s => streams'[x] = streams[x]
  BY <1>2
<1>8. QED
  BY <1>2, <1>3, <1>4, <1>5, <1>6, <1>7, ServerStep

(* All processes are down, and nothing is under way.                        *)
LEMMA RemoteInvInit == RemoteInit => RemoteInv
<1> SUFFICES ASSUME RemoteInit PROVE RemoteInv
  OBVIOUS
<1>1. RemoteTypeOK
  <2>1. Down \in Sessions
    BY DEF Down, Sessions
  <2>2. Closed \in Stream
    BY DEF Closed, Stream
  <2>3. data \subseteq Rows
    <3>1. <<"create", None>> \in (Writes \ {"user", "auth"}) \X {None}
      BY DEF Writes
    <3>2. QED
      BY <3>1 DEF RemoteInit, Rows
  <2>4. QED
    BY <2>1, <2>2, <2>3 DEF RemoteInit, RemoteTypeOK
<1>2. WholeOrNothing /\ AckedIsKept
  BY DEF RemoteInit, WholeOrNothing, AckedIsKept
<1>3. TransactionsInv
  BY DEF RemoteInit, TransactionsInv, RowsAreWrittenOnce, Closed
<1>4. OneHolder
  BY DEF RemoteInit, OneHolder, Down
<1>5. \A p \in Procs : ProcessInv(p)
  BY DEF RemoteInit, ProcessInv, SessionInv, CommitsOwn, Down, InTx
<1>6. QED
  BY <1>1, <1>2, <1>3, <1>4, <1>5 DEF RemoteInv, RemoteInit

(* Every step of processes, network and server keeps the invariant.         *)
LEMMA RemoteInvNext == RemoteInv /\ [RemoteNext]_remoteVars => RemoteInv'
<1> SUFFICES ASSUME RemoteInv, [RemoteNext]_remoteVars PROVE RemoteInv'
  OBVIOUS
<1>1. ASSUME NEW p \in Procs, Start(p) \/ Transact(p) PROVE RemoteInv'
  BY <1>1, StartKeeps
<1>2. ASSUME NEW p \in Procs, Answered(p) PROVE RemoteInv'
  BY <1>2, AnsweredKeeps
<1>3. ASSUME NEW p \in Procs, TransportFails(p) PROVE RemoteInv'
  BY <1>3, TransportFailsKeeps
<1>4. ASSUME NEW p \in Procs, Crash(p) PROVE RemoteInv'
  BY <1>4, CrashKeeps
<1>5. ASSUME NEW m \in late, ExecutedLate(m) PROVE RemoteInv'
  BY <1>5, ExecutedLateKeeps
<1>6. ASSUME NEW s \in Streams, Expire(s) PROVE RemoteInv'
  BY <1>6, ExpireKeeps
<1>7. ASSUME UNCHANGED <<sess, late, streams, lock, data, acked>>, calm' \in BOOLEAN
      PROVE  RemoteInv'
  <2>1. ASSUME NEW p \in Procs PROVE ProcessInv(p)'
    <3>1. Message(p)' = Message(p)
      BY <1>7 DEF Message
    <3>2. QED
      BY <1>7, <3>1 DEF RemoteInv, ProcessInv, SessionInv, CommitsOwn, Agrees, Formed
  <2>2. \A m \in late' : Formed(m) /\ Agrees(m)'
    BY <1>7 DEF RemoteInv, Agrees
  <2>3. QED
    BY <1>7, <2>1, <2>2
    DEF RemoteInv, RemoteTypeOK, WholeOrNothing, AckedIsKept, TransactionsInv,
        RowsAreWrittenOnce, OneHolder, Formed
<1>8. CASE Calm
  BY <1>7, <1>8 DEF Calm
<1>9. CASE UNCHANGED remoteVars
  BY <1>7, <1>9 DEF remoteVars, RemoteInv, RemoteTypeOK
<1>10. QED
  BY <1>1, <1>2, <1>3, <1>4, <1>5, <1>6, <1>8, <1>9 DEF RemoteNext

(* So it holds throughout.                                                  *)
LEMMA RemoteInvariance == RemoteSpec => []RemoteInv
BY RemoteInvInit, RemoteInvNext, PTL DEF RemoteSpec

(* The sessions, the messages under way and the server keep their types:    *)
(* no statement is ever made up, or sent for an account nobody creates.     *)
THEOREM RemoteTypeCorrect == RemoteSpec => []RemoteTypeOK
<1>1. RemoteInv => RemoteTypeOK
  BY DEF RemoteInv
<1>2. QED
  BY <1>1, RemoteInvariance, PTL

(* The seed and every account are committed as a whole or not at all        *)
(* (Pool::transaction and seed_if_empty over Session::execute), for any     *)
(* number of processes and of streams, whatever is lost or comes late.      *)
THEOREM TransactionsAreWhole == RemoteSpec => []WholeOrNothing
<1>1. RemoteInv => WholeOrNothing
  BY DEF RemoteInv
<1>2. QED
  BY <1>1, RemoteInvariance, PTL

(* An account whose COMMIT was acknowledged to create_account is there.     *)
THEOREM AcknowledgedAccountsAreKept == RemoteSpec => []AckedIsKept
<1>1. RemoteInv => AckedIsKept
  BY DEF RemoteInv
<1>2. QED
  BY <1>1, RemoteInvariance, PTL

(* next_baton: outside of a transaction a session holds no baton.           *)
THEOREM SessionsStayClean == RemoteSpec => []SessionsRestClean
<1>1. RemoteInv => SessionsRestClean
  BY DEF RemoteInv, ProcessInv, SessionInv, SessionsRestClean, InTx
<1>2. QED
  BY <1>1, RemoteInvariance, PTL

(* However many processes start at once, what a transaction inserts is not  *)
(* there yet: the seed's rows are not inserted twice (seed_if_empty).       *)
THEOREM RowsStayUnique == RemoteSpec => []RowsAreWrittenOnce
<1>1. RemoteInv => RowsAreWrittenOnce
  BY DEF RemoteInv, TransactionsInv
<1>2. QED
  BY <1>1, RemoteInvariance, PTL
------------------------------------------------------------------------------
(* A statement that is executed changes the data by a table, by a column or *)
(* by a whole transaction, and that only as its COMMIT.                     *)
LEMMA ExecIsAtomic ==
    ASSUME RemoteInv, NEW m \in Messages, Formed(m), Agrees(m), NEW ok \in BOOLEAN, Exec(m, ok)
    PROVE  \/ data' = data
           \/ /\ <<"create", None>> \notin data
              /\ data' = data \cup {<<"create", None>>, <<"alter", None>>}
           \/ <<"alter", None>> \notin data /\ data' = data \cup {<<"alter", None>>}
           \/ /\ ok /\ m.at = "commit"
              /\ streams[m.baton.stream].open
              /\ data' = data \cup streams[m.baton.stream].pend
              /\ streams[m.baton.stream].pend \cap data = {}
              /\ \/ streams[m.baton.stream].pend = SeedRows
                 \/ \E u \in Users : streams[m.baton.stream].pend = AccountRows(u)
<1>1. CASE ~Valid(m)
  BY <1>1 DEF Exec
<1>2. CASE Valid(m)
  <2>1. /\ data' = data \cup (IF ok /\ m.at = "commit" THEN Was(m).pend
                              ELSE IF InTxAfter(m, ok) THEN {} ELSE Wrote(m, ok))
        /\ CanExec(m) /\ ok = Accepts(m)
    BY <1>2 DEF Exec
  <2>2. CASE ok /\ m.at = "commit"
    <3>1. m.baton # NoBaton /\ Was(m) = streams[m.baton.stream] /\ Was(m).open
          /\ m.baton.stream \in Streams
      BY <1>2, <2>1, <2>2, StreamOfIs DEF Formed, Valid, Was, InTx
    <3>2. Was(m).pend = SeedRows \/ \E u \in Users : Was(m).pend = AccountRows(u)
      BY <2>2, <3>1 DEF Agrees, Fits
    <3>3. Was(m).pend \cap data = {}
      BY <3>1 DEF RemoteInv, TransactionsInv, RowsAreWrittenOnce
    <3>4. QED
      BY <2>1, <2>2, <3>1, <3>2, <3>3
  <2>3. CASE ~(ok /\ m.at = "commit") /\ (InTxAfter(m, ok) \/ Wrote(m, ok) = {})
    BY <2>1, <2>3
  <2>4. CASE ~InTxAfter(m, ok) /\ Wrote(m, ok) # {}
    <3>1. ok /\ m.at \in Writes /\ m.at # "commit" /\ Wrote(m, ok) = RowsOf(m)
      BY <2>4, RowsOfIs DEF Wrote, Writes, InTx
    <3>2. m.at \notin InTx
      BY <1>2, <2>4, <3>1 DEF Formed, Agrees, Valid, Was, InTxAfter, Kind, InTx
    <3>3. CASE m.at = "create"
      BY <2>1, <2>4, <3>1, <3>3 DEF RowsOf
    <3>4. CASE m.at = "alter"
      <4>1. RowsOf(m) = {<<"alter", None>>} /\ RowsOf(m) \cap data = {}
        BY <2>1, <3>1, <3>4 DEF RowsOf, Accepts, Unique
      <4>2. QED
        BY <2>1, <2>4, <3>1, <4>1
    <3>5. QED
      BY <3>1, <3>2, <3>3, <3>4 DEF Writes
  <2>5. QED
    BY <2>2, <2>3, <2>4
<1>3. QED
  BY <1>1, <1>2

(* Without an acknowledgement it is a step of AtomicData, or none.          *)
LEMMA UnackedIsAtomic ==
    ASSUME RemoteInv, NEW m \in Messages, Formed(m), Agrees(m), NEW ok \in BOOLEAN, Exec(m, ok),
           UNCHANGED acked
    PROVE  [Atomic!Next]_<<data, acked>>
<1>1. CASE data' = data
  BY <1>1
<1>2. CASE /\ <<"create", None>> \notin data
           /\ data' = data \cup {<<"create", None>>, <<"alter", None>>}
  BY <1>2 DEF Atomic!Next, Atomic!Create
<1>3. CASE <<"alter", None>> \notin data /\ data' = data \cup {<<"alter", None>>}
  BY <1>3 DEF Atomic!Next, Atomic!Widen
<1>4. CASE SeedRows \cap data = {} /\ data' = data \cup SeedRows
  BY <1>4 DEF Atomic!Next, Atomic!Seed, Atomic!SeedRows, SeedRows
<1>5. ASSUME NEW u \in Users, AccountRows(u) \cap data = {}, data' = data \cup AccountRows(u)
      PROVE  [Atomic!Next]_<<data, acked>>
  BY <1>5 DEF Atomic!Next, Atomic!CreateAccount, Atomic!AccountRows, AccountRows
<1>6. QED
  BY <1>1, <1>2, <1>3, <1>4, <1>5, ExecIsAtomic

(* A statement whose answer is lost acknowledges nothing.                   *)
LEMMA UnheardIsAtomic ==
    ASSUME RemoteInv, NEW m \in Messages, Formed(m), Agrees(m), Unheard(m), UNCHANGED acked
    PROVE  [Atomic!Next]_<<data, acked>>
<1>1. CASE \E ok \in BOOLEAN : Exec(m, ok)
  BY <1>1, UnackedIsAtomic
<1>2. CASE UNCHANGED data
  BY <1>2
<1>3. QED
  BY <1>1, <1>2 DEF Unheard

(* A statement whose answer is heard acknowledges at most its own account.  *)
LEMMA AnsweredIsAtomic ==
    ASSUME RemoteInv, NEW p \in Procs, Answered(p)
    PROVE  [Atomic!Next]_<<data, acked>>
<1> DEFINE m == Message(p)
<1>1. PICK ok \in BOOLEAN, good \in BOOLEAN :
         /\ Exec(m, ok) /\ (good => ok)
         /\ acked' = IF sess[p].run = "tx" /\ sess[p].at = "commit" /\ good
                     THEN acked \cup {p} ELSE acked
  <2>1. PICK ok \in BOOLEAN :
           /\ Exec(m, ok)
           /\ \/ AfterAnswer(p, TRUE, ok, Found(m), FALSE, Given(m, ok))
              \/ AfterAnswer(p, TRUE, FALSE, FALSE, TRUE, Given(m, ok))
    BY DEF Answered
  <2>2. QED
    BY <2>1 DEF AfterAnswer
<1>2. /\ m \in Messages /\ Formed(m) /\ Agrees(m) /\ m.at = sess[p].at
      /\ m.baton = sess[p].baton
  BY MessageIs DEF Answered
<1>3. CASE acked' = acked
  BY <1>1, <1>2, <1>3, UnackedIsAtomic
<1>4. CASE sess[p].run = "tx" /\ sess[p].at = "commit" /\ ok /\ acked' = acked \cup {p}
  <2>1. p \in Users /\ CommitsOwn(p)
    BY <1>4 DEF RemoteInv, ProcessInv, SessionInv
  <2>2. Valid(m) /\ data' = data \cup Was(m).pend /\ CanExec(m)
    BY <1>1, <1>2, <1>4 DEF Exec, Accepts
  <2>3. m.baton # NoBaton /\ Was(m) = streams[m.baton.stream] /\ Was(m).open
        /\ m.baton.stream \in Streams
    BY <1>2, <1>4, <2>2, StreamOfIs DEF Formed, Valid, Was, InTx
  <2>4. Was(m).pend = AccountRows(p) /\ Was(m).pend \cap data = {}
    BY <1>2, <1>4, <2>1, <2>3
    DEF CommitsOwn, RemoteInv, TransactionsInv, RowsAreWrittenOnce
  <2>5. Atomic!CreateAccount(p)
    BY <1>4, <2>2, <2>4 DEF Atomic!CreateAccount, Atomic!AccountRows, AccountRows
  <2>6. QED
    BY <2>1, <2>5 DEF Atomic!Next
<1>5. QED
  BY <1>1, <1>3, <1>4

(* Every step is one of AtomicData, or changes neither data nor acked.      *)
LEMMA AtomicStep == RemoteInv /\ [RemoteNext]_remoteVars => [Atomic!Next]_<<data, acked>>
<1> SUFFICES ASSUME RemoteInv, [RemoteNext]_remoteVars PROVE [Atomic!Next]_<<data, acked>>
  OBVIOUS
<1>1. CASE UNCHANGED <<data, acked>>
  BY <1>1
<1>2. ASSUME NEW p \in Procs, Answered(p) PROVE [Atomic!Next]_<<data, acked>>
  BY <1>2, AnsweredIsAtomic
<1>3. ASSUME NEW p \in Procs, sess[p].at # "none", Unheard(Message(p)), UNCHANGED acked
      PROVE  [Atomic!Next]_<<data, acked>>
  BY <1>3, MessageIs, UnheardIsAtomic
<1>4. ASSUME NEW p \in Procs, TransportFails(p) PROVE [Atomic!Next]_<<data, acked>>
  BY <1>3, <1>4 DEF TransportFails, AfterAnswer
<1>5. ASSUME NEW p \in Procs, Crash(p) PROVE [Atomic!Next]_<<data, acked>>
  BY <1>1, <1>3, <1>5 DEF Crash
<1>6. ASSUME NEW m \in late, ExecutedLate(m) PROVE [Atomic!Next]_<<data, acked>>
  <2>1. m \in Messages /\ Formed(m) /\ Agrees(m)
    BY DEF RemoteInv, RemoteTypeOK
  <2>2. QED
    BY <1>6, <2>1, UnackedIsAtomic DEF ExecutedLate
<1>7. ASSUME NEW p \in Procs, Start(p) \/ Transact(p) PROVE [Atomic!Next]_<<data, acked>>
  BY <1>7 DEF Start, Transact
<1>8. ASSUME NEW s \in Streams, Expire(s) PROVE [Atomic!Next]_<<data, acked>>
  BY <1>8 DEF Expire
<1>9. CASE Calm \/ UNCHANGED remoteVars
  BY <1>9 DEF Calm, remoteVars
<1>10. QED
  BY <1>2, <1>4, <1>5, <1>6, <1>7, <1>8, <1>9 DEF RemoteNext

(* The processes, with everything that is lost, late or crashes between     *)
(* them, implement a database that changes whole transactions at a time and *)
(* acknowledges none that has not been committed.                           *)
THEOREM RemoteImplementsAtomicData == RemoteSpec => ImplementsAtomicData
<1>1. RemoteInit => Atomic!Init
  BY DEF RemoteInit, Atomic!Init
<1>2. RemoteInv /\ [RemoteNext]_remoteVars => [Atomic!Next]_<<data, acked>>
  BY AtomicStep
<1>3. QED
  BY <1>1, <1>2, RemoteInvariance, PTL DEF RemoteSpec, ImplementsAtomicData, Atomic!Spec
==============================================================================

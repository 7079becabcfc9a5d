--------------------------- MODULE UsageCatalogProofs ---------------------------
(* Theorems about the two components whose requests read rows in one        *)
(* statement and write them in another, with nothing locked in between:     *)
(* module Usage, for any number of workers, any limits and any length of    *)
(* the window, and module Catalog, for any workers, rows, codes, prices and *)
(* bounds.  What both must show is that a decision taken on a row that was  *)
(* read still holds when it is carried out, or that another has written.    *)
EXTENDS Usage, Catalog, FiniteSetTheorems, TLAPS

(***************************************************************************)
(* Usage                                                                   *)
(***************************************************************************)
(* A unit goes with a reset only under a limit that admits one, and a reset *)
(* is only ever decided on a window that had ended.  Time does not go back, *)
(* so it has still ended when the reset is carried out, late or not.        *)
DecisionHolds(tx) ==
    tx.kind = "reset" => (tx.cost = 1 => limit >= 1) /\ Elapsed(tx.seen)

DecisionsHold == (\A r \in Requests : DecisionHolds(Tx(r))) /\ DecisionHolds(late)

UsageInv == TypeOK /\ DecisionsHold /\ CountWithinLimit /\ ChargesAreAccounted

LEMMA NoTxHolds == DecisionHolds(NoTx)
BY DEF NoTx, DecisionHolds

(* What a worker has decided on is a transaction. *)
LEMMA TxTyped ==
    ASSUME TypeOK, NEW r \in Requests
    PROVE  /\ InTx(r) => Tx(r) \in Transactions
           /\ Tx(r).kind = pc[r] /\ Tx(r).cost = Cost(r)
           /\ Tx(r).seen = seen[r] /\ Tx(r).opens = opens[r]
BY DEF TypeOK, Tx, InTx, Transactions, Cost

(* The quota starts in the invariant.                                       *)
LEMMA UsageInvInit == Init => UsageInv
<1> SUFFICES ASSUME Init PROVE UsageInv
  OBVIOUS
<1>1. TypeOK
  <2>1. /\ now \in 0..MaxTime /\ count \in Nat /\ granted \in Nat /\ unheard \in Nat
        /\ untold \in Nat
    BY UsageAssumption DEF Init
  <2>2. pc \in [Requests -> PCs] /\ op \in [Requests -> Operations]
    BY DEF Init, PCs, Operations
  <2>3. seen \in [Requests -> Times] /\ opens \in [Requests -> Times]
    BY DEF Init, Times
  <2>4. limit \in Limits /\ remote \in BOOLEAN /\ resetAt \in Times
    BY DEF Init, Times
  <2>5. late \in Transactions \cup {NoTx}
    BY DEF Init
  <2>6. QED
    BY <2>1, <2>2, <2>3, <2>4, <2>5 DEF TypeOK
<1>2. DecisionsHold
  <2>1. ASSUME NEW r \in Requests PROVE DecisionHolds(Tx(r))
    <3>1. Tx(r).kind = "idle"
      BY <1>1, TxTyped DEF Init
    <3>2. QED
      BY <3>1 DEF DecisionHolds
  <2>2. DecisionHolds(late)
    BY NoTxHolds DEF Init
  <2>3. QED
    BY <2>1, <2>2 DEF DecisionsHold
<1>3. CountWithinLimit /\ ChargesAreAccounted
  BY DEF Init, CountWithinLimit, ChargesAreAccounted
<1>4. QED
  BY <1>1, <1>2, <1>3 DEF UsageInv

(* A transaction that is committed, told of or not, charges what it admits. *)
LEMMA CommitIsSound ==
    ASSUME UsageInv, NEW tx \in Transactions, DecisionHolds(tx),
           NEW heard \in BOOLEAN, Commit(tx, heard), UNCHANGED limit
    PROVE  /\ count' \in Nat /\ resetAt' \in Times /\ granted' \in Nat /\ unheard' \in Nat
           /\ CountWithinLimit' /\ ChargesAreAccounted'
<1> USE UsageAssumption
    DEF UsageInv, TypeOK, CountWithinLimit, ChargesAreAccounted, Transactions, Admits
<1>1. limit \in Int /\ count \in Nat /\ granted \in Nat /\ unheard \in Nat /\ resetAt \in Times
      /\ tx.cost \in {0, 1} /\ tx.opens \in Times
  OBVIOUS
<1>2. CASE tx.kind = "reset"
  <2>1. count' = tx.cost /\ resetAt' = tx.opens
    BY <1>2 DEF Commit, ResetUsageWindow
  <2>2. /\ granted' \in Nat /\ unheard' \in Nat /\ tx.cost <= granted' + unheard'
    <3>1. CASE Elapsed(resetAt)
      BY <1>1, <1>2, <3>1 DEF Commit
    <3>2. CASE ~Elapsed(resetAt)
      BY <1>1, <1>2, <3>2 DEF Commit
    <3>3. QED
      BY <3>1, <3>2
  <2>3. tx.cost = 1 => limit >= 1
    BY <1>2 DEF DecisionHolds
  <2>4. QED
    BY <1>1, <2>1, <2>2, <2>3
<1>3. CASE tx.kind = "consume"
  <2>1. /\ count' = (IF count < limit THEN count + 1 ELSE count)
        /\ resetAt' = resetAt
        /\ granted' = granted + (IF heard THEN Admits(tx) ELSE 0)
        /\ unheard' = unheard + (IF heard THEN 0 ELSE Admits(tx))
    BY <1>3 DEF Commit, ConsumeUsage
  <2>2. Admits(tx) = IF count < limit THEN 1 ELSE 0
    BY <1>3
  <2>3. QED
    BY <1>1, <2>1, <2>2
<1>4. QED
  BY <1>2, <1>3

(* A worker that is answered has decided on nothing, and one that has not   *)
(* moved on what it had.                                                    *)
LEMMA AnswerForgets ==
    ASSUME UsageInv, NEW r \in Requests, Answer(r), UNCHANGED <<limit, now>>
    PROVE  /\ pc' \in [Requests -> PCs] /\ op' \in [Requests -> Operations]
           /\ seen' \in [Requests -> Times] /\ opens' \in [Requests -> Times]
           /\ \A q \in Requests : DecisionHolds(Tx(q))'
<1> USE DEF UsageInv, TypeOK, Answer, Goto, PCs, Operations, Times
<1>1. /\ pc' \in [Requests -> PCs] /\ op' \in [Requests -> Operations]
      /\ seen' \in [Requests -> Times] /\ opens' \in [Requests -> Times]
  OBVIOUS
<1>2. ASSUME NEW q \in Requests PROVE DecisionHolds(Tx(q))'
  <2>1. CASE q = r
    BY <2>1 DEF DecisionHolds, Tx
  <2>2. CASE q # r
    <3>1. DecisionHolds(Tx(q))
      BY DEF DecisionsHold
    <3>2. pc'[q] = pc[q] /\ op'[q] = op[q] /\ seen'[q] = seen[q]
      BY <2>2
    <3>3. QED
      BY <3>1, <3>2 DEF DecisionHolds, Tx, Cost, Elapsed
  <2>3. QED
    BY <2>1, <2>2
<1>3. QED
  BY <1>1, <1>2

LEMMA StopForgets ==
    ASSUME UsageInv, Stop
    PROVE  /\ pc' \in [Requests -> PCs] /\ op' \in [Requests -> Operations]
           /\ seen' \in [Requests -> Times] /\ opens' \in [Requests -> Times]
           /\ \A q \in Requests : DecisionHolds(Tx(q))'
BY DEF Stop, PCs, Operations, Times, DecisionHolds, Tx

(* The transaction that is late stands as it did. *)
LEMMA LateStands ==
    ASSUME UsageInv, UNCHANGED <<limit, late>>, now' \in 0..MaxTime, now' >= now
    PROVE  DecisionHolds(late)'
<1>1. late.kind = "reset" => late.seen \in Times
  BY DEF UsageInv, TypeOK, Transactions, NoTx
<1>2. DecisionHolds(late) /\ now \in Nat /\ now' \in Nat
  BY UsageAssumption DEF UsageInv, DecisionsHold, TypeOK
<1>3. QED
  BY <1>1, <1>2 DEF DecisionHolds, Elapsed, Times, NoWindow

(* A step that touches neither the row nor what is late. *)
LEMMA QuietStep ==
    ASSUME UsageInv, UNCHANGED <<config, now, quota, late, untold>>,
           pc' \in [Requests -> PCs], op' \in [Requests -> Operations],
           seen' \in [Requests -> Times], opens' \in [Requests -> Times],
           \A q \in Requests : DecisionHolds(Tx(q))'
    PROVE  UsageInv'
<1>1. TypeOK' /\ CountWithinLimit' /\ ChargesAreAccounted'
  BY DEF UsageInv, TypeOK, CountWithinLimit, ChargesAreAccounted, config, quota
<1>2. DecisionHolds(late)'
  BY DEF UsageInv, DecisionsHold, DecisionHolds, Elapsed, config
<1>3. QED
  BY <1>1, <1>2 DEF UsageInv, DecisionsHold

(* A step that commits a transaction. *)
LEMMA CommitStep ==
    ASSUME UsageInv, UNCHANGED <<config, now>>,
           NEW tx \in Transactions, DecisionHolds(tx),
           NEW heard \in BOOLEAN, Commit(tx, heard), untold' \in Nat,
           late' = late \/ late' = NoTx,
           pc' \in [Requests -> PCs], op' \in [Requests -> Operations],
           seen' \in [Requests -> Times], opens' \in [Requests -> Times],
           \A q \in Requests : DecisionHolds(Tx(q))'
    PROVE  UsageInv'
<1>1. /\ count' \in Nat /\ resetAt' \in Times /\ granted' \in Nat /\ unheard' \in Nat
      /\ CountWithinLimit' /\ ChargesAreAccounted'
  BY CommitIsSound DEF config
<1>2. late' \in Transactions \cup {NoTx} /\ DecisionHolds(late)'
  BY DEF UsageInv, TypeOK, DecisionsHold, DecisionHolds, Elapsed, config, NoTx
<1>3. TypeOK'
  BY <1>1, <1>2 DEF UsageInv, TypeOK, config
<1>4. QED
  BY <1>1, <1>2, <1>3 DEF UsageInv, DecisionsHold

(* One worker moves on within its request. *)
LEMMA MoveHolds ==
    ASSUME UsageInv, NEW r \in Requests, UNCHANGED <<limit, now>>,
           \A q \in Requests \ {r} :
              pc'[q] = pc[q] /\ op'[q] = op[q] /\ seen'[q] = seen[q],
           DecisionHolds(Tx(r))'
    PROVE  \A q \in Requests : DecisionHolds(Tx(q))'
<1> SUFFICES ASSUME NEW q \in Requests PROVE DecisionHolds(Tx(q))'
  OBVIOUS
<1>1. CASE q = r
  BY <1>1
<1>2. CASE q # r
  <2>1. DecisionHolds(Tx(q)) /\ pc'[q] = pc[q] /\ op'[q] = op[q] /\ seen'[q] = seen[q]
    BY <1>2 DEF UsageInv, DecisionsHold
  <2>2. QED
    BY <2>1 DEF DecisionHolds, Tx, Cost, Elapsed
<1>3. QED
  BY <1>1, <1>2

(* Every step of the quota keeps the invariant.                             *)
LEMMA UsageInvNext == UsageInv /\ [Next]_vars => UsageInv'
<1> SUFFICES ASSUME UsageInv, [Next]_vars
             PROVE  UsageInv'
  OBVIOUS
<1> USE UsageAssumption
<1>0. ASSUME NEW r \in Requests, InTx(r)
      PROVE  Tx(r) \in Transactions /\ DecisionHolds(Tx(r))
  BY <1>0, TxTyped DEF UsageInv, DecisionsHold
<1>1. CASE Tick
  <2>1. now \in Nat /\ now' \in 0..MaxTime /\ now' >= now
    BY <1>1 DEF Tick, UsageInv, TypeOK
  <2>2. ASSUME NEW r \in Requests PROVE DecisionHolds(Tx(r))'
    <3>1. DecisionHolds(Tx(r)) /\ seen[r] \in Times
      BY DEF UsageInv, DecisionsHold, TypeOK
    <3>2. UNCHANGED <<limit, pc, op, seen>>
      BY <1>1 DEF Tick, config, local
    <3>3. QED
      BY <2>1, <3>1, <3>2 DEF DecisionHolds, Tx, Cost, Elapsed, Times, NoWindow
  <2>3. DecisionHolds(late)'
    BY <1>1, <2>1, LateStands DEF Tick, config
  <2>4. TypeOK' /\ CountWithinLimit' /\ ChargesAreAccounted'
    BY <1>1, <2>1
    DEF Tick, UsageInv, TypeOK, CountWithinLimit, ChargesAreAccounted, config, quota, local
  <2>5. QED
    BY <2>2, <2>3, <2>4 DEF UsageInv, DecisionsHold
<1>2. ASSUME NEW r \in Requests, NEW o \in Operations, Receive(r, o)
      PROVE  UsageInv'
  <2>1. /\ pc' = [pc EXCEPT ![r] = "read"] /\ op' = [op EXCEPT ![r] = o]
        /\ UNCHANGED <<config, now, quota, seen, opens, late, untold>>
    BY <1>2 DEF Receive, Goto
  <2>2. /\ pc' \in [Requests -> PCs] /\ op' \in [Requests -> Operations]
        /\ seen' \in [Requests -> Times] /\ opens' \in [Requests -> Times]
    BY <2>1 DEF UsageInv, TypeOK, PCs
  <2>3. DecisionHolds(Tx(r))'
    BY <2>1 DEF UsageInv, TypeOK, DecisionHolds, Tx
  <2>4. \A q \in Requests \ {r} : pc'[q] = pc[q] /\ op'[q] = op[q] /\ seen'[q] = seen[q]
    BY <2>1 DEF UsageInv, TypeOK
  <2>5. QED
    BY <2>1, <2>2, <2>3, <2>4, MoveHolds, QuietStep DEF config
<1>3. ASSUME NEW r \in Requests, Answer(r), UNCHANGED <<config, now, quota, late, untold>>
      PROVE  UsageInv'
  BY <1>3, AnswerForgets, QuietStep DEF config
<1>4. ASSUME NEW r \in Requests, Read(r)
      PROVE  UsageInv'
  <2>1. CASE Answer(r)
    BY <1>3, <1>4, <2>1 DEF Read
  <2>2. CASE Goto(r, "decide") /\ seen' = [seen EXCEPT ![r] = resetAt] /\ UNCHANGED <<op, opens>>
    <3>1. UNCHANGED <<config, now, quota, late, untold>>
      BY <1>4 DEF Read
    <3>2. /\ pc' \in [Requests -> PCs] /\ op' \in [Requests -> Operations]
          /\ seen' \in [Requests -> Times] /\ opens' \in [Requests -> Times]
      BY <2>2 DEF Goto, UsageInv, TypeOK, PCs
    <3>3. DecisionHolds(Tx(r))'
      BY <2>2 DEF Goto, UsageInv, TypeOK, DecisionHolds, Tx
    <3>4. \A q \in Requests \ {r} : pc'[q] = pc[q] /\ op'[q] = op[q] /\ seen'[q] = seen[q]
      BY <2>2 DEF Goto, UsageInv, TypeOK
    <3>5. QED
      BY <3>1, <3>2, <3>3, <3>4, MoveHolds, QuietStep DEF config
  <2>3. QED
    BY <1>4, <2>1, <2>2 DEF Read
<1>5. ASSUME NEW r \in Requests, RefuseAll(r)
      PROVE  UsageInv'
  BY <1>3, <1>5 DEF RefuseAll
<1>6. ASSUME NEW r \in Requests, Decide(r)
      PROVE  UsageInv'
  <2>1. /\ pc[r] = "decide" /\ ~(op[r] = "track" /\ limit < 1)
        /\ UNCHANGED <<config, now, quota, late, untold>>
    BY <1>6 DEF Decide
  <2>2. CASE /\ Elapsed(seen[r]) /\ Goto(r, "reset")
             /\ opens' = [opens EXCEPT ![r] = now + Window] /\ UNCHANGED <<op, seen>>
    <3>1. /\ pc' \in [Requests -> PCs] /\ op' \in [Requests -> Operations]
          /\ seen' \in [Requests -> Times] /\ opens' \in [Requests -> Times]
      BY <2>2 DEF Goto, UsageInv, TypeOK, PCs, Times
    <3>2. DecisionHolds(Tx(r))'
      BY <2>1, <2>2 DEF Goto, UsageInv, TypeOK, DecisionHolds, Tx, Cost, Elapsed, config
    <3>3. \A q \in Requests \ {r} : pc'[q] = pc[q] /\ op'[q] = op[q] /\ seen'[q] = seen[q]
      BY <2>2 DEF Goto, UsageInv, TypeOK
    <3>4. QED
      BY <2>1, <3>1, <3>2, <3>3, MoveHolds, QuietStep DEF config
  <2>3. CASE Goto(r, "consume") /\ UNCHANGED <<op, seen, opens>>
    <3>1. /\ pc' \in [Requests -> PCs] /\ op' \in [Requests -> Operations]
          /\ seen' \in [Requests -> Times] /\ opens' \in [Requests -> Times]
      BY <2>3 DEF Goto, UsageInv, TypeOK, PCs
    <3>2. DecisionHolds(Tx(r))'
      BY <2>3 DEF Goto, UsageInv, TypeOK, DecisionHolds, Tx
    <3>3. \A q \in Requests \ {r} : pc'[q] = pc[q] /\ op'[q] = op[q] /\ seen'[q] = seen[q]
      BY <2>3 DEF Goto, UsageInv, TypeOK
    <3>4. QED
      BY <2>1, <3>1, <3>2, <3>3, MoveHolds, QuietStep DEF config
  <2>4. CASE Answer(r)
    BY <1>3, <2>1, <2>4
  <2>5. QED
    BY <1>6, <2>2, <2>3, <2>4 DEF Decide
<1>7. ASSUME NEW r \in Requests, Fails(r)
      PROVE  UsageInv'
  BY <1>3, <1>7 DEF Fails
<1>8. ASSUME NEW r \in Requests, NEW heard \in BOOLEAN, InTx(r), Commit(Tx(r), heard),
             UNCHANGED <<config, now, late>>, untold' \in Nat, Answer(r) \/ Stop
      PROVE  UsageInv'
  <2>1. UNCHANGED <<limit, now>>
    BY <1>8 DEF config
  <2>2. /\ pc' \in [Requests -> PCs] /\ op' \in [Requests -> Operations]
        /\ seen' \in [Requests -> Times] /\ opens' \in [Requests -> Times]
        /\ \A q \in Requests : DecisionHolds(Tx(q))'
    BY <1>8, <2>1, AnswerForgets, StopForgets
  <2>3. QED
    BY <1>0, <1>8, <2>2, CommitStep
<1>9. ASSUME NEW r \in Requests, Transact(r) \/ AnswerLost(r) \/ CrashAfterCommit(r)
      PROVE  UsageInv'
  <2>1. untold' \in Nat
    <3>1. untold' = untold \/ Untold
      BY <1>9 DEF Transact, AnswerLost, CrashAfterCommit
    <3>2. QED
      BY <3>1 DEF Untold, UsageInv, TypeOK
  <2>2. InTx(r) /\ UNCHANGED <<config, now, late>> /\ (Answer(r) \/ Stop)
    BY <1>9 DEF Transact, AnswerLost, CrashAfterCommit, Stop
  <2>3. Commit(Tx(r), TRUE) \/ Commit(Tx(r), FALSE)
    BY <1>9 DEF Transact, AnswerLost, CrashAfterCommit
  <2>4. QED
    BY <1>8, <2>1, <2>2, <2>3
<1>10. ASSUME NEW r \in Requests, CommitDelayed(r)
       PROVE  UsageInv'
  <2>1. /\ InTx(r) /\ late' = Tx(r) /\ Answer(r) /\ UNCHANGED <<config, now, quota>>
        /\ untold' \in Nat
    BY <1>10 DEF CommitDelayed, Untold, UsageInv, TypeOK
  <2>2. /\ pc' \in [Requests -> PCs] /\ op' \in [Requests -> Operations]
        /\ seen' \in [Requests -> Times] /\ opens' \in [Requests -> Times]
        /\ \A q \in Requests : DecisionHolds(Tx(q))'
    BY <2>1, AnswerForgets DEF config
  <2>3. late' \in Transactions /\ DecisionHolds(late)'
    BY <1>0, <2>1 DEF DecisionHolds, Elapsed, config
  <2>4. TypeOK' /\ CountWithinLimit' /\ ChargesAreAccounted'
    BY <2>1, <2>2, <2>3
    DEF UsageInv, TypeOK, CountWithinLimit, ChargesAreAccounted, config, quota
  <2>5. QED
    BY <2>2, <2>3, <2>4 DEF UsageInv, DecisionsHold
<1>11. CASE LateCommit
  <2>1. /\ late # NoTx /\ Commit(late, FALSE) /\ late' = NoTx
        /\ UNCHANGED <<config, now, pc, local, untold>>
    BY <1>11 DEF LateCommit
  <2>2. /\ pc' \in [Requests -> PCs] /\ op' \in [Requests -> Operations]
        /\ seen' \in [Requests -> Times] /\ opens' \in [Requests -> Times]
    BY <2>1 DEF UsageInv, TypeOK, local
  <2>3. \A q \in Requests : DecisionHolds(Tx(q))'
    BY <2>1 DEF UsageInv, DecisionsHold, DecisionHolds, Tx, Cost, Elapsed, local, config
  <2>4. late \in Transactions /\ DecisionHolds(late) /\ untold' \in Nat
    BY <2>1 DEF UsageInv, TypeOK, DecisionsHold
  <2>5. QED
    BY <2>1, <2>2, <2>3, <2>4, CommitStep
<1>12. CASE Expire
  <2>1. late' = NoTx /\ UNCHANGED <<config, now, quota, pc, local, untold>>
    BY <1>12 DEF Expire
  <2>2. \A q \in Requests : DecisionHolds(Tx(q))'
    BY <2>1 DEF UsageInv, DecisionsHold, DecisionHolds, Tx, Cost, Elapsed, local, config
  <2>3. DecisionHolds(late)'
    BY <2>1 DEF DecisionHolds, NoTx
  <2>4. TypeOK' /\ CountWithinLimit' /\ ChargesAreAccounted'
    BY <2>1 DEF UsageInv, TypeOK, CountWithinLimit, ChargesAreAccounted, config, quota, local
  <2>5. QED
    BY <2>2, <2>3, <2>4 DEF UsageInv, DecisionsHold
<1>13. CASE Crash
  BY <1>13, StopForgets, QuietStep DEF Crash, Stop
<1>14. CASE UNCHANGED vars
  <2>1. UNCHANGED <<config, now, quota, pc, local, late, untold>>
    BY <1>14 DEF vars
  <2>2. \A q \in Requests : DecisionHolds(Tx(q))'
    BY <2>1 DEF UsageInv, DecisionsHold, DecisionHolds, Tx, Cost, Elapsed, local, config
  <2>3. QED
    BY <2>1, <2>2, QuietStep DEF UsageInv, TypeOK, local
<1>15. QED
  BY <1>1, <1>2, <1>4, <1>5, <1>6, <1>7, <1>9, <1>10, <1>11, <1>12, <1>13, <1>14 DEF Next

(* So it holds throughout.                                                  *)
LEMMA UsageInvariance == Spec => []UsageInv
<1>1. QED
  BY UsageInvInit, UsageInvNext, PTL DEF Spec

(* Every variable keeps its type. *)
THEOREM UsageTypeCorrect == Spec => []TypeOK
<1>1. UsageInv => TypeOK
  BY DEF UsageInv
<1>2. QED
  BY <1>1, UsageInvariance, PTL

(* usage_count stays within the limit, for any interleaving of any number   *)
(* of resets and increments, lost and late COMMITs included.                *)
THEOREM CountStaysWithinLimit == Spec => []CountWithinLimit
<1>1. UsageInv => CountWithinLimit
  BY DEF UsageInv
<1>2. QED
  BY <1>1, UsageInvariance, PTL

(* usage_count never exceeds the units granted since the window was opened, *)
(* and those of COMMITs that were executed without their caller's hearing.  *)
THEOREM ChargesAreGrants == Spec => []ChargesAreAccounted
<1>1. UsageInv => ChargesAreAccounted
  BY DEF UsageInv
<1>2. QED
  BY <1>1, UsageInvariance, PTL

(* The count is bounded by the limit and by what was granted, at once. *)
THEOREM CountStaysSound == Spec => []CountIsSound
<1>1. CountWithinLimit /\ ChargesAreAccounted => CountIsSound
  BY DEF CountIsSound
<1>2. QED
  BY <1>1, CountStaysWithinLimit, ChargesAreGrants, PTL

(* An open window is erased only by a transaction decided on an older row:  *)
(* the race needs two requests to overlap, however late a COMMIT comes.     *)
THEOREM OnlyOverlapErases == Spec => OverlapNeededToErase
<1> DEFINE Kept == \A tx \in Pending :
                      CarriedOut(tx) /\ tx.kind = "reset" /\ ~Elapsed(resetAt)
                          => tx.seen # resetAt
<1>1. UsageInv => Kept
  BY DEF UsageInv, DecisionsHold, DecisionHolds, Pending
<1>2. UsageInv => [Kept]_vars
  BY <1>1
<1> HIDE DEF Kept
<1>3. Spec => [][Kept]_vars
  BY <1>2, UsageInvariance, PTL DEF Spec
<1>4. QED
  BY <1>3 DEF OverlapNeededToErase, Kept

(***************************************************************************)
(* Catalog                                                                 *)
(***************************************************************************)

(* The column of a row that no update writes. *)
Fixed == [Venues |-> "slug", MenuItems |-> "venue", VenueSections |-> "venue"]

(* Which requests are at which statement, with what body. *)
OnCourse(w) ==
    LET r == req[w]
    IN /\ r.pc \notin {"idle", "reread"} =>
             r.kind \in AllKinds /\ r.user \in Users /\ r.arg \in Args(r.kind)
       /\ r.pc = "venue" => r.kind \in {"place_order", "active_menu", "active_sections"}
       /\ r.pc \in {"item", "section", "order"} => r.kind = "place_order"
       /\ r.pc = "list" => r.kind \in Reads
       /\ r.pc = "slug" => r.kind = "create_venue"
       /\ r.pc = "exists" => r.kind \in {"create_menu_item", "create_section"}
       /\ r.pc \in {"read", "write"} => r.kind \in Updates

(* The rows that a request has read are there, and belong together, for     *)
(* good: rows are not deleted and keep their fixed column.                  *)
Located(w) ==
    LET r == req[w]
    IN /\ r.pc \in {"item", "section", "order"} =>
             r.venue \in DOMAIN db.Venues /\ r.mode \in Modes
       /\ r.pc \in {"section", "order"} =>
             /\ r.item \in DOMAIN db.MenuItems /\ r.price \in Prices
             /\ db.MenuItems[r.item].venue = r.venue
       /\ r.pc = "order" => r.section \in SectionsOf(r.venue) /\ r.delivery \in Flags
       /\ r.pc = "insert" /\ r.kind = "create_venue" =>
             /\ r.venue \in VenueIds
             /\ r.slug \in AllSlugs
             /\ r.slug # r.arg.slug => Taken(r.arg.slug)
       /\ r.pc = "write" =>
             LET t == TableOf[r.kind]
             IN /\ r.arg.id \in DOMAIN db[t] /\ r.row \in Rows[t]
                /\ r.row[Fixed[t]] = db[t][r.arg.id][Fixed[t]]
       /\ r.pc = "done" /\ r.kind = "place_order" => r.seen \subseteq DOMAIN db.Orders

(* What a request has read is what the tables hold, until another writes.   *)
Current(w) ==
    LET r == req[w]
    IN ~r.dirty =>
       /\ \/ r.pc \in {"item", "section", "order"}
          \/ r.pc = "list" /\ r.kind \in {"active_menu", "active_sections"}
          => r.venue \in ActiveVenue(r.arg.key)
       /\ r.pc \in {"item", "section", "order"} => r.mode = db.Venues[r.venue].mode
       /\ r.pc \in {"section", "order"} =>
             OnSale(r.item, r.venue) /\ r.price = db.MenuItems[r.item].price
       /\ r.pc = "order" =>
             /\ r.section \in Coded(r.venue, r.arg.code)
             /\ r.delivery = db.VenueSections[r.section].delivery
       /\ r.pc = "insert" /\ r.kind = "create_venue" /\ r.slug = r.arg.slug =>
             ~Taken(r.slug)
       /\ r.pc = "write" => r.row = db[TableOf[r.kind]][r.arg.id]

RequestInv(w) == OnCourse(w) /\ Located(w) /\ Current(w) /\ QuietAnswer(w)

(* The keys that the schema declares UNIQUE.                                *)
Distinct ==
    /\ \A s1, s2 \in DOMAIN db.VenueSections :
          /\ db.VenueSections[s1].venue = db.VenueSections[s2].venue
          /\ db.VenueSections[s1].code = db.VenueSections[s2].code
          => s1 = s2
    /\ \A u, v \in DOMAIN db.Venues : db.Venues[u].slug = db.Venues[v].slug => u = v

OrderFits(order) ==
    /\ order.venue \in DOMAIN db.Venues
    /\ order.item \in DOMAIN db.MenuItems
    /\ order.section \in SectionsOf(order.venue)
    /\ db.MenuItems[order.item].venue = order.venue

OrdersFit == \A o \in DOMAIN db.Orders : OrderFits(db.Orders[o])

CatalogInv ==
    CatalogTypeOK /\ Distinct /\ OrdersFit /\ \A w \in Workers : RequestInv(w)
------------------------------------------------------------------------------
(* The tables before and after a step: no row is deleted, and none changes  *)
(* its fixed column.                                                        *)
RowsStay ==
    /\ \A v \in DOMAIN db.Venues : /\ v \in DOMAIN db'.Venues
                                   /\ db'.Venues[v].slug = db.Venues[v].slug
    /\ \A i \in DOMAIN db.MenuItems : /\ i \in DOMAIN db'.MenuItems
                                      /\ db'.MenuItems[i].venue = db.MenuItems[i].venue
    /\ \A s \in DOMAIN db.VenueSections :
          /\ s \in DOMAIN db'.VenueSections
          /\ db'.VenueSections[s].venue = db.VenueSections[s].venue

(* A table with one row written: that row is new, the others are as before. *)
LEMMA PutIs ==
    ASSUME NEW f, NEW id, NEW new
    PROVE  /\ DOMAIN Put(f, id, new) = DOMAIN f \cup {id}
           /\ \A x \in DOMAIN f \cup {id} :
                 Put(f, id, new)[x] = IF x = id THEN new ELSE f[x]
BY DEF Put

(* A request that does not move stays in order while the tables only grow. *)
LEMMA LocatedStays ==
    ASSUME NEW v \in Workers, Located(v), OnCourse(v), RowsStay,
           \A o \in DOMAIN db.Orders : o \in DOMAIN db'.Orders,
           req'[v] = req[v] \/ req'[v] = [req[v] EXCEPT !.dirty = TRUE],
           req[v] \in RequestStates
    PROVE  Located(v)' /\ OnCourse(v)'
<1> DEFINE r == req[v]
           rr == req'[v]
<1>0. /\ rr.pc = r.pc /\ rr.kind = r.kind /\ rr.user = r.user /\ rr.arg = r.arg
      /\ rr.venue = r.venue /\ rr.item = r.item /\ rr.mode = r.mode
      /\ rr.price = r.price /\ rr.section = r.section /\ rr.delivery = r.delivery
      /\ rr.row = r.row /\ rr.slug = r.slug /\ rr.seen = r.seen
  BY DEF RequestStates
<1>1. OnCourse(v)'
  BY <1>0 DEF OnCourse
<1>2. Located(v)'
  <2>1. CASE r.pc = "write"
    <3>1. \A t \in Tables : \A i \in DOMAIN db[t] :
             i \in DOMAIN db'[t] /\ db'[t][i][Fixed[t]] = db[t][i][Fixed[t]]
      BY DEF Tables, Fixed, RowsStay
    <3>2. TableOf[r.kind] \in Tables
      BY <2>1 DEF OnCourse, Tables, TableOf, Updates
    <3>3. QED
      BY <1>0, <2>1, <3>1, <3>2 DEF Located
  <2>2. CASE r.pc # "write"
    BY <1>0, <2>2 DEF Located, RowsStay, SectionsOf, Taken
  <2>3. QED
    BY <2>1, <2>2
<1>3. QED
  BY <1>1, <1>2

CatalogueSame ==
    UNCHANGED <<db.Venues, db.MenuItems, db.VenueSections>>

OrdersStay ==
    \A o \in DOMAIN db.Orders : o \in DOMAIN db'.Orders /\ db'.Orders[o] = db.Orders[o]

(* A request that does not move stays as current as it claims to be: the    *)
(* catalogue is as it was, or it has been marked as overtaken.              *)
LEMMA RequestStays ==
    ASSUME NEW v \in Workers, RequestInv(v), req[v] \in RequestStates, RowsStay, OrdersStay,
           \/ req'[v] = req[v] /\ (CatalogueSame \/ Unread(v))
           \/ req'[v] = [req[v] EXCEPT !.dirty = TRUE]
    PROVE  RequestInv(v)'
<1>1. Located(v)' /\ OnCourse(v)'
  BY LocatedStays DEF RequestInv, OrdersStay
<1>2. CASE req'[v] = [req[v] EXCEPT !.dirty = TRUE]
  <2>1. req'[v].dirty
    BY <1>2 DEF RequestStates
  <2>2. QED
    BY <1>1, <2>1 DEF RequestInv, Current, QuietAnswer
<1>3. CASE req'[v] = req[v] /\ Unread(v)
  <2>1. /\ req[v].pc \notin {"item", "section", "order", "insert", "write", "done"}
        /\ req[v].pc = "list" => req[v].kind \notin {"active_menu", "active_sections"}
    BY <1>3 DEF Unread, FirstStep
  <2>2. QED
    BY <1>1, <1>3, <2>1 DEF RequestInv, Current, QuietAnswer
<1>4. CASE req'[v] = req[v] /\ CatalogueSame
  <2>1. Current(v)'
    <3>1. req[v].pc = "write" =>
             db'[TableOf[req[v].kind]] = db[TableOf[req[v].kind]]
      BY <1>4 DEF RequestInv, OnCourse, TableOf, Updates, CatalogueSame
    <3>2. QED
      BY <1>4, <3>1 DEF RequestInv, Current, CatalogueSame, ActiveVenue, OnSale, Coded,
                        SectionsOf, Taken
  <2>2. QuietAnswer(v)'
    <3>1. req[v].kind \in {"active_menu", "active_sections"} => Listed(v)' = Listed(v)
      BY <1>4 DEF Listed, CatalogueSame, OnSale, SectionsOf
    <3>2. req[v].pc = "done" /\ req[v].kind = "place_order" =>
             \A o \in req[v].seen : db'.Orders[o] = db.Orders[o]
      BY DEF RequestInv, Located, OrdersStay
    <3>3. QED
      BY <1>4, <3>1, <3>2 DEF RequestInv, QuietAnswer, CatalogueSame, ActiveVenue, Coded,
                              SectionsOf
  <2>3. QED
    BY <1>1, <2>1, <2>2 DEF RequestInv
<1>5. QED
  BY <1>2, <1>3, <1>4

(* Distinct and OrdersFit depend on the tables alone. *)
LEMMA CatalogueStays ==
    ASSUME UNCHANGED db, CatalogTypeOK, Distinct, OrdersFit
    PROVE  Distinct' /\ OrdersFit' /\ RowsStay /\ OrdersStay /\ CatalogueSame
BY DEF Distinct, OrdersFit, OrderFits, SectionsOf, RowsStay, OrdersStay, CatalogueSame

(* A step that reads: one request moves. *)
LEMMA ReadStep ==
    ASSUME CatalogInv, UNCHANGED db, writes' \in 0..MaxWrites,
           NEW w \in Workers, NEW r \in RequestStates, req' = [req EXCEPT ![w] = r],
           RequestInv(w)'
    PROVE  CatalogInv'
<1>1. Distinct' /\ OrdersFit' /\ RowsStay /\ OrdersStay /\ CatalogueSame
  BY CatalogueStays DEF CatalogInv
<1>2. CatalogTypeOK'
  BY DEF CatalogInv, CatalogTypeOK
<1>3. ASSUME NEW v \in Workers PROVE RequestInv(v)'
  <2>1. CASE v = w
    BY <2>1
  <2>2. CASE v # w
    <3>1. req'[v] = req[v] /\ req[v] \in RequestStates /\ RequestInv(v)
      BY <2>2 DEF CatalogInv, CatalogTypeOK
    <3>2. QED
      BY <1>1, <3>1, RequestStays
  <2>3. QED
    BY <2>1, <2>2
<1>4. QED
  BY <1>1, <1>2, <1>3 DEF CatalogInv

(* The record of a worker without a request has its type.                   *)
LEMMA IdleTyped == Idle \in RequestStates
<1>1. Idle.arg \in Arguments
  BY DEF Arguments
<1>2. QED
  BY <1>1, {} \in SUBSET (VenueIds \cup ItemIds \cup SectionIds \cup OrderIds)
  DEF Idle, RequestStates, CatalogPCs

(* A request that ends, or whose row is written, owes nothing more. *)
LEMMA IdleIsFine ==
    ASSUME NEW w \in Workers, NEW r \in {Idle, [Idle EXCEPT !.pc = "reread"]},
           req'[w] = r
    PROVE  RequestInv(w)' /\ r \in RequestStates
<1>1. req'[w].pc \in {"idle", "reread"}
  BY DEF Idle
<1>2. RequestInv(w)'
  BY <1>1 DEF RequestInv, OnCourse, Located, Current, QuietAnswer
<1>3. r \in RequestStates
  BY IdleTyped DEF RequestStates, CatalogPCs
<1>4. QED
  BY <1>2, <1>3

(* A request that is answered leaves nothing to be kept.                    *)
LEMMA FinishStep ==
    ASSUME CatalogInv, NEW w \in Workers, Finish(w), UNCHANGED <<db, writes>>
    PROVE  CatalogInv'
<1>1. req'[w] = Idle /\ writes' \in 0..MaxWrites
  BY DEF Finish, CatalogInv, CatalogTypeOK
<1>2. RequestInv(w)' /\ Idle \in RequestStates
  BY <1>1, IdleIsFine
<1>3. QED
  BY <1>1, <1>2, ReadStep DEF Finish

(* What Args says, kind by kind. *)
LEMMA ArgsAre ==
    /\ Args("place_order") =
          [key : AllSlugs \cup VenueIds, item : ItemIds, code : Codes, qty : Qtys]
    /\ Args("active_menu") = [key : AllSlugs \cup VenueIds]
    /\ Args("active_sections") = [key : AllSlugs \cup VenueIds]
    /\ Args("create_venue") = [slug : Slugs, mode : Modes, active : Flags]
    /\ Args("create_menu_item") = [venue : VenueIds, price : Prices]
    /\ Args("create_section") = [venue : VenueIds, code : Codes, delivery : Flags]
    /\ Args("update_venue") = [id : VenueIds, patch : Patches("Venues")]
    /\ Args("update_menu_item") = [id : ItemIds, patch : Patches("MenuItems")]
    /\ Args("update_section") = [id : SectionIds, patch : Patches("VenueSections")]
BY DEF Args, Updates, TableOf, Ids

(* The updates of each table. *)
LEMMA TableOfIs ==
    /\ Updates = {"update_venue", "update_menu_item", "update_section"}
    /\ TableOf["update_venue"] = "Venues"
    /\ TableOf["update_menu_item"] = "MenuItems"
    /\ TableOf["update_section"] = "VenueSections"
BY DEF Updates, TableOf

(* An update names none of the fixed columns, so that what it writes is a   *)
(* row with the fixed column of the row it read.                            *)
LEMMA MergeIs ==
    ASSUME NEW t \in Tables, NEW old \in Rows[t], NEW patch \in Patches(t)
    PROVE  /\ Merge(old, patch) \in Rows[t]
           /\ Merge(old, patch)[Fixed[t]] = old[Fixed[t]]
           /\ DOMAIN Merge(old, patch) = DOMAIN old
           /\ \A c \in DOMAIN old \ DOMAIN patch : Merge(old, patch)[c] = old[c]
<1> DEFINE cols == [Venues |-> {"mode", "active"}, MenuItems |-> {"price", "active"},
                    VenueSections |-> {"code", "delivery"}][t]
<1>1. PICK S \in SUBSET cols, r \in Rows[t] : patch = [c \in S |-> r[c]]
  BY DEF Patches
<1>2. /\ DOMAIN Merge(old, patch) = DOMAIN old
      /\ \A c \in DOMAIN old : Merge(old, patch)[c] = IF c \in S THEN r[c] ELSE old[c]
  BY <1>1 DEF Merge
<1>3. CASE t = "Venues"
  <2>1. old \in Venues /\ r \in Venues /\ "slug" \notin S
    BY <1>3 DEF Rows
  <2>2. Merge(old, patch) = [slug |-> old.slug,
                             mode |-> IF "mode" \in S THEN r.mode ELSE old.mode,
                             active |-> IF "active" \in S THEN r.active ELSE old.active]
    BY <1>1, <2>1 DEF Merge, Venues
  <2>3. Merge(old, patch) \in Venues
    BY <2>1, <2>2 DEF Venues
  <2>4. QED
    BY <1>1, <1>2, <1>3, <2>1, <2>2, <2>3 DEF Rows, Fixed
<1>4. CASE t = "MenuItems"
  <2>1. old \in MenuItems /\ r \in MenuItems /\ "venue" \notin S
    BY <1>4 DEF Rows
  <2>2. Merge(old, patch) = [venue |-> old.venue,
                             price |-> IF "price" \in S THEN r.price ELSE old.price,
                             active |-> IF "active" \in S THEN r.active ELSE old.active]
    BY <1>1, <2>1 DEF Merge, MenuItems
  <2>3. Merge(old, patch) \in MenuItems
    BY <2>1, <2>2 DEF MenuItems
  <2>4. QED
    BY <1>1, <1>2, <1>4, <2>1, <2>2, <2>3 DEF Rows, Fixed
<1>5. CASE t = "VenueSections"
  <2>1. old \in Sections /\ r \in Sections /\ "venue" \notin S
    BY <1>5 DEF Rows
  <2>2. Merge(old, patch) =
          [venue |-> old.venue,
           code |-> IF "code" \in S THEN r.code ELSE old.code,
           delivery |-> IF "delivery" \in S THEN r.delivery ELSE old.delivery]
    BY <1>1, <2>1 DEF Merge, Sections
  <2>3. Merge(old, patch) \in Sections
    BY <2>1, <2>2 DEF Sections
  <2>4. QED
    BY <1>1, <1>2, <1>5, <2>1, <2>2, <2>3 DEF Rows, Fixed
<1>6. QED
  BY <1>3, <1>4, <1>5 DEF Tables
------------------------------------------------------------------------------
(* One lemma per kind of step. *)
LEMMA BeginKeeps ==
    ASSUME CatalogInv, NEW w \in Workers, NEW u \in Users, NEW k \in AllKinds,
           NEW a \in Args(k), Begin(w, u, k, a)
    PROVE  CatalogInv'
<1> DEFINE r == [Idle EXCEPT !.pc = FirstStep(k), !.kind = k, !.user = u, !.arg = a]
<1>1. /\ UNCHANGED db /\ req' = [req EXCEPT ![w] = r]
      /\ writes' \in 0..MaxWrites
  BY CatalogAssumption DEF Begin, CatalogInv, CatalogTypeOK
<1>2. /\ FirstStep(k) \in {"venue", "list", "slug", "exists", "read"}
      /\ FirstStep(k) = "venue" => k \in {"place_order", "active_menu", "active_sections"}
      /\ FirstStep(k) = "list" => k \in Reads \ {"active_menu", "active_sections"}
      /\ FirstStep(k) = "slug" => k = "create_venue"
      /\ FirstStep(k) = "exists" => k \in {"create_menu_item", "create_section"}
      /\ FirstStep(k) = "read" => k \in Updates
  BY TableOfIs DEF FirstStep, AllKinds, Reads, Creates
<1>3. a \in Arguments
  BY DEF Arguments
<1>4. r \in RequestStates
  <2>1. FirstStep(k) \in CatalogPCs
    BY <1>2 DEF CatalogPCs
  <2>2. QED
    BY <1>3, <2>1, IdleTyped DEF RequestStates
<1>5. req'[w] = r /\ r.pc = FirstStep(k) /\ r.kind = k /\ r.user = u /\ r.arg = a
  BY <1>1 DEF CatalogInv, CatalogTypeOK, Idle
<1> HIDE DEF r
<1>6. RequestInv(w)'
  BY <1>2, <1>5 DEF RequestInv, OnCourse, Located, Current, QuietAnswer
<1>7. QED
  BY <1>1, <1>4, <1>6, ReadStep

(* place_order and the reads: the venue of a key is looked up.              *)
LEMMA ReadVenueKeeps ==
    ASSUME CatalogInv, NEW w \in Workers, ReadVenue(w)
    PROVE  CatalogInv'
<1>1. CASE Finish(w)
  BY <1>1, FinishStep DEF ReadVenue
<1>2. ASSUME NEW v \in ActiveVenue(req[w].arg.key),
             req' = [req EXCEPT ![w] =
                       [req[w] EXCEPT !.venue = v, !.mode = db.Venues[v].mode,
                          !.pc = IF req[w].kind = "place_order" THEN "item" ELSE "list"]]
      PROVE  CatalogInv'
  <2> DEFINE p == IF req[w].kind = "place_order" THEN "item" ELSE "list"
             r == [req[w] EXCEPT !.venue = v, !.mode = db.Venues[v].mode, !.pc = p]
  <2>1. req[w] \in RequestStates /\ req[w].pc = "venue" /\ OnCourse(w)
    BY DEF ReadVenue, CatalogInv, CatalogTypeOK, RequestInv
  <2>2. v \in DOMAIN db.Venues /\ v \in VenueIds /\ db.Venues[v].mode \in Modes
    BY DEF ActiveVenue, CatalogInv, CatalogTypeOK, Tables, Ids, Rows, Venues
  <2>3. r \in RequestStates
    <3>1. p \in CatalogPCs
      BY DEF CatalogPCs
    <3> HIDE DEF p
    <3>2. QED
      BY <2>1, <2>2, <3>1 DEF RequestStates
  <2>4. req' = [req EXCEPT ![w] = r] /\ req'[w] = r
    BY <1>2 DEF CatalogInv, CatalogTypeOK
  <2>5. /\ r.venue = v /\ r.mode = db.Venues[v].mode
        /\ r.pc = IF req[w].kind = "place_order" THEN "item" ELSE "list"
        /\ r.kind = req[w].kind /\ r.user = req[w].user /\ r.arg = req[w].arg
    BY <2>1 DEF RequestStates
  <2>6. UNCHANGED db /\ writes' \in 0..MaxWrites
    BY DEF ReadVenue, CatalogInv, CatalogTypeOK
  <2> HIDE DEF r
  <2>7. RequestInv(w)'
    BY <2>1, <2>2, <2>4, <2>5, <2>6
    DEF RequestInv, OnCourse, Located, Current, QuietAnswer, ActiveVenue, Reads
  <2>8. QED
    BY <2>3, <2>4, <2>6, <2>7, ReadStep
<1>3. QED
  BY <1>1, <1>2 DEF ReadVenue

(* place_order: the item is read, on sale at the venue.                     *)
LEMMA ReadItemKeeps ==
    ASSUME CatalogInv, NEW w \in Workers, ReadItem(w)
    PROVE  CatalogInv'
<1>1. CASE Finish(w)
  BY <1>1, FinishStep DEF ReadItem
<1>2. CASE ~Finish(w)
  <2> DEFINE i == req[w].arg.item
             r == [req[w] EXCEPT !.pc = "section", !.item = i, !.price = db.MenuItems[i].price]
  <2>1. /\ req[w] \in RequestStates /\ req[w].pc = "item" /\ RequestInv(w)
        /\ OnSale(i, req[w].venue)
    BY <1>2 DEF ReadItem, CatalogInv, CatalogTypeOK
  <2>2. i \in DOMAIN db.MenuItems /\ i \in ItemIds /\ db.MenuItems[i].price \in Prices
    BY <2>1 DEF OnSale, CatalogInv, CatalogTypeOK, Tables, Ids, Rows, MenuItems
  <2>3. r \in RequestStates
    BY <2>1, <2>2 DEF RequestStates, CatalogPCs
  <2>4. req' = [req EXCEPT ![w] = r] /\ req'[w] = r
    BY <1>2 DEF ReadItem, CatalogInv, CatalogTypeOK
  <2>5. /\ r.item = i /\ r.price = db.MenuItems[i].price /\ r.pc = "section"
        /\ r.venue = req[w].venue /\ r.mode = req[w].mode /\ r.dirty = req[w].dirty
        /\ r.kind = req[w].kind /\ r.user = req[w].user /\ r.arg = req[w].arg
    BY <2>1 DEF RequestStates
  <2>6. UNCHANGED db /\ writes' \in 0..MaxWrites
    BY DEF ReadItem, CatalogInv, CatalogTypeOK
  <2> HIDE DEF r, i
  <2>7. RequestInv(w)'
    <3>1. OnCourse(w)'
      BY <2>1, <2>4, <2>5 DEF RequestInv, OnCourse
    <3>2. Located(w)'
      BY <2>1, <2>2, <2>4, <2>5, <2>6 DEF RequestInv, Located, OnSale
    <3>3. Current(w)'
      BY <2>1, <2>2, <2>4, <2>5, <2>6 DEF RequestInv, Current, ActiveVenue, OnSale
    <3>4. QED
      BY <2>4, <2>5, <3>1, <3>2, <3>3 DEF RequestInv, QuietAnswer
  <2>8. QED
    BY <2>3, <2>4, <2>6, <2>7, ReadStep
<1>3. QED
  BY <1>1, <1>2

(* place_order: the section is read, and with it the delivery mode.         *)
LEMMA ReadSectionKeeps ==
    ASSUME CatalogInv, NEW w \in Workers, ReadSection(w)
    PROVE  CatalogInv'
<1>1. CASE Finish(w)
  BY <1>1, FinishStep DEF ReadSection
<1>2. ASSUME NEW s \in Coded(req[w].venue, req[w].arg.code),
             req' = [req EXCEPT ![w] =
                       [req[w] EXCEPT !.pc = "order", !.section = s,
                                      !.delivery = db.VenueSections[s].delivery]]
      PROVE  CatalogInv'
  <2> DEFINE r == [req[w] EXCEPT !.pc = "order", !.section = s,
                                 !.delivery = db.VenueSections[s].delivery]
  <2>1. req[w] \in RequestStates /\ req[w].pc = "section" /\ RequestInv(w)
    BY DEF ReadSection, CatalogInv, CatalogTypeOK
  <2>2. /\ s \in SectionsOf(req[w].venue) /\ s \in SectionIds
        /\ db.VenueSections[s].delivery \in Flags
    BY DEF Coded, SectionsOf, CatalogInv, CatalogTypeOK, Tables, Ids, Rows, Sections
  <2>3. r \in RequestStates
    BY <2>1, <2>2 DEF RequestStates, CatalogPCs
  <2>4. req' = [req EXCEPT ![w] = r] /\ req'[w] = r
    BY <1>2 DEF CatalogInv, CatalogTypeOK
  <2>5. /\ r.section = s /\ r.delivery = db.VenueSections[s].delivery /\ r.pc = "order"
        /\ r.venue = req[w].venue /\ r.mode = req[w].mode /\ r.dirty = req[w].dirty
        /\ r.item = req[w].item /\ r.price = req[w].price
        /\ r.kind = req[w].kind /\ r.user = req[w].user /\ r.arg = req[w].arg
    BY <2>1 DEF RequestStates
  <2>6. UNCHANGED db /\ writes' \in 0..MaxWrites
    BY DEF ReadSection, CatalogInv, CatalogTypeOK
  <2> HIDE DEF r
  <2>7. RequestInv(w)'
    BY <1>2, <2>1, <2>2, <2>4, <2>5, <2>6
    DEF RequestInv, OnCourse, Located, Current, QuietAnswer, ActiveVenue, OnSale,
        Coded, SectionsOf
  <2>8. QED
    BY <2>3, <2>4, <2>6, <2>7, ReadStep
<1>3. QED
  BY <1>1, <1>2 DEF ReadSection

(* Fields that are replaced by others of their kind.                        *)
LEMMA RequestWith ==
    ASSUME NEW r \in RequestStates, NEW p \in CatalogPCs, NEW k \in AllKinds \cup {None},
           NEW u \in Users \cup {None}, NEW a \in Arguments, NEW v \in VenueIds \cup {None}
    PROVE  [r EXCEPT !.pc = p, !.kind = k, !.user = u, !.arg = a, !.venue = v] \in RequestStates
<1> DEFINE h == [r EXCEPT !.pc = p, !.kind = k]
           i == [h EXCEPT !.user = u]
           j == [i EXCEPT !.arg = a]
<1>1. h \in RequestStates
  BY DEF RequestStates
<1>2. i \in RequestStates
  <2> HIDE DEF h
  <2>1. QED
    BY <1>1 DEF RequestStates
<1>3. j \in RequestStates
  <2> HIDE DEF i
  <2>1. QED
    BY <1>2 DEF RequestStates
<1>4. [j EXCEPT !.venue = v] \in RequestStates
  <2> HIDE DEF j
  <2>1. QED
    BY <1>3 DEF RequestStates
<1>5. [j EXCEPT !.venue = v]
        = [r EXCEPT !.pc = p, !.kind = k, !.user = u, !.arg = a, !.venue = v]
  OBVIOUS
<1>6. QED
  BY <1>4, <1>5

(* What AnswerRead leaves of the request. *)
LEMMA AnswerIs ==
    ASSUME CatalogTypeOK, NEW w \in Workers, NEW answer, AnswerRead(w, answer),
           answer \subseteq VenueIds \cup ItemIds \cup SectionIds \cup OrderIds
    PROVE  \E r \in RequestStates :
              /\ req' = [req EXCEPT ![w] = r] /\ req'[w] = r
              /\ r.pc = "done" /\ r.seen = answer
              /\ r.kind = req[w].kind /\ r.user = req[w].user /\ r.arg = req[w].arg
              /\ r.venue = req[w].venue /\ r.dirty = req[w].dirty
<1> DEFINE r == [Idle EXCEPT !.pc = "done", !.kind = req[w].kind, !.user = req[w].user,
                             !.arg = req[w].arg, !.venue = req[w].venue,
                             !.seen = answer, !.dirty = req[w].dirty]
<1>1. req' = [req EXCEPT ![w] = r] /\ req'[w] = r
  BY DEF AnswerRead, CatalogTypeOK
<1>2. req[w] \in RequestStates /\ Idle \in RequestStates
  BY IdleTyped DEF CatalogTypeOK
<1>3. r \in RequestStates
  <2> DEFINE h == [Idle EXCEPT !.pc = "done", !.kind = req[w].kind, !.user = req[w].user,
                               !.arg = req[w].arg, !.venue = req[w].venue]
  <2>1. /\ req[w].kind \in AllKinds \cup {None} /\ req[w].user \in Users \cup {None}
        /\ req[w].arg \in Arguments /\ req[w].venue \in VenueIds \cup {None}
    BY <1>2 DEF RequestStates
  <2>2. "done" \in CatalogPCs
    BY DEF CatalogPCs
  <2>3. answer \in SUBSET (VenueIds \cup ItemIds \cup SectionIds \cup OrderIds)
    OBVIOUS
  <2>4. h \in RequestStates
    <3>1. \A k \in AllKinds \cup {None}, u \in Users \cup {None}, a \in Arguments,
             v \in VenueIds \cup {None} :
                [Idle EXCEPT !.pc = "done", !.kind = k, !.user = u, !.arg = a, !.venue = v]
                   \in RequestStates
      BY IdleTyped, <2>2, RequestWith
    <3>2. QED
      BY <2>1, <3>1
  <2>5. r = [h EXCEPT !.seen = answer, !.dirty = req[w].dirty]
    OBVIOUS
  <2> HIDE DEF h, r
  <2>6. QED
    BY <1>2, <2>3, <2>4, <2>5 DEF RequestStates
<1>4. /\ r.pc = "done" /\ r.seen = answer
      /\ r.kind = req[w].kind /\ r.user = req[w].user /\ r.arg = req[w].arg
      /\ r.venue = req[w].venue /\ r.dirty = req[w].dirty
  BY <1>2 DEF RequestStates
<1> HIDE DEF r
<1>5. QED
  BY <1>1, <1>3, <1>4

(* A read lists what its SELECT finds.                                      *)
LEMMA ListKeeps ==
    ASSUME CatalogInv, NEW w \in Workers, List(w)
    PROVE  CatalogInv'
<1>1. /\ CatalogTypeOK /\ RequestInv(w) /\ req[w].pc = "list" /\ req[w].kind \in Reads
      /\ AnswerRead(w, Listed(w)) /\ UNCHANGED db /\ writes' \in 0..MaxWrites
  BY DEF List, CatalogInv, CatalogTypeOK, RequestInv, OnCourse
<1>2. Listed(w) \subseteq VenueIds \cup ItemIds \cup SectionIds \cup OrderIds
  BY <1>1 DEF Listed, Reads, ActiveVenues, SectionsOf, FindOrder, CatalogTypeOK, Tables, Ids
<1>3. PICK r \in RequestStates :
         /\ req' = [req EXCEPT ![w] = r] /\ req'[w] = r
         /\ r.pc = "done" /\ r.seen = Listed(w)
         /\ r.kind = req[w].kind /\ r.user = req[w].user /\ r.arg = req[w].arg
         /\ r.venue = req[w].venue /\ r.dirty = req[w].dirty
  BY <1>1, <1>2, AnswerIs
<1>4. req[w].kind \in {"active_menu", "active_sections"} => Listed(w)' = Listed(w)
  <2>1. CASE req[w].kind = "active_menu"
    BY <1>1, <1>3, <2>1 DEF Listed, OnSale
  <2>2. CASE req[w].kind = "active_sections"
    BY <1>1, <1>3, <2>2 DEF Listed, SectionsOf
  <2>3. QED
    BY <2>1, <2>2
<1>5. req[w].kind # "place_order"
  BY <1>1 DEF Reads
<1>6. QuietAnswer(w)'
  BY <1>1, <1>3, <1>4, <1>5 DEF RequestInv, Current, QuietAnswer, ActiveVenue
<1>7. RequestInv(w)'
  BY <1>1, <1>3, <1>5, <1>6 DEF RequestInv, OnCourse, Located, Current
<1>8. QED
  BY <1>1, <1>3, <1>7, ReadStep

(* A slug with a suffix is another slug.                                    *)
LEMMA SuffixIsNew ==
    ASSUME NEW slug \in Slugs, NEW head \in Heads
    PROVE  Append(slug, head) # slug /\ Append(slug, head) \in AllSlugs
<1>1. slug \in Seq(Words) /\ head \in Words
  BY CatalogAssumption
<1>2. Len(Append(slug, head)) = Len(slug) + 1 /\ Len(slug) \in Nat
  BY <1>1
<1>3. QED
  BY <1>2 DEF AllSlugs

(* create_venue: the slug is looked up, and gets a suffix if it is taken.   *)
LEMMA CheckSlugKeeps ==
    ASSUME CatalogInv, NEW w \in Workers, NEW id \in VenueIds, NEW head \in Heads,
           CheckSlug(w, id, head)
    PROVE  CatalogInv'
<1> DEFINE asked == req[w].arg.slug
           slug == Suffixed(asked, head, Taken(asked))
           r == [req[w] EXCEPT !.pc = "insert", !.venue = id, !.slug = slug]
<1>1. /\ req[w] \in RequestStates /\ req[w].pc = "slug" /\ RequestInv(w)
      /\ req[w].kind = "create_venue" /\ req[w].arg \in Args("create_venue")
      /\ UNCHANGED db /\ writes' \in 0..MaxWrites
  BY DEF CheckSlug, CatalogInv, CatalogTypeOK, RequestInv, OnCourse
<1>2. asked \in Slugs
  <2>1. req[w].arg \in [slug : Slugs, mode : Modes, active : Flags]
    BY <1>1, ArgsAre
  <2>2. QED
    BY <2>1
<1>3. /\ slug \in AllSlugs
      /\ slug # asked <=> Taken(asked)
  <2> HIDE DEF asked
  <2>1. Append(asked, head) # asked /\ Append(asked, head) \in AllSlugs
    BY <1>2, SuffixIsNew
  <2>2. asked \in AllSlugs
    BY <1>2 DEF AllSlugs
  <2>3. CASE Taken(asked)
    BY <2>1, <2>3 DEF Suffixed
  <2>4. CASE ~Taken(asked)
    BY <2>2, <2>4 DEF Suffixed
  <2>5. QED
    BY <2>3, <2>4
<1>5. req' = [req EXCEPT ![w] = r] /\ req'[w] = r
  BY DEF CheckSlug, CatalogInv, CatalogTypeOK
<1> HIDE DEF slug
<1>6. r \in RequestStates
  BY <1>1, <1>3 DEF RequestStates, CatalogPCs
<1>7. /\ r.pc = "insert" /\ r.venue = id /\ r.slug = slug
      /\ r.kind = req[w].kind /\ r.user = req[w].user /\ r.arg = req[w].arg
  BY <1>1 DEF RequestStates
<1> HIDE DEF r
<1>8. RequestInv(w)'
  <2>1. OnCourse(w)' /\ QuietAnswer(w)'
    BY <1>1, <1>5, <1>7 DEF RequestInv, OnCourse, QuietAnswer
  <2>2. req'[w].slug # req'[w].arg.slug <=>
           \E v \in DOMAIN db'.Venues : db'.Venues[v].slug = req'[w].arg.slug
    BY <1>1, <1>3, <1>5, <1>7 DEF Taken
  <2>3. Located(w)'
    BY <1>1, <1>3, <1>5, <1>7, <2>2 DEF Located, Taken
  <2>4. Current(w)'
    BY <1>1, <1>5, <1>7, <2>2 DEF Current, Taken
  <2>5. QED
    BY <2>1, <2>3, <2>4 DEF RequestInv
<1>9. QED
  BY <1>1, <1>5, <1>6, <1>8, ReadStep

(* create_menu_item, create_section: the venue is looked up.                *)
LEMMA CheckVenueKeeps ==
    ASSUME CatalogInv, NEW w \in Workers, CheckVenue(w)
    PROVE  CatalogInv'
<1>1. CASE Finish(w)
  BY <1>1, FinishStep DEF CheckVenue
<1>2. CASE MoveOn(w, "insert")
  <2> DEFINE r == [req[w] EXCEPT !.pc = "insert"]
  <2>1. /\ req[w] \in RequestStates /\ req[w].pc = "exists" /\ RequestInv(w)
        /\ UNCHANGED db /\ writes' \in 0..MaxWrites
    BY DEF CheckVenue, CatalogInv, CatalogTypeOK
  <2>2. req' = [req EXCEPT ![w] = r] /\ req'[w] = r
    BY <1>2 DEF MoveOn, CatalogInv, CatalogTypeOK
  <2>3. r \in RequestStates
    BY <2>1 DEF RequestStates, CatalogPCs
  <2>4. /\ r.pc = "insert" /\ r.kind = req[w].kind /\ r.user = req[w].user
        /\ r.arg = req[w].arg
    BY <2>1 DEF RequestStates
  <2> HIDE DEF r
  <2>5. RequestInv(w)'
    BY <2>1, <2>2, <2>4 DEF RequestInv, OnCourse, Located, Current, QuietAnswer
  <2>6. QED
    BY <2>1, <2>2, <2>3, <2>5, ReadStep
<1>3. QED
  BY <1>1, <1>2 DEF CheckVenue

(* An update reads the row that it will write.                              *)
LEMMA ReadRowKeeps ==
    ASSUME CatalogInv, NEW w \in Workers, ReadRow(w)
    PROVE  CatalogInv'
<1>1. CASE Finish(w)
  BY <1>1, FinishStep DEF ReadRow
<1>2. CASE ~Finish(w)
  <2> DEFINE t == TableOf[req[w].kind]
             id == req[w].arg.id
             r == [req[w] EXCEPT !.pc = "write", !.row = db[t][id]]
  <2>1. /\ req[w] \in RequestStates /\ req[w].pc = "read" /\ RequestInv(w)
        /\ UNCHANGED db /\ writes' \in 0..MaxWrites /\ id \in DOMAIN db[t]
    BY <1>2 DEF ReadRow, CatalogInv, CatalogTypeOK
  <2>2. req' = [req EXCEPT ![w] = r] /\ req'[w] = r
    BY <1>2 DEF ReadRow, CatalogInv, CatalogTypeOK
  <2>3. req[w].kind \in Updates /\ t \in Tables
    BY <2>1, TableOfIs DEF RequestInv, OnCourse, Tables
  <2>4. db[t][id] \in Rows[t]
    BY <2>1, <2>3 DEF CatalogInv, CatalogTypeOK
  <2> HIDE DEF t
  <2>5. db[t][id] \in Venues \cup MenuItems \cup Sections
    BY <2>3, <2>4 DEF Tables, Rows
  <2> HIDE DEF id
  <2>6. r \in RequestStates
    <3>1. "write" \in CatalogPCs
      BY DEF CatalogPCs
    <3>2. db[t][id] \in Venues \cup MenuItems \cup Sections \cup {None}
      BY <2>5
    <3>3. QED
      BY <2>1, <3>1, <3>2 DEF RequestStates
  <2>7. /\ r.pc = "write" /\ r.kind = req[w].kind /\ r.user = req[w].user
        /\ r.arg = req[w].arg /\ r.row = db[t][id]
    BY <2>1 DEF RequestStates
  <2> HIDE DEF r
  <2>8. RequestInv(w)'
    BY <2>1, <2>2, <2>3, <2>4, <2>7
    DEF RequestInv, OnCourse, Located, Current, QuietAnswer, id, t
  <2>9. QED
    BY <2>1, <2>2, <2>6, <2>8, ReadStep
<1>3. QED
  BY <1>1, <1>2
------------------------------------------------------------------------------
(* A row that is written keeps the fixed column, or is new.  Every other    *)
(* request that has read something is marked as overtaken.                  *)
LEMMA WriteStep ==
    ASSUME CatalogInv, NEW w \in Workers, NEW t \in Tables, NEW id \in Ids[t],
           NEW new \in Rows[t], db' = [db EXCEPT ![t] = Put(@, id, new)],
           id \in DOMAIN db[t] => new[Fixed[t]] = db[t][id][Fixed[t]],
           Written(w), UNCHANGED writes, Distinct'
    PROVE  CatalogInv'
<1>0. CatalogTypeOK /\ t \in DOMAIN db /\ DOMAIN db = Tables \cup {"Orders"}
  BY DEF CatalogInv, CatalogTypeOK
<1>1. /\ DOMAIN db' = DOMAIN db
      /\ \A u \in DOMAIN db : u # t => db'[u] = db[u]
      /\ DOMAIN db'[t] = DOMAIN db[t] \cup {id}
      /\ \A x \in DOMAIN db[t] \cup {id} :
            db'[t][x] = IF x = id THEN new ELSE db[t][x]
  <2>1. db'[t] = Put(db[t], id, new)
    BY <1>0
  <2>2. DOMAIN db' = DOMAIN db /\ \A u \in DOMAIN db : u # t => db'[u] = db[u]
    OBVIOUS
  <2>3. QED
    BY <2>1, <2>2 DEF Put
<1>2. db'.Orders = db.Orders
  BY <1>0, <1>1 DEF Tables
<1>3. \A u \in Tables : \A x \in DOMAIN db[u] :
         x \in DOMAIN db'[u] /\ db'[u][x][Fixed[u]] = db[u][x][Fixed[u]]
  BY <1>0, <1>1
<1>4. RowsStay /\ OrdersStay
  BY <1>2, <1>3 DEF RowsStay, OrdersStay, Tables, Fixed
<1>5. \A v \in Workers :
         req'[v] = IF v = w THEN [Idle EXCEPT !.pc = "reread"]
                   ELSE IF Unread(v) THEN req[v]
                   ELSE [req[v] EXCEPT !.dirty = TRUE]
  BY DEF Written
<1>6. CatalogTypeOK'
  <2>1. \A u \in Tables : /\ DOMAIN db'[u] \subseteq Ids[u]
                          /\ \A x \in DOMAIN db'[u] : db'[u][x] \in Rows[u]
    BY <1>0, <1>1 DEF CatalogTypeOK
  <2>2. req' \in [Workers -> RequestStates]
    <3>1. [Idle EXCEPT !.pc = "reread"] \in RequestStates
      BY IdleTyped DEF RequestStates, CatalogPCs
    <3>2. ASSUME NEW r \in RequestStates PROVE [r EXCEPT !.dirty = TRUE] \in RequestStates
      BY DEF RequestStates
    <3>3. ASSUME NEW v \in Workers PROVE req'[v] \in RequestStates
      <4>1. req[v] \in RequestStates
        BY <1>0 DEF CatalogTypeOK
      <4>2. [req[v] EXCEPT !.dirty = TRUE] \in RequestStates
        BY <3>2, <4>1
      <4>3. QED
        BY <1>5, <3>1, <4>1, <4>2
    <3>4. QED
      BY <3>3 DEF Written
  <2>3. QED
    BY <1>0, <1>1, <1>2, <2>1, <2>2 DEF CatalogTypeOK
<1>7. OrdersFit'
  BY <1>2, <1>4 DEF CatalogInv, OrdersFit, OrderFits, SectionsOf, RowsStay
<1>8. ASSUME NEW v \in Workers PROVE RequestInv(v)'
  <2>1. CASE v = w
    BY <1>5, <2>1, IdleIsFine
  <2>2. CASE v # w
    <3>1. req[v] \in RequestStates /\ RequestInv(v)
      BY <1>0 DEF CatalogInv, CatalogTypeOK
    <3>2. \/ req'[v] = req[v] /\ Unread(v)
          \/ req'[v] = [req[v] EXCEPT !.dirty = TRUE]
      BY <1>5, <2>2
    <3>3. QED
      BY <1>4, <3>1, <3>2, RequestStays
  <2>3. QED
    BY <2>1, <2>2
<1>9. QED
  BY <1>6, <1>7, <1>8 DEF CatalogInv

(* A venue is inserted: its slug is new, or the INSERT fails.               *)
LEMMA InsertVenueKeeps ==
    ASSUME CatalogInv, NEW w \in Workers, InsertVenue(w)
    PROVE  CatalogInv'
<1>1. CASE Finish(w) /\ UNCHANGED db
  BY <1>1, FinishStep DEF InsertVenue
<1>2. CASE ~(Finish(w) /\ UNCHANGED db)
  <2> DEFINE new == [slug |-> req[w].slug, mode |-> req[w].arg.mode,
                     active |-> req[w].arg.active]
             id == req[w].venue
  <2>1. /\ \A v \in DOMAIN db.Venues : db.Venues[v].slug # req[w].slug
        /\ db' = [db EXCEPT !["Venues"] = Put(@, id, new)]
        /\ id \in VenueIds \ DOMAIN db.Venues
        /\ Written(w) /\ UNCHANGED writes
    BY <1>2 DEF InsertVenue, Free, Ids, Taken
  <2>2. /\ req[w].arg \in Args("create_venue")
        /\ req[w].slug \in AllSlugs
    BY DEF InsertVenue, CatalogInv, RequestInv, OnCourse, Located
  <2>3. req[w].arg \in [slug : Slugs, mode : Modes, active : Flags]
    BY <2>2, ArgsAre
  <2>5. new \in Venues
    BY <2>2, <2>3 DEF Venues
  <2>6. new \in Rows["Venues"] /\ id \in Ids["Venues"] /\ "Venues" \in Tables
    BY <2>1, <2>5 DEF Rows, Ids, Tables
  <2>7. /\ db'.VenueSections = db.VenueSections
        /\ DOMAIN db'.Venues = DOMAIN db.Venues \cup {id}
        /\ \A v \in DOMAIN db.Venues \cup {id} :
              db'.Venues[v] = IF v = id THEN new ELSE db.Venues[v]
    BY <2>1 DEF Put, CatalogInv, CatalogTypeOK, Tables
  <2>8. new.slug = req[w].slug
    OBVIOUS
  <2> HIDE DEF new, id
  <2>9. Distinct'
    BY <2>1, <2>7, <2>8 DEF CatalogInv, Distinct
  <2>10. QED
    BY <2>1, <2>6, <2>9, WriteStep
<1>3. QED
  BY <1>1, <1>2

(* An item is inserted, at a venue that is there.                           *)
LEMMA InsertItemKeeps ==
    ASSUME CatalogInv, NEW w \in Workers, NEW id \in ItemIds, InsertItem(w, id)
    PROVE  CatalogInv'
<1> DEFINE new == [venue |-> req[w].arg.venue, price |-> req[w].arg.price, active |-> 1]
<1>1. /\ db' = [db EXCEPT !["MenuItems"] = Put(@, id, new)]
      /\ id \notin DOMAIN db["MenuItems"]
      /\ Written(w) /\ UNCHANGED writes
  BY DEF InsertItem, Free
<1>2. req[w].arg \in [venue : VenueIds, price : Prices]
  BY ArgsAre DEF InsertItem, CatalogInv, RequestInv, OnCourse
<1>3. new \in MenuItems
  BY <1>2 DEF MenuItems, Flags
<1>4. new \in Rows["MenuItems"] /\ id \in Ids["MenuItems"] /\ "MenuItems" \in Tables
  BY <1>3 DEF Rows, Ids, Tables
<1> HIDE DEF new
<1>5. db'.VenueSections = db.VenueSections /\ db'.Venues = db.Venues
  BY <1>1 DEF CatalogInv, CatalogTypeOK, Tables
<1>6. Distinct'
  BY <1>5 DEF CatalogInv, Distinct
<1>7. QED
  BY <1>1, <1>4, <1>6, WriteStep

(* Two sections of a venue never get one code. *)
LEMMA SectionsStayDistinct ==
    ASSUME CatalogTypeOK, Distinct, NEW id, NEW new,
           db' = [db EXCEPT !["VenueSections"] = Put(@, id, new)],
           Coded(new.venue, new.code) \ {id} = {}
    PROVE  Distinct'
<1>1. /\ db'.Venues = db.Venues
      /\ DOMAIN db'.VenueSections = DOMAIN db.VenueSections \cup {id}
      /\ \A s \in DOMAIN db.VenueSections \cup {id} :
            db'.VenueSections[s] = IF s = id THEN new ELSE db.VenueSections[s]
  BY DEF Put, CatalogTypeOK, Tables
<1>2. \A s \in DOMAIN db.VenueSections :
         db.VenueSections[s].venue = new.venue /\ db.VenueSections[s].code = new.code => s = id
  BY DEF Coded, SectionsOf
<1>3. QED
  BY <1>1, <1>2 DEF Distinct

(* A section is inserted: its code is new at its venue, or the INSERT       *)
(* fails.                                                                   *)
LEMMA InsertSectionKeeps ==
    ASSUME CatalogInv, NEW w \in Workers, NEW id \in SectionIds, InsertSection(w, id)
    PROVE  CatalogInv'
<1>1. CASE Finish(w) /\ UNCHANGED db
  BY <1>1, FinishStep DEF InsertSection
<1>2. CASE ~(Finish(w) /\ UNCHANGED db)
  <2> DEFINE new == req[w].arg
  <2>1. /\ Coded(new.venue, new.code) = {}
        /\ db' = [db EXCEPT !["VenueSections"] = Put(@, id, new)]
        /\ id \notin DOMAIN db["VenueSections"]
        /\ Written(w) /\ UNCHANGED writes
    BY <1>2 DEF InsertSection, Free
  <2>2. new \in Sections
    BY ArgsAre DEF InsertSection, CatalogInv, RequestInv, OnCourse, Sections
  <2>3. /\ new \in Rows["VenueSections"] /\ id \in Ids["VenueSections"]
        /\ "VenueSections" \in Tables
    BY <2>2 DEF Rows, Ids, Tables
  <2> HIDE DEF new
  <2>4. Distinct'
    BY <2>1, SectionsStayDistinct DEF CatalogInv
  <2>5. QED
    BY <2>1, <2>3, <2>4, WriteStep
<1>3. QED
  BY <1>1, <1>2

(* The row that an update writes, to a row that is there. *)
LEMMA UpdateIs ==
    ASSUME CatalogInv, NEW w \in Workers, req[w].pc = "write",
           NEW t \in Tables, t = TableOf[req[w].kind]
    PROVE  LET id == req[w].arg.id
               new == Merge(req[w].row, req[w].arg.patch)
           IN /\ id \in Ids[t] /\ id \in DOMAIN db[t] /\ new \in Rows[t]
              /\ new[Fixed[t]] = db[t][id][Fixed[t]]
<1>1. /\ req[w].kind \in Updates /\ req[w].arg \in Args(req[w].kind)
      /\ req[w].arg.id \in DOMAIN db[t] /\ req[w].row \in Rows[t]
      /\ req[w].row[Fixed[t]] = db[t][req[w].arg.id][Fixed[t]]
  BY DEF CatalogInv, RequestInv, OnCourse, Located
<1>2. req[w].arg.patch \in Patches(t)
  <2>1. CASE req[w].kind = "update_venue"
    <3>1. req[w].arg \in [id : VenueIds, patch : Patches("Venues")]
      BY <1>1, <2>1, ArgsAre
    <3>2. t = "Venues"
      BY <2>1, TableOfIs
    <3>3. QED
      BY <3>1, <3>2
  <2>2. CASE req[w].kind = "update_menu_item"
    <3>1. req[w].arg \in [id : ItemIds, patch : Patches("MenuItems")]
      BY <1>1, <2>2, ArgsAre
    <3>2. t = "MenuItems"
      BY <2>2, TableOfIs
    <3>3. QED
      BY <3>1, <3>2
  <2>3. CASE req[w].kind = "update_section"
    <3>1. req[w].arg \in [id : SectionIds, patch : Patches("VenueSections")]
      BY <1>1, <2>3, ArgsAre
    <3>2. t = "VenueSections"
      BY <2>3, TableOfIs
    <3>3. QED
      BY <3>1, <3>2
  <2>4. QED
    BY <1>1, <2>1, <2>2, <2>3, TableOfIs
<1>3. req[w].arg.id \in Ids[t]
  BY <1>1 DEF CatalogInv, CatalogTypeOK
<1>4. QED
  BY <1>1, <1>2, <1>3, MergeIs

(* The row of a venue is written back, with its slug as it was.             *)
LEMMA UpdateVenueKeeps ==
    ASSUME CatalogInv, NEW w \in Workers, UpdateVenue(w)
    PROVE  CatalogInv'
<1> DEFINE id == req[w].arg.id
           new == Merge(req[w].row, req[w].arg.patch)
           t == "Venues"
<1>1. /\ db' = [db EXCEPT ![t] = Put(@, id, new)]
      /\ Written(w) /\ UNCHANGED writes
  BY DEF UpdateVenue, WriteRow
<1>2. /\ t \in Tables /\ id \in Ids[t] /\ id \in DOMAIN db[t] /\ new \in Rows[t]
      /\ new[Fixed[t]] = db[t][id][Fixed[t]]
  BY UpdateIs, TableOfIs DEF UpdateVenue, Tables
<1> HIDE DEF new, id
<1>3. new.slug = db.Venues[id].slug
  BY <1>2 DEF Fixed
<1>4. /\ db'.VenueSections = db.VenueSections
      /\ DOMAIN db'.Venues = DOMAIN db.Venues
      /\ \A v \in DOMAIN db.Venues :
            db'.Venues[v] = IF v = id THEN new ELSE db.Venues[v]
  BY <1>1, <1>2 DEF Put, CatalogInv, CatalogTypeOK, Tables
<1>5. Distinct'
  BY <1>3, <1>4 DEF CatalogInv, Distinct
<1>6. QED
  BY <1>1, <1>2, <1>5, WriteStep

(* The row of an item is written back, with its venue as it was.            *)
LEMMA UpdateMenuItemKeeps ==
    ASSUME CatalogInv, NEW w \in Workers, UpdateMenuItem(w)
    PROVE  CatalogInv'
<1> DEFINE id == req[w].arg.id
           new == Merge(req[w].row, req[w].arg.patch)
           t == "MenuItems"
<1>1. /\ db' = [db EXCEPT ![t] = Put(@, id, new)]
      /\ Written(w) /\ UNCHANGED writes
  BY DEF UpdateMenuItem, WriteRow
<1>2. /\ t \in Tables /\ id \in Ids[t] /\ id \in DOMAIN db[t] /\ new \in Rows[t]
      /\ new[Fixed[t]] = db[t][id][Fixed[t]]
  BY UpdateIs, TableOfIs DEF UpdateMenuItem, Tables
<1> HIDE DEF new, id
<1>3. db'.VenueSections = db.VenueSections /\ db'.Venues = db.Venues
  BY <1>1 DEF CatalogInv, CatalogTypeOK, Tables
<1>4. Distinct'
  BY <1>3 DEF CatalogInv, Distinct
<1>5. QED
  BY <1>1, <1>2, <1>4, WriteStep

(* The row of a section is written back, unless its code is taken.          *)
LEMMA UpdateSectionKeeps ==
    ASSUME CatalogInv, NEW w \in Workers, UpdateSection(w)
    PROVE  CatalogInv'
<1> DEFINE id == req[w].arg.id
           new == Merge(req[w].row, req[w].arg.patch)
           t == "VenueSections"
<1>1. CASE Finish(w) /\ UNCHANGED <<db, writes>>
  BY <1>1, FinishStep
<1>2. CASE ~(Finish(w) /\ UNCHANGED <<db, writes>>)
  <2>1. /\ db' = [db EXCEPT ![t] = Put(@, id, new)]
        /\ Coded(new.venue, new.code) \ {id} = {}
        /\ Written(w) /\ UNCHANGED writes
    BY <1>2 DEF UpdateSection, WriteRow
  <2>2. /\ t \in Tables /\ id \in Ids[t] /\ id \in DOMAIN db[t] /\ new \in Rows[t]
        /\ new[Fixed[t]] = db[t][id][Fixed[t]]
    BY UpdateIs, TableOfIs DEF UpdateSection, Tables
  <2> HIDE DEF new, id
  <2>3. Distinct'
    BY <2>1, SectionsStayDistinct DEF CatalogInv
  <2>4. QED
    BY <2>1, <2>2, <2>3, WriteStep
<1>3. QED
  BY <1>1, <1>2

(* The order is made of rows that belong together; when nobody wrote since  *)
(* the request began, of rows as they are.                                  *)
LEMMA PlaceOrderKeeps ==
    ASSUME CatalogInv, NEW w \in Workers, NEW id \in OrderIds, PlaceOrder(w, id)
    PROVE  CatalogInv'
<1> DEFINE r == req[w]
           new == [user |-> r.user, venue |-> r.venue, item |-> r.item,
                   section |-> r.section, code |-> r.arg.code, qty |-> r.arg.qty,
                   total |-> r.price * r.arg.qty,
                   deliver |-> SeatDelivery(r.mode, r.delivery)]
<1>1. /\ r \in RequestStates /\ r.pc = "order" /\ RequestInv(w) /\ CatalogTypeOK
      /\ id \notin DOMAIN db.Orders
      /\ db' = [db EXCEPT !.Orders = Put(@, id, new)]
      /\ AnswerRead(w, {id}) /\ UNCHANGED writes
  BY DEF PlaceOrder, CatalogInv, CatalogTypeOK
<1>2. /\ r.kind = "place_order" /\ r.user \in Users
      /\ r.arg \in [key : AllSlugs \cup VenueIds, item : ItemIds, code : Codes, qty : Qtys]
  BY <1>1, ArgsAre DEF RequestInv, OnCourse
<1>3. /\ r.venue \in DOMAIN db.Venues /\ r.mode \in Modes
      /\ r.item \in DOMAIN db.MenuItems /\ r.price \in Prices
      /\ db.MenuItems[r.item].venue = r.venue
      /\ r.section \in SectionsOf(r.venue) /\ r.delivery \in Flags
  BY <1>1 DEF RequestInv, Located
<1>4. r.venue \in VenueIds /\ r.item \in ItemIds /\ r.section \in SectionIds
  BY <1>1, <1>3 DEF CatalogTypeOK, Tables, Ids, SectionsOf
<1>5. new \in Orders
  <2>1. r.price \in Nat /\ r.arg.qty \in Nat
    <3>1. Prices \subseteq Nat /\ Qtys \subseteq Nat
      BY CatalogAssumption
    <3>2. QED
      BY <1>2, <1>3, <3>1
  <2>2. r.price * r.arg.qty \in Nat
    BY <2>1
  <2>3. SeatDelivery(r.mode, r.delivery) \in BOOLEAN
    BY DEF SeatDelivery
  <2>4. QED
    BY <1>2, <1>3, <1>4, <2>2, <2>3 DEF Orders
<1>6. /\ DOMAIN db' = DOMAIN db
      /\ \A t \in Tables : db'[t] = db[t]
      /\ CatalogueSame
      /\ DOMAIN db'.Orders = DOMAIN db.Orders \cup {id}
      /\ \A o \in DOMAIN db.Orders \cup {id} :
            db'.Orders[o] = IF o = id THEN new ELSE db.Orders[o]
  BY <1>1 DEF CatalogTypeOK, Tables, CatalogueSame, Put
<1>7. RowsStay /\ OrdersStay
  BY <1>1, <1>6 DEF RowsStay, OrdersStay, CatalogueSame
<1>8. {id} \subseteq VenueIds \cup ItemIds \cup SectionIds \cup OrderIds
  OBVIOUS
<1>9. PICK q \in RequestStates :
         /\ req' = [req EXCEPT ![w] = q] /\ req'[w] = q
         /\ q.pc = "done" /\ q.seen = {id}
         /\ q.kind = r.kind /\ q.user = r.user /\ q.arg = r.arg
         /\ q.venue = r.venue /\ q.dirty = r.dirty
  BY <1>1, <1>8, AnswerIs
<1>10. /\ new.user = r.user /\ new.venue = r.venue /\ new.item = r.item
       /\ new.section = r.section /\ new.total = r.price * r.arg.qty
       /\ new.deliver <=> SeatDelivery(r.mode, r.delivery)
  OBVIOUS
<1> HIDE DEF new
<1>11. CatalogTypeOK'
  BY <1>1, <1>5, <1>6, <1>9 DEF CatalogTypeOK
<1>12. Distinct' /\ OrdersFit'
  BY <1>3, <1>6, <1>10
  DEF CatalogInv, Distinct, OrdersFit, OrderFits, SectionsOf, CatalogueSame
<1>13. QuietAnswer(w)'
  <2>1. CASE ~r.dirty
    <3>1. /\ r.venue \in ActiveVenue(r.arg.key)
          /\ r.mode = db.Venues[r.venue].mode
          /\ OnSale(r.item, r.venue) /\ r.price = db.MenuItems[r.item].price
          /\ r.section \in Coded(r.venue, r.arg.code)
          /\ r.delivery = db.VenueSections[r.section].delivery
      BY <1>1, <2>1 DEF RequestInv, Current
    <3>2. new.deliver <=> \/ db.Venues[r.venue].mode = "all"
                          \/ /\ db.Venues[r.venue].mode = "premium"
                             /\ db.VenueSections[r.section].delivery = 1
      BY <1>3, <1>10, <3>1 DEF SeatDelivery, Modes
    <3>3. db'.Orders[id] = new
      BY <1>6
    <3>4. PICK order, key, code, qty : order = new /\ key = r.arg.key /\ code = r.arg.code
                                       /\ qty = r.arg.qty
      OBVIOUS
    <3>5. /\ order.venue \in ActiveVenue(key)'
          /\ order.section \in Coded(order.venue, code)'
          /\ db'.Venues[order.venue].active = 1 /\ db'.MenuItems[order.item].active = 1
      BY <1>6, <1>10, <3>1, <3>4 DEF CatalogueSame, ActiveVenue, Coded, SectionsOf, OnSale
    <3>6. order.total = db'.MenuItems[order.item].price * qty
      <4>1. order.total = db.MenuItems[order.item].price * qty
        BY <1>10, <3>1, <3>4
      <4>2. QED
        BY <1>6, <4>1 DEF CatalogueSame
    <3>7. order.deliver <=> \/ db'.Venues[order.venue].mode = "all"
                            \/ /\ db'.Venues[order.venue].mode = "premium"
                               /\ db'.VenueSections[order.section].delivery = 1
      BY <1>6, <1>10, <3>2, <3>4 DEF CatalogueSame
    <3>8. /\ req'[w].kind = "place_order" /\ req'[w].seen = {id}
          /\ req'[w].user = order.user /\ req'[w].arg.key = key
          /\ req'[w].arg.code = code /\ req'[w].arg.qty = qty
      BY <1>2, <1>9, <1>10, <3>4
    <3>9. db'.Orders[id] = order
      BY <3>3, <3>4
    <3>10. QED
      BY <3>5, <3>6, <3>7, <3>8, <3>9 DEF QuietAnswer
  <2>2. CASE r.dirty
    BY <1>9, <2>2 DEF QuietAnswer
  <2>3. QED
    BY <2>1, <2>2
<1>14. RequestInv(w)'
  BY <1>1, <1>2, <1>6, <1>9, <1>13 DEF RequestInv, OnCourse, Located, Current
<1>15. ASSUME NEW v \in Workers PROVE RequestInv(v)'
  <2>1. CASE v = w
    BY <1>14, <2>1
  <2>2. CASE v # w
    <3>1. req'[v] = req[v] /\ req[v] \in RequestStates /\ RequestInv(v)
      BY <1>9, <2>2 DEF CatalogInv, CatalogTypeOK
    <3>2. QED
      BY <1>6, <1>7, <3>1, RequestStays
  <2>3. QED
    BY <2>1, <2>2
<1>16. QED
  BY <1>11, <1>12, <1>15 DEF CatalogInv
------------------------------------------------------------------------------
(* The seed has its types, and its keys are distinct.                       *)
LEMMA CatalogInvInit == CatalogInit => CatalogInv
<1> SUFFICES ASSUME NEW v \in VenueIds, NEW i \in ItemIds, NEW s \in SectionIds,
                    NEW code \in Codes, NEW price \in SeedPrices,
                    NEW flag \in Flags,
                    db = [Venues |-> Put(<<>>, v, [slug |-> SeedSlug,
                                                   mode |-> "premium", active |-> 1]),
                          MenuItems |-> Put(<<>>, i, [venue |-> v, price |-> price,
                                                      active |-> 1]),
                          VenueSections |-> Put(<<>>, s, [venue |-> v, code |-> code,
                                                          delivery |-> flag]),
                          Orders |-> <<>>],
                    req = [w \in Workers |-> Idle],
                    writes = 0
             PROVE  CatalogInv
  BY DEF CatalogInit
<1>1. ASSUME NEW id, NEW new
      PROVE  DOMAIN Put(<<>>, id, new) = {id} /\ Put(<<>>, id, new)[id] = new
  <2>1. DOMAIN <<>> = {}
    OBVIOUS
  <2>2. Put(<<>>, id, new) = [x \in {id} |-> IF x = id THEN new ELSE <<>>[x]]
    BY <2>1, Zenon DEF Put
  <2>3. QED
    BY <2>2
<1>2. /\ DOMAIN db = Tables \cup {"Orders"}
      /\ DOMAIN db.Venues = {v} /\ DOMAIN db.MenuItems = {i} /\ DOMAIN db.VenueSections = {s}
      /\ DOMAIN db.Orders = {}
      /\ db.Venues[v] = [slug |-> SeedSlug, mode |-> "premium", active |-> 1]
      /\ db.MenuItems[i] = [venue |-> v, price |-> price, active |-> 1]
      /\ db.VenueSections[s] = [venue |-> v, code |-> code, delivery |-> flag]
  <2>1. /\ DOMAIN db = Tables \cup {"Orders"}
        /\ db.Orders = <<>>
        /\ db.Venues = Put(<<>>, v, [slug |-> SeedSlug, mode |-> "premium", active |-> 1])
        /\ db.MenuItems = Put(<<>>, i, [venue |-> v, price |-> price, active |-> 1])
        /\ db.VenueSections = Put(<<>>, s, [venue |-> v, code |-> code, delivery |-> flag])
    BY DEF Tables
  <2>2. DOMAIN db.Orders = {}
    BY <2>1
  <2>3. /\ DOMAIN db.Venues = {v}
        /\ db.Venues[v] = [slug |-> SeedSlug, mode |-> "premium", active |-> 1]
    <3> DEFINE new == [slug |-> SeedSlug, mode |-> "premium", active |-> 1]
    <3>1. db.Venues = Put(<<>>, v, new)
      BY <2>1
    <3> HIDE DEF new
    <3>2. DOMAIN db.Venues = {v} /\ db.Venues[v] = new
      BY <1>1, <3>1
    <3>3. QED
      BY <3>2 DEF new
  <2>4. /\ DOMAIN db.MenuItems = {i}
        /\ db.MenuItems[i] = [venue |-> v, price |-> price, active |-> 1]
    <3> DEFINE new == [venue |-> v, price |-> price, active |-> 1]
    <3>1. db.MenuItems = Put(<<>>, i, new)
      BY <2>1
    <3> HIDE DEF new
    <3>2. DOMAIN db.MenuItems = {i} /\ db.MenuItems[i] = new
      BY <1>1, <3>1
    <3>3. QED
      BY <3>2 DEF new
  <2>5. /\ DOMAIN db.VenueSections = {s}
        /\ db.VenueSections[s] = [venue |-> v, code |-> code, delivery |-> flag]
    BY <1>1, <2>1
  <2>6. QED
    BY <2>1, <2>2, <2>3, <2>4, <2>5
<1>3. CatalogTypeOK
  <2>1. \A t \in Tables : /\ DOMAIN db[t] \subseteq Ids[t]
                          /\ \A id \in DOMAIN db[t] : db[t][id] \in Rows[t]
    <3>1. /\ db.Venues[v] \in Venues /\ db.MenuItems[i] \in MenuItems
          /\ db.VenueSections[s] \in Sections
      BY <1>2, CatalogAssumption DEF Venues, MenuItems, Sections, AllSlugs, Modes, Flags
    <3>2. QED
      BY <1>2, <3>1 DEF Tables, Ids, Rows
  <2>2. req \in [Workers -> RequestStates]
    BY IdleTyped
  <2>3. QED
    BY <1>2, <2>1, <2>2, CatalogAssumption DEF CatalogTypeOK
<1>4. Distinct /\ OrdersFit
  BY <1>2 DEF Distinct, OrdersFit
<1>5. ASSUME NEW w \in Workers PROVE RequestInv(w)
  <2>1. req[w].pc = "idle"
    BY DEF Idle
  <2>2. QED
    BY <2>1 DEF RequestInv, OnCourse, Located, Current, QuietAnswer
<1>6. QED
  BY <1>3, <1>4, <1>5 DEF CatalogInv

(* Every step of the catalogue keeps the invariant.                         *)
LEMMA CatalogInvNext == CatalogInv /\ [CatalogNext]_catalogVars => CatalogInv'
<1> SUFFICES ASSUME CatalogInv, [CatalogNext]_catalogVars PROVE CatalogInv'
  OBVIOUS
<1>1. ASSUME NEW w \in Workers, ReRead(w) \/ Fail(w) \/ Reply(w)
      PROVE  CatalogInv'
  BY <1>1, FinishStep DEF ReRead, Fail, Reply
<1>2. CASE UNCHANGED catalogVars
  <2>1. UNCHANGED <<db, req, writes>>
    BY <1>2 DEF catalogVars
  <2>2. CatalogTypeOK' /\ Distinct' /\ OrdersFit' /\ RowsStay /\ OrdersStay /\ CatalogueSame
    BY <2>1, CatalogueStays DEF CatalogInv, CatalogTypeOK
  <2>3. ASSUME NEW v \in Workers PROVE RequestInv(v)'
    BY <2>1, <2>2, RequestStays DEF CatalogInv, CatalogTypeOK
  <2>4. QED
    BY <2>2, <2>3 DEF CatalogInv
<1>3. QED
  BY <1>1, <1>2, BeginKeeps, ReadVenueKeeps, ReadItemKeeps, ReadSectionKeeps, ListKeeps,
     PlaceOrderKeeps, CheckSlugKeeps, InsertVenueKeeps, CheckVenueKeeps, InsertItemKeeps,
     InsertSectionKeeps, ReadRowKeeps, UpdateVenueKeeps, UpdateMenuItemKeeps,
     UpdateSectionKeeps
  DEF CatalogNext

(* So it holds throughout.                                                  *)
LEMMA CatalogInvariance == CatalogSpec => []CatalogInv
BY CatalogInvInit, CatalogInvNext, PTL DEF CatalogSpec

(* Every table holds rows of its own kind, and a request what it may hold.  *)
THEOREM CatalogTypeCorrect == CatalogSpec => []CatalogTypeOK
<1>1. CatalogInv => CatalogTypeOK
  BY DEF CatalogInv
<1>2. QED
  BY <1>1, CatalogInvariance, PTL

(* An order's venue, item and section belong together, and what names them  *)
(* is unique, for any number of requests at once.                           *)
THEOREM OrdersKeepTheirVenue == CatalogSpec => []OrdersFitTheirVenue
<1>1. CatalogInv => OrdersFitTheirVenue
  <2> SUFFICES ASSUME CatalogInv PROVE OrdersFitTheirVenue
    OBVIOUS
  <2>1. ASSUME NEW v \in VenueIds, NEW c \in Codes
        PROVE  Cardinality(Coded(v, c)) <= 1
    <3>1. CASE Coded(v, c) = {}
      BY <3>1, FS_EmptySet
    <3>2. CASE Coded(v, c) # {}
      <4>1. PICK s : s \in Coded(v, c)
        BY <3>2
      <4>2. Coded(v, c) = {s}
        BY <4>1 DEF CatalogInv, Distinct, Coded, SectionsOf
      <4>3. QED
        BY <4>2, FS_Singleton
    <3>3. QED
      BY <3>1, <3>2
  <2>2. QED
    BY <2>1 DEF OrdersFitTheirVenue, CatalogInv, Distinct, OrdersFit, OrderFits
<1>2. QED
  BY <1>1, CatalogInvariance, PTL

(* Without an overlapping write, an answer is the catalogue's present state. *)
THEOREM QuietAnswersStayCurrent == CatalogSpec => []QuietAnswersAreCurrent
<1>1. CatalogInv => QuietAnswersAreCurrent
  BY DEF CatalogInv, RequestInv, QuietAnswersAreCurrent
<1>2. QED
  BY <1>1, CatalogInvariance, PTL

(* A column changes only where an update names it or another write came     *)
(* between its SELECT and its UPDATE: the row it read was current otherwise. *)
THEOREM ColumnsAreLostOnlyByOverlap == CatalogSpec => LostOnlyByOverlap
<1> DEFINE Explained(t, id, c) ==
              \E w \in Workers :
                 /\ req[w].pc = "write" /\ req'[w].pc = "reread"
                 /\ TableOf[req[w].kind] = t /\ req[w].arg.id = id
                 /\ c \in DOMAIN req[w].arg.patch \/ req[w].dirty
           Kept == \A t \in Tables : \A id \in DOMAIN db[t] :
                      /\ id \in DOMAIN db'[t]
                      /\ \A c \in DOMAIN db[t][id] :
                            db'[t][id][c] # db[t][id][c] => Explained(t, id, c)
<1>1. ASSUME \A t \in Tables : db'[t] = db[t] PROVE Kept
  BY <1>1
<1>2. ASSUME CatalogTypeOK, NEW t \in Tables, NEW id, id \notin DOMAIN db[t], NEW new,
             db' = [db EXCEPT ![t] = Put(@, id, new)]
      PROVE  Kept
  <2>1. \A u \in Tables : \A x \in DOMAIN db[u] : x \in DOMAIN db'[u] /\ db'[u][x] = db[u][x]
    BY <1>2 DEF CatalogTypeOK, Put
  <2>2. QED
    BY <2>1
<1>3. ASSUME CatalogInv, NEW w \in Workers, req[w].pc = "write",
             NEW t \in Tables, t = TableOf[req[w].kind], WriteRow(w, t)
      PROVE  Kept
  <2> DEFINE i == req[w].arg.id
             new == Merge(req[w].row, req[w].arg.patch)
  <2>1. /\ i \in DOMAIN db[t] /\ db' = [db EXCEPT ![t] = Put(@, i, new)]
        /\ CatalogTypeOK /\ Current(w)
    BY <1>3, UpdateIs DEF WriteRow, CatalogInv, RequestInv
  <2>2. \A u \in Tables : \A x \in DOMAIN db[u] :
           x \in DOMAIN db'[u] /\ (u # t \/ x # i => db'[u][x] = db[u][x])
    BY <2>1 DEF CatalogTypeOK, Put
  <2>3. db'[t][i] = new
    BY <2>1 DEF CatalogTypeOK, Put
  <2>4. req'[w].pc = "reread"
    BY <1>3 DEF WriteRow, Written, Idle
  <2>5. ASSUME NEW c \in DOMAIN db[t][i], db'[t][i][c] # db[t][i][c]
        PROVE  Explained(t, i, c)
    <3>1. CASE req[w].dirty
      BY <1>3, <2>4, <3>1
    <3>2. CASE ~req[w].dirty
      <4>1. req[w].row = db[t][i]
        BY <1>3, <2>1, <3>2 DEF Current
      <4>2. c \in DOMAIN req[w].arg.patch
        BY <2>3, <2>5, <4>1 DEF Merge
      <4>3. QED
        BY <1>3, <2>4, <4>2
    <3>3. QED
      BY <3>1, <3>2
  <2>6. QED
    BY <2>2, <2>5
<1>4. ASSUME CatalogInv, [CatalogNext]_catalogVars PROVE Kept
  <2>0. CatalogTypeOK /\ \A t \in Tables : t # "Orders"
    BY <1>4 DEF CatalogInv, Tables
  <2>1. CASE UNCHANGED db
    BY <1>1, <2>1
  <2>2. ASSUME NEW w \in Workers, NEW id \in OrderIds, PlaceOrder(w, id) PROVE Kept
    BY <1>1, <2>0, <2>2 DEF PlaceOrder, CatalogTypeOK
  <2>3. ASSUME NEW w \in Workers, InsertVenue(w), ~UNCHANGED db PROVE Kept
    BY <1>2, <2>0, <2>3 DEF InsertVenue, Free, Tables
  <2>4. ASSUME NEW w \in Workers, NEW id \in ItemIds, InsertItem(w, id) PROVE Kept
    BY <1>2, <2>0, <2>4 DEF InsertItem, Free, Tables
  <2>5. ASSUME NEW w \in Workers, NEW id \in SectionIds, InsertSection(w, id), ~UNCHANGED db
        PROVE  Kept
    BY <1>2, <2>0, <2>5 DEF InsertSection, Free, Tables
  <2>6. ASSUME NEW w \in Workers, UpdateVenue(w) PROVE Kept
    BY <1>3, <1>4, <2>6, TableOfIs DEF UpdateVenue, Tables
  <2>7. ASSUME NEW w \in Workers, UpdateMenuItem(w) PROVE Kept
    BY <1>3, <1>4, <2>7, TableOfIs DEF UpdateMenuItem, Tables
  <2>8. ASSUME NEW w \in Workers, UpdateSection(w), ~UNCHANGED db PROVE Kept
    BY <1>3, <1>4, <2>8, TableOfIs DEF UpdateSection, Tables
  <2> HIDE DEF Kept
  <2>9. ASSUME CatalogNext, ~UNCHANGED db PROVE Kept
    BY <2>2, <2>3, <2>4, <2>5, <2>6, <2>7, <2>8, <2>9
    DEF CatalogNext, Begin, ReadVenue, ReadItem, ReadSection, List, CheckSlug, CheckVenue,
        ReadRow, ReRead, Fail, Reply
  <2>10. CASE UNCHANGED catalogVars
    BY <2>1, <2>10 DEF catalogVars
  <2>11. QED
    BY <1>4, <2>1, <2>9, <2>10
<1>5. CatalogInv /\ [CatalogNext]_catalogVars => [Kept]_db
  BY <1>4
<1> HIDE DEF Kept
<1>6. CatalogSpec => [][Kept]_db
  BY <1>5, CatalogInvariance, PTL DEF CatalogSpec
<1>7. QED
  BY <1>6 DEF LostOnlyByOverlap, Kept

(* A venue gets a suffix only for a slug that another venue has, for good,  *)
(* and is refused under its own slug only when another write overtook it.   *)
THEOREM VenuesAreRefusedOnlyByOverlap == CatalogSpec => RefusedOnlyByOverlap
<1> DEFINE Fair == \A w \in Workers :
                      LET asked == req[w].arg.slug
                          slug == req[w].slug
                      IN InsertVenue(w) =>
                           /\ slug # asked => Taken(asked)
                           /\ req'[w].pc = "idle" => req[w].dirty \/ slug # asked
<1>1. ASSUME CatalogInv, NEW w \in Workers, InsertVenue(w)
      PROVE  /\ req[w].slug # req[w].arg.slug => Taken(req[w].arg.slug)
             /\ req'[w].pc = "idle" => req[w].dirty \/ req[w].slug # req[w].arg.slug
  <2>1. req[w].pc = "insert" /\ req[w].kind = "create_venue"
    BY <1>1 DEF InsertVenue
  <2>2. Located(w) /\ Current(w)
    BY <1>1 DEF CatalogInv, RequestInv
  <2>3. req[w].slug # req[w].arg.slug => Taken(req[w].arg.slug)
    BY <2>1, <2>2 DEF Located
  <2>4. ASSUME req'[w].pc = "idle"
        PROVE  req[w].dirty \/ req[w].slug # req[w].arg.slug
    <3>1. ~Written(w)
      BY <2>4 DEF Written, Idle
    <3>2. Taken(req[w].slug)
      BY <1>1, <3>1 DEF InsertVenue
    <3>3. QED
      BY <2>1, <2>2, <3>2 DEF Current
  <2>5. QED
    BY <2>3, <2>4
<1>2. CatalogInv => [Fair]_catalogVars
  BY <1>1
<1> HIDE DEF Fair
<1>3. CatalogSpec => [][Fair]_catalogVars
  BY <1>2, CatalogInvariance, PTL DEF CatalogSpec
<1>4. QED
  BY <1>3 DEF RefusedOnlyByOverlap, Fair
==============================================================================

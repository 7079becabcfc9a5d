-------------------------------- MODULE Usage --------------------------------
(***************************************************************************)
(* The free-tier quota: routes.rs usage over the usage_count and            *)
(* usage_reset_at columns of one user's row, which db.rs consume_usage and  *)
(* reset_usage_window change, each in one transaction.  The handler reads   *)
(* the row in a call of its own, and decides on what it read.               *)
(* require_auth and require_csrf have passed (module Session).              *)
(*                                                                          *)
(* The BEGIN, UPDATE and COMMIT of a transaction are one step, since it has *)
(* the write lock.  On a remote database (module Remote) the answer to its  *)
(* COMMIT may be lost, and a COMMIT that was given up on may be executed    *)
(* late: the handler answers 500 and the row changes all the same.          *)
(***************************************************************************)
EXTENDS Integers

CONSTANTS Requests,  \* HTTP workers that serve this user's requests
          Limits,    \* values of FREE_USAGE_LIMIT, fixed when the server starts
          Window,    \* USAGE_WINDOW_SECS, in ticks
          MaxTime,   \* bound: ticks of the clock
          MaxUntold  \* bound: COMMITs whose caller is not told

ASSUME UsageAssumption ==
    /\ Limits \subseteq Int
    /\ Window \in Nat \ {0} /\ MaxTime \in Nat /\ MaxUntold \in Nat

VARIABLES
    limit,       \* free_usage_limit
    remote,      \* is the database a libSQL server
    now,         \* the clock
    count,       \* Users: usage_count
    resetAt,     \* Users: usage_reset_at, or NoWindow
    pc, op,      \* per worker: where it is, and "check" or "track"
    seen,        \* per worker: the usage_reset_at it read
    opens,       \* per worker: the reset_at of the window it will open
    late,        \* server: the transaction whose COMMIT is still to come
    granted,     \* history: units admitted since the window was opened
    unheard,     \* history: units charged since then by a COMMIT whose
                 \* caller was not told
    untold       \* COMMITs so far whose caller was not told

config == <<limit, remote>>
quota == <<count, resetAt, granted, unheard>>
local == <<op, seen, opens>>
vars == <<config, now, quota, pc, local, late, untold>>

NoWindow == -1
Operations == {"check", "track"}
PCs == {"idle", "read", "decide", "reset", "consume"}
Times == {NoWindow} \cup Nat

(* A transaction: which one, whether a unit goes with the reset, and what   *)
(* its worker read and decided.                                             *)
Transactions == [kind : {"reset", "consume"}, cost : {0, 1}, seen : Times, opens : Times]
NoTx == [kind |-> "none", cost |-> 0, seen |-> NoWindow, opens |-> NoWindow]

Init ==
    /\ limit \in Limits /\ remote \in BOOLEAN
    /\ now = 0
    /\ count = 0
    /\ resetAt = NoWindow
    /\ pc = [r \in Requests |-> "idle"]
    /\ op = [r \in Requests |-> "check"]
    /\ seen = [r \in Requests |-> NoWindow]
    /\ opens = [r \in Requests |-> NoWindow]
    /\ late = NoTx
    /\ granted = 0 /\ unheard = 0 /\ untold = 0

Goto(r, label) == pc' = [pc EXCEPT ![r] = label]

(* The request is answered, and its locals are gone. *)
Answer(r) ==
    /\ Goto(r, "idle")
    /\ op' = [op EXCEPT ![r] = "check"]
    /\ seen' = [seen EXCEPT ![r] = NoWindow]
    /\ opens' = [opens EXCEPT ![r] = NoWindow]

(* resolve_usage, and the test on what it returns. *)
Elapsed(end) == end = NoWindow \/ now > end

(* The unit that an operation costs, and the transaction it is in. *)
Cost(r) == IF op[r] = "track" THEN 1 ELSE 0
Tx(r) == [kind |-> pc[r], cost |-> Cost(r), seen |-> seen[r], opens |-> opens[r]]
InTx(r) == pc[r] \in {"reset", "consume"}
------------------------------------------------------------------------------
(* Faults: plausible bugs, which the properties below must rule out. *)

(* Opening a window costs a unit, whatever the operation. *)
ResetAlwaysCharges(tx) == count' = 1 /\ resetAt' = tx.opens

(* now >= r instead of now > r. *)
DecideTooSoon(r) ==
    /\ pc[r] = "decide"
    /\ ~(op[r] = "track" /\ limit < 1)
    /\ IF seen[r] = NoWindow \/ now >= seen[r]
       THEN Goto(r, "reset") /\ opens' = [opens EXCEPT ![r] = now + Window]
       ELSE Goto(r, IF op[r] = "track" THEN "consume" ELSE "idle") /\ UNCHANGED opens
    /\ UNCHANGED <<config, now, quota, op, seen, late, untold>>
------------------------------------------------------------------------------
Tick ==
    /\ now < MaxTime
    /\ now' = now + 1
    /\ UNCHANGED <<config, quota, pc, local, late, untold>>

(* usage: the request is authorised and parsed. *)
Receive(r, o) ==
    /\ pc[r] = "idle"
    /\ op' = [op EXCEPT ![r] = o]
    /\ Goto(r, "read")
    /\ UNCHANGED <<config, now, quota, seen, opens, late, untold>>

(* usage: find_user.  A subscriber is answered without being counted, and   *)
(* an unknown user is refused; whether there is a subscription is the       *)
(* webhook's business, and may be different each time.                      *)
Read(r) ==
    /\ pc[r] = "read"
    /\ \/ Answer(r)
       \/ /\ Goto(r, "decide")
          /\ seen' = [seen EXCEPT ![r] = resetAt]
          /\ UNCHANGED <<op, opens>>
    /\ UNCHANGED <<config, now, quota, late, untold>>

(* usage: a limit below 1 refuses every unit. *)
RefuseAll(r) ==
    /\ pc[r] = "decide"
    /\ op[r] = "track" /\ limit < 1
    /\ Answer(r)
    /\ UNCHANGED <<config, now, quota, late, untold>>

(* usage: it takes the time, and chooses between a new window, a unit of    *)
(* the open one, and nothing.                                               *)
Decide(r) ==
    /\ pc[r] = "decide"
    /\ ~(op[r] = "track" /\ limit < 1)
    /\ \/ /\ Elapsed(seen[r])
          /\ Goto(r, "reset")
          /\ opens' = [opens EXCEPT ![r] = now + Window]
          /\ UNCHANGED <<op, seen>>
       \/ /\ ~Elapsed(seen[r]) /\ op[r] = "track"
          /\ Goto(r, "consume")
          /\ UNCHANGED <<op, seen, opens>>
       \/ /\ ~Elapsed(seen[r]) /\ op[r] = "check"
          /\ Answer(r)
    /\ UNCHANGED <<config, now, quota, late, untold>>

(* reset_usage_window: its UPDATE has no condition on the row. *)
ResetUsageWindow(tx) == count' = tx.cost /\ resetAt' = tx.opens

(* consume_usage: the UPDATE has the limit in its condition; no row changed *)
(* is a refusal.                                                            *)
ConsumeUsage ==
    /\ count' = IF count < limit THEN count + 1 ELSE count
    /\ UNCHANGED resetAt

(* The units that a transaction admits. *)
Admits(tx) == IF tx.kind = "reset" THEN tx.cost ELSE IF count < limit THEN 1 ELSE 0

(* A transaction is committed, and its caller hears of it or does not.  The *)
(* histories start anew only if the stored window is over.                  *)
Commit(tx, heard) ==
    LET kept(h) == IF tx.kind = "reset" /\ Elapsed(resetAt) THEN 0 ELSE h
    IN /\ IF tx.kind = "reset" THEN ResetUsageWindow(tx) ELSE ConsumeUsage
       /\ granted' = kept(granted) + (IF heard THEN Admits(tx) ELSE 0)
       /\ unheard' = kept(unheard) + (IF heard THEN 0 ELSE Admits(tx))

Untold == untold < MaxUntold /\ untold' = untold + 1

(* A worker's transaction gets the write lock, and the handler answers. *)
Transact(r) ==
    /\ InTx(r) /\ late = NoTx
    /\ Commit(Tx(r), TRUE)
    /\ Answer(r)
    /\ UNCHANGED <<config, now, late, untold>>

(* The transaction is committed and the answer to COMMIT is lost: 500. *)
AnswerLost(r) ==
    /\ remote /\ InTx(r) /\ late = NoTx /\ Untold
    /\ Commit(Tx(r), FALSE)
    /\ Answer(r)
    /\ UNCHANGED <<config, now, late>>

(* The call times out with its COMMIT under way: 500.  The session drops    *)
(* the baton, so that the ROLLBACK that follows is sent on no stream, and   *)
(* the stream keeps the write lock.                                         *)
CommitDelayed(r) ==
    /\ remote /\ InTx(r) /\ late = NoTx /\ Untold
    /\ late' = Tx(r)
    /\ Answer(r)
    /\ UNCHANGED <<config, now, quota>>

(* Then the server executes the COMMIT, or the stream expires. *)
LateCommit ==
    /\ late # NoTx
    /\ Commit(late, FALSE)
    /\ late' = NoTx
    /\ UNCHANGED <<config, now, pc, local, untold>>

Expire ==
    /\ late # NoTx
    /\ late' = NoTx
    /\ UNCHANGED <<config, now, quota, pc, local, untold>>

(* A database call fails and is rolled back, or waits too long for the      *)
(* write lock: 500.                                                         *)
Fails(r) ==
    /\ pc[r] \in {"read", "reset", "consume"}
    /\ Answer(r)
    /\ UNCHANGED <<config, now, quota, late, untold>>

(* The process is killed, and comes back with the same limit. *)
Stop ==
    /\ pc' = [r \in Requests |-> "idle"]
    /\ op' = [r \in Requests |-> "check"]
    /\ seen' = [r \in Requests |-> NoWindow]
    /\ opens' = [r \in Requests |-> NoWindow]
    /\ UNCHANGED <<config, now, late>>

Crash == (\E r \in Requests : pc[r] # "idle") /\ Stop /\ UNCHANGED <<quota, untold>>

(* It is killed after a COMMIT and before the handler hears of it. *)
CrashAfterCommit(r) ==
    /\ InTx(r) /\ late = NoTx /\ Untold
    /\ Commit(Tx(r), FALSE)
    /\ Stop
------------------------------------------------------------------------------
Next ==
    \/ Tick
    \/ \E r \in Requests :
          \/ \E o \in Operations : Receive(r, o)
          \/ Read(r) \/ RefuseAll(r) \/ Decide(r)
          \/ Transact(r) \/ AnswerLost(r) \/ CommitDelayed(r) \/ Fails(r)
          \/ CrashAfterCommit(r)
    \/ LateCommit \/ Expire \/ Crash

Spec == Init /\ [][Next]_vars
------------------------------------------------------------------------------
TypeOK ==
    /\ limit \in Limits /\ remote \in BOOLEAN
    /\ now \in 0..MaxTime
    /\ count \in Nat /\ granted \in Nat /\ unheard \in Nat /\ untold \in Nat
    /\ resetAt \in Times
    /\ pc \in [Requests -> PCs]
    /\ op \in [Requests -> Operations]
    /\ seen \in [Requests -> Times]
    /\ opens \in [Requests -> Times]
    /\ late \in Transactions \cup {NoTx}

(* However requests interleave at the boundary, and whatever commits late,  *)
(* the stored count stays within the limit, a limit of zero or less         *)
(* included.                                                                *)
CountWithinLimit == count <= limit \/ count = 0

(* A unit is charged for a request that was let through, or for one that    *)
(* was answered 500 because its COMMIT was executed and it did not hear of  *)
(* it; a reset that fails, or one that two requests do, charges none twice. *)
(* So nobody is refused who has not been given the whole limit, less what   *)
(* lost answers and a crash have cost, since the window was opened.         *)
ChargesAreAccounted == count <= granted + unheard

(* Both, at every step of every interleaving. *)
CountIsSound == CountWithinLimit /\ ChargesAreAccounted

(* The transactions that are decided on, and those that are carried out.    *)
Pending == {Tx(r) : r \in Requests} \cup {late}

CarriedOut(tx) ==
    \/ \E r \in Requests :
          /\ tx = Tx(r)
          /\ Transact(r) \/ AnswerLost(r) \/ CrashAfterCommit(r)
    \/ tx = late /\ LateCommit

(* A window that is still open is reset only by a transaction whose reading *)
(* of the row is out of date, however late it is carried out: requests that *)
(* do not overlap erase nothing.                                            *)
OverlapNeededToErase ==
    [][\A tx \in Pending :
          CarriedOut(tx) /\ tx.kind = "reset" /\ ~Elapsed(resetAt)
              => tx.seen # resetAt]_vars
------------------------------------------------------------------------------
(* What the comment in usage and the one on reset_usage_window set out to   *)
(* prevent, and the code does not: that an increment of a concurrent        *)
(* request is erased by a reset.                                            *)
GrantsAreNotErased == granted <= count

(* What follows from the comment on Pool::transaction, that it is rolled    *)
(* back if the commit fails, and does not hold of a remote database, nor    *)
(* over a crash: no unit is charged for a request that was not granted.     *)
NothingIsChargedInVain == count <= granted
==============================================================================

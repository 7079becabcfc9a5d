------------------------------- MODULE Remote -------------------------------
(***************************************************************************)
(* The database on a shared libSQL server: the Hrana sessions of hrana.rs,  *)
(* Pool::transaction over one, and the start-up that creates, widens and    *)
(* seeds the schema (open_remote_with_retry, ensure_schema_remote,          *)
(* seed_if_empty).  Several processes start and work at once.               *)
(*                                                                          *)
(* A statement is one POST, and one step: sending it and hearing of it      *)
(* touch nothing but the session.  It may be lost, be executed and its      *)
(* answer lost, or be executed long after the client gave up.  The server   *)
(* is modelled from what the client relies on: a stream per baton, each     *)
(* baton accepted once, one writer at a time, an idle stream expires.       *)
(*                                                                          *)
(* A process has one session here.  Groups of rows that are written by one  *)
(* run of like statements are one row: "create" for the tables, "alter" for *)
(* a column an older database lacks, "venue" and "menu" for the seed,       *)
(* "user" and "auth" for the account a process creates.                     *)
(***************************************************************************)
EXTENDS Integers, FiniteSets

CONSTANTS Procs, Users, Streams, None,   \* Users: the processes that create an account
    MaxLate   \* bound: statements given up on and not yet executed

ASSUME RemoteAssumption ==
    /\ Users \subseteq Procs /\ IsFiniteSet(Procs) /\ IsFiniteSet(Streams) /\ MaxLate \in Nat
    /\ None \notin Procs \cup Streams

VARIABLES
    sess,    \* per process: what it does, and its Session
    late,    \* statements given up on that the server may still get
    streams, \* server: per stream, its next baton and its transaction
    lock,    \* server: the stream that may write
    data,    \* server: the rows committed
    acked,   \* history: the processes whose account was acknowledged
    calm     \* the environment: from here on nothing goes wrong

remoteVars == <<sess, late, streams, lock, data, acked, calm>>

InTx == {"venue", "menu", "user", "auth"}
Writes == InTx \cup {"create", "alter"}
Stmts == Writes \cup {"info", "index", "probe", "begin", "commit", "rollback"}
Rows == (Writes \ {"user", "auth"}) \X {None} \cup {"user", "auth"} \X Users

Batons == [stream : Streams, n : {0, 1}]
NoBaton == [stream |-> None, n |-> 0]
Stream == [open : BOOLEAN, n : {0, 1}, tx : BOOLEAN, pend : SUBSET Rows]
Closed == [open |-> FALSE, n |-> 0, tx |-> FALSE, pend |-> {}]
(* by: whose account the statement is about. *)
Messages == [by : Procs, at : Stmts, baton : Batons \cup {NoBaton}, close : BOOLEAN]

(* run: "down" before start-up and between its attempts.  at: the statement *)
(* to send.                                                                 *)
Down == [run |-> "down", at |-> "none", baton |-> NoBaton]

RemoteInit ==
    /\ sess = [p \in Procs |-> Down]
    /\ late = {}
    /\ streams = [s \in Streams |-> Closed] /\ lock = None
    /\ data \in {{}, {<<"create", None>>}}   \* a new database, or one with an old table
    /\ acked = {} /\ calm = FALSE

(* statement_kind *)
Kind(at) == CASE at = "begin" -> "Begin" [] at \in {"commit", "rollback"} -> "End"
              [] OTHER -> "Stmt"
------------------------------------------------------------------------------
(* Faults: plausible bugs, which the properties below must rule out. *)

(* The baton of BEGIN is not kept. *)
NextBatonNever(at, close, heard, ok, given) == NoBaton

(* The baton is kept from the response whatever the statement was. *)
NextBatonAlways(at, close, heard, ok, given) == IF heard THEN given ELSE NoBaton

(* An index that the data violates fails start-up. *)
RecoversSeldom(at, violates) ==
    IF at \in InTx \cup {"commit"} THEN "rollback" ELSE "none"

(* COMMIT is taken for done when it has been sent. *)
AckUnheard(p) ==
    /\ sess[p].at # "none"
    /\ acked' = IF sess[p].at = "commit" /\ sess[p].run = "tx"
                THEN acked \cup {p} ELSE acked
    /\ sess' = [sess EXCEPT ![p] = [Down EXCEPT !.run = "ready"]]
    /\ UNCHANGED <<late, streams, lock, data, calm>>

------------------------------------------------------------------------------
Unique == {"venue", "user", "alter"}   \* a second one is an error

(* next_baton: used batons are dropped, and so is every baton once the      *)
(* stream is closed, or BEGIN or the transport has failed.                  *)
NextBaton(at, close, heard, ok, given) ==
    IF close \/ Kind(at) = "End" \/ (at = "begin" /\ ~ok) \/ ~heard
    THEN NoBaton ELSE given

(* ensure_schema_remote, ensure_fanfood, add_missing_columns, seed_if_empty *)
(* and transaction: what follows a statement that went well.                *)
Follows(run, at, found) ==
    CASE at = "create" -> "info"
      [] at = "info" -> IF found THEN "index" ELSE "alter"
      [] at = "alter" -> "index"
      [] at = "index" -> "probe"
      [] at = "probe" -> IF found THEN "none" ELSE "begin"
      [] at = "begin" -> IF run = "tx" THEN "user" ELSE "venue"
      [] at = "venue" -> "menu"
      [] at = "user" -> "auth"
      [] at \in {"menu", "auth"} -> "commit"
      [] OTHER -> "none"

(* What follows one that failed: a unique index that the data violates is   *)
(* skipped; an open transaction is rolled back.                             *)
Recovers(at, violates) ==
    CASE at = "index" /\ violates -> "probe"
      [] at \in InTx \cup {"commit"} -> "rollback"
      [] OTHER -> "none"

(* execute: the pipeline that goes out closes the stream, unless a          *)
(* transaction begins or goes on.                                           *)
Message(p) ==
    LET s == sess[p]
    IN [by |-> p, at |-> s.at, baton |-> s.baton,
        close |-> CASE Kind(s.at) = "Begin" -> FALSE
                    [] Kind(s.at) = "End" -> TRUE
                    [] OTHER -> s.baton = NoBaton]

(* The session after the answer to its statement, or the lack of one.       *)
(* Start-up that fails begins anew; a transaction leaves the process ready. *)
AfterAnswer(p, heard, ok, found, violates, given) ==
    LET s == sess[p]
        next == IF ok THEN Follows(s.run, s.at, found) ELSE Recovers(s.at, violates)
        opened == ok /\ s.at # "rollback"
        baton == NextBaton(s.at, Message(p).close, heard, ok, given)
        over == IF s.run = "tx" \/ opened THEN [Down EXCEPT !.run = "ready"] ELSE Down
    IN /\ sess' = [sess EXCEPT ![p] =
                     IF next = "none" THEN [over EXCEPT !.baton = baton]
                     ELSE [s EXCEPT !.at = next, !.baton = baton]]
       /\ acked' = IF s.run = "tx" /\ s.at = "commit" /\ ok THEN acked \cup {p} ELSE acked

(* open_remote, or open_remote_with_retry once more: new sessions. *)
Start(p) ==
    /\ sess[p] = Down
    /\ sess' = [sess EXCEPT ![p].run = "opening", ![p].at = "create"]
    /\ UNCHANGED <<late, streams, lock, data, acked, calm>>

(* create_account: Pool::transaction. *)
Transact(p) ==
    /\ p \in Users /\ sess[p].run = "ready"
    /\ sess' = [sess EXCEPT ![p].run = "tx", ![p].at = "begin"]
    /\ UNCHANGED <<late, streams, lock, data, acked, calm>>

------------------------------------------------------------------------------
(* The server (external): a statement is executed on the stream its baton   *)
(* names, or on a new one, which is none that a baton still names.          *)
Named(s) == \/ \E p \in Procs : sess[p].baton.stream = s
            \/ \E m \in late : m.baton.stream = s
Fresh == {s \in Streams : ~streams[s].open /\ ~Named(s)}

StreamOf(m) == IF m.baton # NoBaton THEN m.baton.stream
               ELSE IF m.close THEN None   \* closed as soon as it is opened
               ELSE CHOOSE s \in Fresh : TRUE
CanExec(m) == m.baton # NoBaton \/ m.close \/ Fresh # {}
Was(m) == IF m.baton = NoBaton THEN Closed ELSE streams[m.baton.stream]
Valid(m) == m.baton = NoBaton \/ (Was(m).open /\ Was(m).n = m.baton.n)

(* A table that is created has all its columns. *)
RowsOf(m) == CASE m.at \in {"user", "auth"} -> {<<m.at, m.by>>}
               [] m.at = "create" -> IF <<"create", None>> \in data THEN {}
                                     ELSE {<<"create", None>>, <<"alter", None>>}
               [] m.at \in {"alter", "venue", "menu"} -> {<<m.at, None>>}
               [] OTHER -> {}

Accepts(m) ==
    /\ Valid(m)
    /\ RowsOf(m) # {} \/ m.at = "begin" => lock \in {None, m.baton.stream}
    /\ m.at \in Unique => RowsOf(m) \cap (data \cup Was(m).pend) = {}
    /\ Kind(m.at) = "End" => Was(m).tx
    /\ m.at = "begin" => ~Was(m).tx

Found(m) == \/ m.at = "info" /\ <<"alter", None>> \in data
            \/ m.at = "probe" /\ <<"venue", None>> \in data

(* What becomes of the stream, of the lock and of the data when m is        *)
(* executed and goes well (ok) or not.                                      *)
InTxAfter(m, ok) == IF ok THEN m.at = "begin" \/ (Was(m).tx /\ Kind(m.at) # "End")
                    ELSE Was(m).tx
Wrote(m, ok) == IF ok THEN RowsOf(m) ELSE {}
After(m, ok) ==
    IF m.close THEN Closed
    ELSE [open |-> TRUE, n |-> 1 - Was(m).n, tx |-> InTxAfter(m, ok),
          pend |-> IF InTxAfter(m, ok) THEN Was(m).pend \cup Wrote(m, ok) ELSE {}]
Given(m, ok) == IF Valid(m) /\ ~m.close
                THEN [stream |-> StreamOf(m), n |-> After(m, ok).n] ELSE NoBaton

Exec(m, ok) ==
    /\ CanExec(m) /\ ok = Accepts(m)
    /\ IF ~Valid(m) THEN UNCHANGED <<streams, lock, data>>
       ELSE /\ streams' = IF StreamOf(m) = None THEN streams
                          ELSE [streams EXCEPT ![StreamOf(m)] = After(m, ok)]
            /\ lock' = IF After(m, ok).tx THEN StreamOf(m)
                       ELSE IF lock = StreamOf(m) THEN None ELSE lock
            /\ data' = data \cup (IF ok /\ m.at = "commit" THEN Was(m).pend
                                  ELSE IF InTxAfter(m, ok) THEN {} ELSE Wrote(m, ok))

(* A statement is executed and its answer arrives.  An index may turn out   *)
(* to be violated by data from elsewhere.                                   *)
Answered(p) ==
    /\ sess[p].at # "none"
    /\ \E ok \in BOOLEAN :
          /\ Exec(Message(p), ok)
          /\ \/ AfterAnswer(p, TRUE, ok, Found(Message(p)), FALSE, Given(Message(p), ok))
             \/ /\ sess[p].at = "index"
                /\ AfterAnswer(p, TRUE, FALSE, FALSE, TRUE, Given(Message(p), ok))
    /\ UNCHANGED <<late, calm>>

(* What becomes of a statement whose answer is not heard: it is lost, it    *)
(* has been executed, or it will be.  One that only reads is as good as     *)
(* lost.                                                                    *)
Unheard(m) ==
    \/ UNCHANGED <<late, streams, lock, data>>
    \/ (\E ok \in BOOLEAN : Exec(m, ok)) /\ UNCHANGED late
    \/ /\ m.at \in Writes \cup {"begin", "commit", "rollback"}
       /\ Cardinality(late) < MaxLate
       /\ late' = late \cup {m}
       /\ UNCHANGED <<streams, lock, data>>

ExecutedLate(m) ==
    /\ \E ok \in BOOLEAN : Exec(m, ok)
    /\ late' = late \ {m}
    /\ UNCHANGED <<sess, acked, calm>>

(* A stream expires, and its transaction is rolled back. *)
Expire(s) ==
    /\ streams[s].open
    /\ calm => \A p \in Procs : sess[p].baton.stream # s
    /\ streams' = [streams EXCEPT ![s] = Closed]
    /\ lock' = IF lock = s THEN None ELSE lock
    /\ UNCHANGED <<sess, late, data, acked, calm>>
------------------------------------------------------------------------------
(* post_json fails: no connection, no answer in time, or not 200. *)
TransportFails(p) ==
    /\ ~calm /\ sess[p].at # "none"
    /\ AfterAnswer(p, FALSE, FALSE, FALSE, FALSE, NoBaton)
    /\ Unheard(Message(p)) /\ UNCHANGED calm

Crash(p) ==
    /\ ~calm /\ sess[p] # Down
    /\ sess' = [sess EXCEPT ![p] = Down]
    /\ IF sess[p].at = "none" THEN UNCHANGED <<late, streams, lock, data>>
       ELSE Unheard(Message(p))
    /\ UNCHANGED <<acked, calm>>

(* Nothing goes wrong any more: what follows is start-up and work alone. *)
Calm == ~calm /\ calm' = TRUE /\ UNCHANGED <<sess, late, streams, lock, data, acked>>

RemoteNext ==
    \/ \E p \in Procs :
          \/ Start(p) \/ Transact(p) \/ Answered(p) \/ TransportFails(p) \/ Crash(p)
    \/ \E m \in late : ExecutedLate(m)
    \/ \E s \in Streams : Expire(s)
    \/ Calm

RemoteSpec == RemoteInit /\ [][RemoteNext]_remoteVars

(* Start-up is retried, statements are sent and answered, streams expire.   *)
RemoteFairSpec ==
    /\ RemoteSpec
    /\ \A p \in Procs : WF_remoteVars(Start(p) \/ Answered(p))
    /\ WF_remoteVars(\E m \in late : ExecutedLate(m))
    /\ \A s \in Streams : WF_remoteVars(Expire(s))
------------------------------------------------------------------------------
Sessions == [run : {"down", "opening", "ready", "tx"}, at : Stmts \cup {"none"},
             baton : Batons \cup {NoBaton}]

RemoteTypeOK ==
    /\ sess \in [Procs -> Sessions]
    /\ late \subseteq Messages
    /\ streams \in [Streams -> Stream]
    /\ lock \in Streams \cup {None}
    /\ data \subseteq Rows /\ acked \subseteq Procs /\ calm \in BOOLEAN

(* The seed and an account are there as a whole or not at all, whichever    *)
(* statement, answer or process is lost on the way: no statement of a       *)
(* transaction is ever executed outside of it.                              *)
WholeOrNothing ==
    /\ <<"venue", None>> \in data <=> <<"menu", None>> \in data
    /\ \A p \in Users : <<"user", p>> \in data <=> <<"auth", p>> \in data

(* An account that was acknowledged is there: what ImplementsAtomicData     *)
(* says of accounts, as an invariant.                                       *)
AckedIsKept == \A p \in acked : <<"user", p>> \in data

(* A session that is not in a transaction holds no baton: the next caller   *)
(* of the pooled connection never joins a transaction, and never sends a    *)
(* baton that is used up.                                                   *)
SessionsRestClean ==
    \A p \in Procs :
        sess[p].at \in {"none", "create", "info", "alter", "index", "probe", "begin"}
            => sess[p].baton = NoBaton

(* Once nothing is lost, crashes or expires under way, every process comes  *)
(* up, though they create, widen and seed the same database at once.        *)
EveryoneStarts ==
    \A p \in Procs : calm ~> (sess[p].run = "ready")
------------------------------------------------------------------------------
(* All processes together implement a database that changes whole           *)
(* transactions at a time.                                                  *)
Atomic == INSTANCE AtomicData

ImplementsAtomicData == Atomic!Spec
------------------------------------------------------------------------------
(* What the comment on Pool::transaction says: it is rolled back if the     *)
(* commit fails.  A COMMIT whose answer is lost fails, and has happened.    *)
FailedIsRolledBack ==
    [][\A p \in Procs :
          (sess[p].run = "tx" /\ sess'[p].run = "ready" /\ p \notin acked')
             => <<"user", p>> \notin data']_remoteVars
==============================================================================

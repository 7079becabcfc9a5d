------------------------------- MODULE Session -------------------------------
(***************************************************************************)
(* The CSRF protection of a session: require_csrf, csrf_retry,              *)
(* set_auth_cookies and signout of routes.rs over the CsrfStore of          *)
(* stores.rs, with the browsers whose cookies the answers set.              *)
(*                                                                          *)
(* The store is in memory, one entry per user, behind one mutex: each call  *)
(* on it is an action of its own.  Entries of different users meet only in  *)
(* the eviction, so this module follows one user, who may be signed in on   *)
(* several browsers, each with several requests under way.  Tokens are      *)
(* numbers; a fresh one is one that is nowhere in use, so that the model is *)
(* finite without a bound on the sign-ins.  For the same reason an entry    *)
(* has an age, where the code has a timestamp.                              *)
(***************************************************************************)
EXTENDS Integers, FiniteSets

CONSTANTS Browsers, NoBrowser,
          Workers,   \* HTTP workers
          Expiry,    \* CSRF_TOKEN_EXPIRY_MS, in ticks
          NumTokens  \* bound: enough for a fresh one always to exist

ASSUME SessionAssumption ==
    /\ IsFiniteSet(Browsers) /\ IsFiniteSet(Workers)
    /\ NoBrowser \notin Browsers
    /\ Expiry \in Nat /\ NumTokens \in Nat
    /\ NumTokens > 1 + Cardinality(Browsers) + 2 * Cardinality(Workers)

VARIABLES
    csrf,    \* CsrfStore: the user's entry
    jwt,     \* per browser: does it hold a "token" cookie that verifies
    cookie,  \* per browser: its "csrf_token" cookie
    job,     \* per worker: the request it serves
    astray   \* history: browsers whose cookie the store may have left behind

vars == <<csrf, jwt, cookie, job, astray>>

None == 0
Tokens == 1..NumTokens
NoEntry == [tok |-> None, age |-> 0]

(* "act" is any request that changes something but the session. *)
Kinds == {"signin", "signout", "act"}
PCs == {"idle", "signin", "check", "retry", "run", "refused", "done"}

(* gift is the csrf_token cookie of the answer.  dead is history: was the   *)
(* header, when the request was sent, a token the store did not hold.       *)
Idle == [pc |-> "idle", by |-> NoBrowser, kind |-> "act",
         header |-> None, gift |-> None, dead |-> FALSE]

Init ==
    /\ csrf = NoEntry
    /\ jwt = [b \in Browsers |-> FALSE]
    /\ cookie = [b \in Browsers |-> None]
    /\ job = [w \in Workers |-> Idle]
    /\ astray = {}

Busy(w) == job[w].pc # "idle"
(* The request moves on; its header is of no use after the check. *)
Goto(w, label) == job' = [job EXCEPT ![w].pc = label, ![w].header = None]

InUse ==
    {csrf.tok} \cup {cookie[b] : b \in Browsers}
    \cup {job[w].header : w \in Workers} \cup {job[w].gift : w \in Workers}

(* generate_csrf_token *)
FreshToken == CHOOSE t \in Tokens : t \notin InUse

(* The other browsers of the user now hold an old token, and so will this   *)
(* one if another answer to it may overtake this one.                       *)
LeftBehind(w) ==
    (Browsers \ {job[w].by})
    \cup (IF \E v \in Workers \ {w} : Busy(v) THEN {job[w].by} ELSE {})

(* CsrfStore::set of a fresh token, and the answer that carries it. *)
Mint(w, label) ==
    /\ csrf' = [tok |-> FreshToken, age |-> 0]
    /\ job' = [job EXCEPT ![w].pc = label, ![w].gift = FreshToken]
    /\ astray' = (astray \ {job[w].by}) \cup LeftBehind(w)
    /\ UNCHANGED <<jwt, cookie>>
------------------------------------------------------------------------------
(* Faults: plausible bugs, which the properties below must rule out. *)

(* What the comment on require_csrf warns against: on a store miss the      *)
(* request is let through.                                                  *)
CheckLetsMissThrough(w) ==
    /\ job[w].pc = "check"
    /\ Goto(w, IF job[w].header = None THEN "refused"
               ELSE IF csrf.tok = None THEN "run"
               ELSE IF csrf.tok # job[w].header THEN "refused"
               ELSE IF csrf.age > Expiry THEN "retry" ELSE "run")
    /\ UNCHANGED <<csrf, jwt, cookie, astray>>

(* csrf_retry stores a new token and sends none. *)
RetrySendsNoCookie(w) ==
    /\ job[w].pc = "retry"
    /\ csrf' = [tok |-> FreshToken, age |-> 0]
    /\ Goto(w, "refused")
    /\ UNCHANGED <<jwt, cookie, astray>>

------------------------------------------------------------------------------
(* A tick of the clock ages the entry; beyond Expiry + 1 all is the same. *)
Tick ==
    /\ csrf # NoEntry /\ csrf.age <= Expiry
    /\ csrf' = [csrf EXCEPT !.age = @ + 1]
    /\ UNCHANGED <<jwt, cookie, job, astray>>

(* A browser sends a request; its script copies the cookie to the header.   *)
(* Without a "token" cookie require_auth answers 401 to all but sign-in.    *)
Send(b, w, k) ==
    /\ ~Busy(w)
    /\ k # "signin" => jwt[b]
    /\ job' = [job EXCEPT ![w] =
                 IF k = "signin"
                 THEN [Idle EXCEPT !.pc = "signin", !.by = b, !.kind = k]
                 ELSE [Idle EXCEPT !.pc = "check", !.by = b, !.kind = k,
                                   !.header = cookie[b],
                                   !.dead = cookie[b] # csrf.tok]]
    /\ UNCHANGED <<csrf, jwt, cookie, astray>>

(* The cookies reach their Max-Age, or the user clears them. *)
ForgetCookie(b) ==
    /\ cookie[b] # None
    /\ cookie' = [cookie EXCEPT ![b] = None]
    /\ UNCHANGED <<csrf, jwt, job, astray>>

ForgetJwt(b) ==
    /\ jwt[b]
    /\ jwt' = [jwt EXCEPT ![b] = FALSE]
    /\ UNCHANGED <<csrf, cookie, job, astray>>

(* signin, signup: the password is right; set_auth_cookies. *)
SignIn(w) ==
    /\ job[w].pc = "signin"
    /\ Mint(w, "done")

(* signin, signup: any refusal or error, before set_auth_cookies. *)
SignInRefused(w) ==
    /\ job[w].pc = "signin"
    /\ Goto(w, "refused")
    /\ UNCHANGED <<csrf, jwt, cookie, astray>>

(* require_csrf: the header, CsrfStore::get, the comparison, the expiry.    *)
Check(w) ==
    /\ job[w].pc = "check"
    /\ \/ job[w].header = None /\ Goto(w, "refused")
       \/ /\ job[w].header # None
          /\ \/ csrf.tok = None /\ Goto(w, "retry")
             \/ csrf.tok \notin {None, job[w].header} /\ Goto(w, "refused")
             \/ csrf.tok = job[w].header /\ csrf.age > Expiry /\ Goto(w, "retry")
             \/ csrf.tok = job[w].header /\ csrf.age <= Expiry /\ Goto(w, "run")
    /\ UNCHANGED <<csrf, jwt, cookie, astray>>

(* csrf_retry: a 403 with a fresh token. *)
Retry(w) ==
    /\ job[w].pc = "retry"
    /\ Mint(w, "refused")

(* csrf_retry: no token can be minted; CsrfStore::remove and a plain 403. *)
RetryFails(w) ==
    /\ job[w].pc = "retry"
    /\ csrf' = NoEntry
    /\ Goto(w, "refused")
    /\ UNCHANGED <<jwt, cookie, astray>>

(* The rest of the handler; signout calls CsrfStore::remove. *)
Run(w) ==
    /\ job[w].pc = "run"
    /\ csrf' = IF job[w].kind = "signout" THEN NoEntry ELSE csrf
    /\ Goto(w, "done")
    /\ UNCHANGED <<jwt, cookie, astray>>

(* The answer reaches the browser, which stores its cookies; the answer to  *)
(* a sign-out deletes both.                                                 *)
Reply(w) ==
    /\ job[w].pc \in {"refused", "done"}
    /\ LET b == job[w].by
           out == job[w].pc = "done" /\ job[w].kind = "signout"
           in == job[w].pc = "done" /\ job[w].kind = "signin"
       IN /\ jwt' = [jwt EXCEPT ![b] = (@ \/ in) /\ ~out]
          /\ cookie' = [cookie EXCEPT ![b] =
                          IF out THEN None
                          ELSE IF job[w].gift # None THEN job[w].gift ELSE @]
    /\ job' = [job EXCEPT ![w] = Idle]
    /\ UNCHANGED <<csrf, astray>>

(* The answer is lost. *)
ReplyLost(w) ==
    /\ job[w].pc \in {"refused", "done"}
    /\ job' = [job EXCEPT ![w] = Idle]
    /\ astray' = IF job[w].gift # None THEN astray \cup {job[w].by} ELSE astray
    /\ UNCHANGED <<csrf, jwt, cookie>>

(* The server restarts: the store is empty, the requests are cut off. *)
Restart ==
    /\ csrf' = NoEntry
    /\ job' = [w \in Workers |-> Idle]
    /\ UNCHANGED <<jwt, cookie, astray>>

(* run_csrf_cleanup: CsrfStore::cleanup drops the entry if it has expired;  *)
(* and then, if the store is over its limit and the entry is among the      *)
(* oldest of all users', evict_oldest_entries drops it.                     *)
Cleanup ==
    /\ csrf # NoEntry
    /\ csrf' = NoEntry
    /\ UNCHANGED <<jwt, cookie, job, astray>>
------------------------------------------------------------------------------
Serve(w) ==
    \/ SignIn(w) \/ SignInRefused(w) \/ Check(w) \/ Retry(w) \/ RetryFails(w)
    \/ Run(w) \/ Reply(w) \/ ReplyLost(w)

Next ==
    \/ Tick \/ Restart \/ Cleanup
    \/ \E b \in Browsers : ForgetCookie(b) \/ ForgetJwt(b)
    \/ \E b \in Browsers, w \in Workers, k \in Kinds : Send(b, w, k)
    \/ \E w \in Workers : Serve(w)

Spec == Init /\ [][Next]_vars

(* Workers go on, and a browser that is signed in tries to sign out again   *)
(* and again.                                                               *)
FairSpec ==
    /\ Spec
    /\ \A w \in Workers : WF_vars(Serve(w))
    /\ \A b \in Browsers : WF_vars(\E w \in Workers : Send(b, w, "signout"))
------------------------------------------------------------------------------
Entries == {NoEntry} \cup [tok : Tokens, age : 0 .. Expiry + 1]
Jobs == [pc : PCs, by : Browsers \cup {NoBrowser}, kind : Kinds,
         header : Tokens \cup {None}, gift : Tokens \cup {None}, dead : BOOLEAN]

TypeOK ==
    /\ csrf \in Entries
    /\ jwt \in [Browsers -> BOOLEAN]
    /\ cookie \in [Browsers -> Tokens \cup {None}]
    /\ job \in [Workers -> Jobs]
    /\ \A w \in Workers : job[w].by = NoBrowser <=> job[w].pc = "idle"
    /\ astray \subseteq Browsers

(* A token that the store does not hold when a request is sent, because of  *)
(* a sign-out, a restart, an eviction, or a newer token, lets no request    *)
(* through, whatever the store is given while the request is under way.     *)
DeadTokenIsRefused ==
    \A w \in Workers : job[w].dead => job[w].pc # "run"

(* What makes one retry enough: unless requests of the user overlapped, an  *)
(* answer was lost, or another browser was given a token, a browser at rest *)
(* holds the token of the store, or the store or the browser holds none.    *)
BrowserKeepsInStep ==
    \A b \in Browsers :
        (b \notin astray /\ \A w \in Workers : ~Busy(w))
            => \/ cookie[b] = csrf.tok
               \/ None \in {cookie[b], csrf.tok}
------------------------------------------------------------------------------
(* What the comment in signout promises, and the code does not keep: that a *)
(* client with a stale token can retry rather than stay signed in.  Even if *)
(* from some point on nothing happens but its attempts, and no answer is    *)
(* lost, it may stay signed in for good.                                    *)
SignOutStep(b) ==
    \E w \in Workers :
        \/ Send(b, w, "signout")
        \/ job[w].by = b /\ (Check(w) \/ Retry(w) \/ Run(w) \/ Reply(w))

SignOutSucceeds ==
    \A b \in Browsers : <>[][SignOutStep(b)]_vars => []<>~jwt[b]
==============================================================================

------------------------------ MODULE Accounts ------------------------------
(***************************************************************************)
(* Accounts and their passwords: signup and signin of routes.rs over        *)
(* create_account and update_auth_password of db.rs, with the stored hashes *)
(* of kdf.rs, which carry the cost they were made at, or do not.            *)
(*                                                                          *)
(* Servers may share the database, and a new build may make hashes at       *)
(* another cost: while it is rolled out, servers of several builds migrate  *)
(* the hashes of the same accounts.  A cost stands for the triple N, r, p;  *)
(* what a key is derived from is the password and the cost (the salt is     *)
(* kept with the hash and never at issue).  Bcrypt reads a password for its *)
(* first 72 bytes only, and nothing limits what a signin sends to these.    *)
(* The limits on guessing are in module Signin, the transaction's           *)
(* statements in module Remote.                                             *)
(***************************************************************************)
EXTENDS Integers, FiniteSets

CONSTANTS Emails, Passwords, Ids, None,
          Start,      \* the first 72 bytes of a password, as one that has no more
          Workers,    \* HTTP workers, each of a server of its own
          Builds,     \* the costs that builds are compiled with: CURRENT_PARAMS
          NodeCost,   \* the cost of the hashes that do not say
          MaxStored   \* the limit of within_limits

(* hash_password does not check the limit that verify_password checks: a    *)
(* build beyond it would lock out everyone it writes a hash for.            *)
ASSUME AccountsAssumption ==
    /\ None \notin Emails \cup Passwords \cup Ids
    /\ Start \in [Passwords -> Passwords]
    /\ MaxStored \in Nat /\ Builds \subseteq 1..MaxStored /\ NodeCost \in 1..MaxStored
    /\ IsFiniteSet(Emails) /\ IsFiniteSet(Workers)

VARIABLES
    users,  \* Users, by email: the id
    auths,  \* Auths, by email: the id and the password's hash
    build,  \* per worker: the cost its server is compiled with
    job,    \* per worker: the request it serves
    owner,  \* history: the password each account was created with
    old,    \* history: the accounts of which the hash was bcrypt
    told    \* history, by email: who was answered 201 or 200 last, and what

vars == <<users, auths, build, job, owner, old, told>>

Hashes == [form : {"bcrypt", "node", "scrypt"}, cost : {None} \cup 1..MaxStored,
           key : Passwords \X (Builds \cup {None, NodeCost})]
Nobody == [password |-> None, id |-> None]
NoAuth == [id |-> None, hash |-> None]
Idle == [pc |-> "idle", email |-> None, password |-> None, hash |-> None,
         id |-> None]

Derive(password, cost) == <<password, cost>>
Bcrypt(password) == [form |-> "bcrypt", cost |-> None, key |-> Derive(Start[password], None)]
OfNode(password) == [form |-> "node", cost |-> None, key |-> Derive(password, NodeCost)]

(* hash_password *)
HashOf(w, password) ==
    [form |-> "scrypt", cost |-> build[w], key |-> Derive(password, build[w])]

(* parse_scrypt_hash, within_limits *)
CostOf(hash) == IF hash.form = "node" THEN NodeCost ELSE hash.cost
Parses(hash) == hash.form \in {"node", "scrypt"} /\ CostOf(hash) \in 1..MaxStored

Goto(w, label) == job' = [job EXCEPT ![w].pc = label]
Finish(w) == job' = [job EXCEPT ![w] = Idle]
------------------------------------------------------------------------------
(* Faults: plausible bugs, which the properties below must rule out. *)

(* The key is derived at the cost of the build. *)
VerifiesAtBuildCost(w, password, hash) ==
    \/ hash.form = "bcrypt" /\ hash.key = Derive(Start[password], None)
    \/ Parses(hash) /\ hash.key = Derive(password, build[w])

(* An account that is there is written over. *)
CreateOverwrites(w, id) ==
    LET e == job[w].email IN
    /\ job[w].pc = "create"
    /\ users' = [users EXCEPT ![e] = id]
    /\ auths' = [auths EXCEPT ![e] = [id |-> id, hash |-> job[w].hash]]
    /\ owner' = [owner EXCEPT ![e] = job[w].password]
    /\ job' = [job EXCEPT ![w].pc = "token", ![w].hash = None, ![w].id = id]
    /\ UNCHANGED <<build, old, told>>
------------------------------------------------------------------------------
(* verify_password: at the cost the hash says, or the older verifier. *)
Verifies(w, password, hash) ==
    \/ hash.form = "bcrypt" /\ hash.key = Derive(Start[password], None)
    \/ Parses(hash) /\ hash.key = Derive(password, CostOf(hash))

NeedsRehash(w, hash) == ~Parses(hash) \/ CostOf(hash) # build[w]

(* Some accounts are from the Node backend, and from before that. *)
Init ==
    /\ owner \in [Emails -> Passwords \cup {None}]
    /\ old \in SUBSET {e \in Emails : owner[e] # None}
    /\ \E id \in [Emails -> Ids] :
          /\ \A d, e \in Emails : d # e => id[d] # id[e]
          /\ users = [e \in Emails |-> IF owner[e] = None THEN None ELSE id[e]]
          /\ auths = [e \in Emails |->
                IF owner[e] = None THEN NoAuth
                ELSE [id |-> id[e],
                      hash |-> IF e \in old THEN Bcrypt(owner[e]) ELSE OfNode(owner[e])]]
    /\ build \in [Workers -> Builds]
    /\ job = [w \in Workers |-> Idle]
    /\ told = [e \in Emails |-> Nobody]

(* signup or signin, with a body that is valid and within the rate limit.   *)
Arrive(w, e, password, label) ==
    /\ job[w].pc = "idle" /\ label \in {"hash", "find"}
    /\ job' = [job EXCEPT ![w] = [Idle EXCEPT !.pc = label, !.email = e,
                                              !.password = password]]
    /\ UNCHANGED <<users, auths, build, owner, old, told>>

Hash(w) ==
    /\ job[w].pc = "hash"
    /\ job' = [job EXCEPT ![w].pc = "create", ![w].hash = HashOf(w, job[w].password)]
    /\ UNCHANGED <<users, auths, build, owner, old, told>>

(* create_account: both rows, or neither if the email is taken. *)
Create(w, id) ==
    LET e == job[w].email IN
    /\ job[w].pc = "create"
    /\ id \in Ids \ {users[d] : d \in Emails}
    /\ users[e] = None /\ auths[e] = NoAuth
    /\ users' = [users EXCEPT ![e] = id]
    /\ auths' = [auths EXCEPT ![e] = [id |-> id, hash |-> job[w].hash]]
    /\ owner' = [owner EXCEPT ![e] = job[w].password]
    /\ job' = [job EXCEPT ![w].pc = "token", ![w].hash = None, ![w].id = id]
    /\ UNCHANGED <<build, old, told>>

CreateRefused(w) ==
    /\ job[w].pc = "create"
    /\ users[job[w].email] # None
    /\ Finish(w)
    /\ UNCHANGED <<users, auths, build, owner, old, told>>

(* find_auth, verify_password, needs_rehash: 401, or on. *)
FindAuth(w) ==
    LET auth == auths[job[w].email]
        right == auth # NoAuth /\ Verifies(w, job[w].password, auth.hash)
    IN
    /\ job[w].pc = "find"
    /\ job' = [job EXCEPT ![w] =
                 IF ~right THEN Idle
                 ELSE [@ EXCEPT !.pc = IF NeedsRehash(w, auth.hash)
                                       THEN "rehash" ELSE "user"]]
    /\ UNCHANGED <<users, auths, build, owner, old, told>>

(* update_auth_password, by email, whatever the row has become meanwhile.   *)
Rehash(w) ==
    LET e == job[w].email IN
    /\ job[w].pc = "rehash"
    /\ auths' = IF auths[e] = NoAuth THEN auths
                ELSE [auths EXCEPT ![e].hash = HashOf(w, job[w].password)]
    /\ Goto(w, "user")
    /\ UNCHANGED <<users, build, owner, old, told>>

(* No hash can be made, or the UPDATE fails: signin goes on without. *)
RehashFails(w) ==
    /\ job[w].pc = "rehash"
    /\ Goto(w, "user")
    /\ UNCHANGED <<users, auths, build, owner, old, told>>

FindUser(w) ==
    /\ job[w].pc = "user"
    /\ LET id == users[job[w].email]
       IN job' = [job EXCEPT ![w] = IF id = None THEN Idle
                                    ELSE [@ EXCEPT !.pc = "token", !.id = id]]
    /\ UNCHANGED <<users, auths, build, owner, old, told>>

(* generate_token, set_auth_cookies: the answer says whose account it is.   *)
Reply(w) ==
    /\ job[w].pc = "token"
    /\ told' = [told EXCEPT ![job[w].email] =
                   [password |-> job[w].password, id |-> job[w].id]]
    /\ Finish(w)
    /\ UNCHANGED <<users, auths, build, owner, old>>

(* 500 at any step, also after the rows were written; or the process ends.  *)
Fail(w) ==
    /\ job[w].pc # "idle"
    /\ Finish(w)
    /\ UNCHANGED <<users, auths, build, owner, old, told>>

(* A new build replaces the server; what it was doing is lost. *)
Deploy(w, cost) ==
    /\ cost # build[w]
    /\ build' = [build EXCEPT ![w] = cost]
    /\ Finish(w)
    /\ UNCHANGED <<users, auths, owner, old, told>>

Next ==
    \E w \in Workers :
        \/ \E e \in Emails, password \in Passwords, label \in {"hash", "find"} :
              Arrive(w, e, password, label)
        \/ \E id \in Ids : Create(w, id)
        \/ \E cost \in Builds : Deploy(w, cost)
        \/ Hash(w) \/ CreateRefused(w) \/ FindAuth(w) \/ Rehash(w) \/ RehashFails(w)
        \/ FindUser(w) \/ Reply(w) \/ Fail(w)

Spec == Init /\ [][Next]_vars
------------------------------------------------------------------------------
Auths == [id : Ids, hash : Hashes]
PCs == {"idle", "hash", "create", "find", "rehash", "user", "token"}
Jobs == [pc : PCs, email : Emails \cup {None}, password : Passwords \cup {None},
         hash : Hashes \cup {None}, id : Ids \cup {None}]

TypeOK ==
    /\ users \in [Emails -> Ids \cup {None}]
    /\ auths \in [Emails -> Auths \cup {NoAuth}]
    /\ build \in [Workers -> Builds]
    /\ owner \in [Emails -> Passwords \cup {None}]
    /\ old \in SUBSET Emails
    /\ told \in [Emails -> [password : Passwords, id : Ids] \cup {Nobody}]
    /\ job \in [Workers -> Jobs]

(* A password that the account may take for its owner's. *)
Passes(e, password) ==
    IF e \in old THEN Start[password] = Start[owner[e]] ELSE password = owner[e]

(* kdf.rs needs_rehash, routes.rs signin - nobody is locked out, and nobody *)
(* else let in: whatever cost its hash has, and however many servers of     *)
(* different builds rewrite it at once, an account verifies the password it *)
(* was created with, and no other, on every server.  Of an account that had *)
(* a bcrypt hash, it verifies all that begin like it until the hash is      *)
(* rewritten, and then one of them.                                         *)
PasswordStaysTheOwners ==
    \A e \in Emails, w \in Workers :
        LET hash == auths[e].hash
            right == {password \in Passwords : Verifies(w, password, hash)}
            may == {password \in Passwords : Passes(e, password)}
        IN auths[e] # NoAuth =>
              IF hash.form = "bcrypt" THEN right = may
              ELSE \E password \in may : right = {password}

(* validation.rs:104 - the limit on passwords is there "so existing         *)
(* accounts keep working unchanged": the owner's password always verifies.  *)
(* It does not hold: a bcrypt hash is rewritten for what was typed.         *)
OwnersStayIn ==
    \A e \in Emails, w \in Workers :
        auths[e] # NoAuth => Verifies(w, owner[e], auths[e].hash)

(* routes.rs signup, create_account - an account has both its rows or none, *)
(* two have not one id, and whoever was answered for an account, of two who *)
(* signed up for one email as well, owns it: with the id and the password   *)
(* of the answer it is still there.                                         *)
AnsweredOwnTheirAccount ==
    /\ \A e \in Emails : users[e] = auths[e].id
    /\ \A d, e \in Emails : d # e /\ users[d] = users[e] => users[d] = None
    /\ \A e \in Emails : told[e] # Nobody =>
          users[e] = told[e].id /\ Passes(e, told[e].password)
==============================================================================

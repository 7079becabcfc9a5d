--------------------------- MODULE AccountsProofs ---------------------------
(* Theorems about module Accounts, for any numbers of accounts, servers and *)
(* builds, and for any passwords, alike in their first 72 bytes or not.     *)
EXTENDS Accounts, TLAPS

ScryptOf(password, cost) ==
    [form |-> "scrypt", cost |-> cost, key |-> Derive(password, cost)]

(* The hash an account has is of a password that it may take: the one it    *)
(* was created with, or one that the bcrypt hash took for that.             *)
HashFits(e, hash) ==
    \/ e \in old /\ hash = Bcrypt(owner[e])
    \/ \E password \in Passwords :
          /\ Passes(e, password)
          /\ \/ hash = OfNode(password)
             \/ \E cost \in Builds : hash = ScryptOf(password, cost)

HashesFit == \A e \in Emails : auths[e] # NoAuth => HashFits(e, auths[e].hash)

(* Both rows or none, and an owner for them; only such an account is old.   *)
RowsMatch ==
    \A e \in Emails :
        /\ users[e] = auths[e].id
        /\ users[e] = None <=> owner[e] = None
        /\ e \in old => users[e] # None

IdsDiffer ==
    \A d, e \in Emails : d # e /\ users[d] = users[e] => users[d] = None

(* A request that is past the look-up of its password has one that passed,  *)
(* also if another server has rewritten the hash since.                     *)
JobFits(j) ==
    /\ j.pc # "idle" => j.email \in Emails /\ j.password \in Passwords
    /\ j.pc = "create" => \E cost \in Builds : j.hash = ScryptOf(j.password, cost)
    /\ j.pc \in {"rehash", "user", "token"} =>
          users[j.email] # None /\ Passes(j.email, j.password)
    /\ j.pc = "token" => j.id = users[j.email]

JobsFit == \A w \in Workers : JobFits(job[w])

ToldFits ==
    \A e \in Emails : told[e] # Nobody =>
        users[e] # None /\ users[e] = told[e].id /\ Passes(e, told[e].password)

Inv == TypeOK /\ RowsMatch /\ IdsDiffer /\ HashesFit /\ JobsFit /\ ToldFits
------------------------------------------------------------------------------
(* What hash_password makes is a hash of the password. *)
LEMMA HashOfIsScrypt ==
    ASSUME TypeOK, NEW w \in Workers, NEW password \in Passwords
    PROVE  /\ HashOf(w, password) \in Hashes
           /\ \E cost \in Builds : HashOf(w, password) = ScryptOf(password, cost)
  BY AccountsAssumption DEF TypeOK, HashOf, Hashes, ScryptOf, Derive

(* verify_password on a hash of one password, at any cost, passes that one. *)
LEMMA VerifiesScrypt ==
    ASSUME NEW w, NEW p \in Passwords, NEW q \in Passwords, NEW cost \in Builds
    PROVE  Verifies(w, q, ScryptOf(p, cost)) <=> q = p
  BY AccountsAssumption DEF Verifies, ScryptOf, Parses, CostOf, Derive

LEMMA VerifiesNode ==
    ASSUME NEW w, NEW p \in Passwords, NEW q \in Passwords
    PROVE  Verifies(w, q, OfNode(p)) <=> q = p
  BY AccountsAssumption DEF Verifies, OfNode, Parses, CostOf, Derive

LEMMA VerifiesBcrypt ==
    ASSUME NEW w, NEW p \in Passwords, NEW q \in Passwords
    PROVE  Verifies(w, q, Bcrypt(p)) <=> Start[q] = Start[p]
  BY AccountsAssumption DEF Verifies, Bcrypt, Parses, CostOf, Derive

(* What a hash that fits takes for the password, the account may take. *)
LEMMA VerifiedPasses ==
    ASSUME TypeOK, RowsMatch, NEW w, NEW e \in Emails, NEW hash, HashFits(e, hash),
           NEW q \in Passwords, Verifies(w, q, hash)
    PROVE  Passes(e, q)
<1>1. CASE e \in old /\ hash = Bcrypt(owner[e])
  <2>1. owner[e] \in Passwords
    BY <1>1 DEF TypeOK, RowsMatch
  <2>2. QED
    BY <1>1, <2>1, VerifiesBcrypt DEF Passes
<1>2. CASE \E p \in Passwords :
              /\ Passes(e, p)
              /\ \/ hash = OfNode(p)
                 \/ \E cost \in Builds : hash = ScryptOf(p, cost)
  BY <1>2, VerifiesScrypt, VerifiesNode
<1>3. QED
  BY <1>1, <1>2 DEF HashFits
------------------------------------------------------------------------------
LEMMA InvInit == Init => Inv
<1> SUFFICES ASSUME Init PROVE Inv
  OBVIOUS
<1> USE AccountsAssumption
<1>1. PICK id \in [Emails -> Ids] :
          /\ \A d, e \in Emails : d # e => id[d] # id[e]
          /\ users = [e \in Emails |-> IF owner[e] = None THEN None ELSE id[e]]
          /\ auths = [e \in Emails |->
                IF owner[e] = None THEN NoAuth
                ELSE [id |-> id[e],
                      hash |-> IF e \in old THEN Bcrypt(owner[e]) ELSE OfNode(owner[e])]]
  BY DEF Init
<1>2. /\ owner \in [Emails -> Passwords \cup {None}]
      /\ old \in SUBSET {e \in Emails : owner[e] # None}
      /\ build \in [Workers -> Builds]
      /\ job = [w \in Workers |-> Idle]
      /\ told = [e \in Emails |-> Nobody]
  BY DEF Init
<1>3. \A e \in Emails : owner[e] # None =>
          Bcrypt(owner[e]) \in Hashes /\ OfNode(owner[e]) \in Hashes
  BY <1>2 DEF Bcrypt, OfNode, Hashes, Derive
<1>4. TypeOK
  <2>1. users \in [Emails -> Ids \cup {None}]
    BY <1>1
  <2>2. auths \in [Emails -> Auths \cup {NoAuth}]
    BY <1>1, <1>3 DEF Auths
  <2>3. job \in [Workers -> Jobs]
    BY <1>2 DEF Idle, Jobs, PCs
  <2>4. QED
    BY <1>2, <2>1, <2>2, <2>3 DEF TypeOK
<1>5. RowsMatch
  BY <1>1, <1>2 DEF RowsMatch, NoAuth
<1>6. IdsDiffer
  BY <1>1 DEF IdsDiffer
<1>7. HashesFit
  BY <1>1, <1>2 DEF HashesFit, HashFits, Passes
<1>8. JobsFit /\ ToldFits
  BY <1>2 DEF JobsFit, JobFits, Idle, ToldFits
<1>9. QED
  BY <1>4, <1>5, <1>6, <1>7, <1>8 DEF Inv
------------------------------------------------------------------------------
(* A step that leaves the accounts alone, and gives one request a job that  *)
(* fits.                                                                    *)
LEMMA QuietStep ==
    ASSUME Inv, NEW w \in Workers, NEW j \in Jobs, JobFits(j),
           job' = [job EXCEPT ![w] = j],
           UNCHANGED <<users, auths, owner, old, told>>,
           build' \in [Workers -> Builds]
    PROVE  Inv'
<1>1. TypeOK'
  BY DEF Inv, TypeOK
<1>2. RowsMatch' /\ IdsDiffer' /\ HashesFit' /\ ToldFits'
  BY DEF Inv, RowsMatch, IdsDiffer, HashesFit, HashFits, ToldFits, Passes
<1>3. JobsFit'
  <2> SUFFICES ASSUME NEW v \in Workers PROVE JobFits(job[v])'
    BY DEF JobsFit
  <2>1. job[v]' = IF v = w THEN j ELSE job[v]
    BY DEF Inv, TypeOK
  <2>2. JobFits(job[v]')
    BY <2>1 DEF Inv, JobsFit
  <2>3. QED
    BY <2>2 DEF JobFits, Passes
<1>4. QED
  BY <1>1, <1>2, <1>3 DEF Inv

LEMMA IdleFits == Idle \in Jobs /\ JobFits(Idle)
  BY DEF Idle, Jobs, PCs, JobFits

(* An account appears: the others keep their rows, and no job, answer or    *)
(* id is of an account that was not there.                                  *)
LEMMA CreateStep ==
    ASSUME Inv, NEW w \in Workers, NEW id \in Ids, Create(w, id)
    PROVE  Inv'
<1> USE AccountsAssumption
<1>1. PICK e \in Emails, p \in Passwords, h \in Hashes :
          /\ job[w].email = e /\ job[w].password = p /\ job[w].hash = h
          /\ \E cost \in Builds : h = ScryptOf(p, cost)
  <2>1. job[w] \in Jobs /\ JobFits(job[w]) /\ job[w].pc = "create"
    BY DEF Inv, TypeOK, JobsFit, Create
  <2>2. \E cost \in Builds : job[w].hash = ScryptOf(job[w].password, cost)
    BY <2>1 DEF JobFits
  <2>3. job[w].email \in Emails /\ job[w].password \in Passwords
    BY <2>1 DEF JobFits
  <2>4. job[w].hash \in Hashes
    BY <2>2, <2>3 DEF ScryptOf, Hashes, Derive
  <2>5. QED
    BY <2>2, <2>3, <2>4
<1>2. /\ users[e] = None /\ auths[e] = NoAuth /\ owner[e] = None /\ e \notin old
      /\ told[e] = Nobody
      /\ \A d \in Emails : users[d] # id
  BY <1>1 DEF Inv, Create, RowsMatch, ToldFits
<1>3. PICK j \in Jobs :
          /\ j.pc = "token" /\ j.email = e /\ j.password = p /\ j.id = id
          /\ job' = [job EXCEPT ![w] = j]
  <2>1. job[w] \in Jobs
    BY DEF Inv, TypeOK
  <2>2. job' = [job EXCEPT ![w] = [job[w] EXCEPT !.pc = "token", !.hash = None, !.id = id]]
    BY DEF Create, Inv, TypeOK
  <2>3. QED
    BY <1>1, <2>1, <2>2 DEF Jobs, PCs
<1>4. /\ users' = [users EXCEPT ![e] = id]
      /\ auths' = [auths EXCEPT ![e] = [id |-> id, hash |-> h]]
      /\ owner' = [owner EXCEPT ![e] = p]
      /\ UNCHANGED <<build, old, told>>
  BY <1>1 DEF Create
<1>5. TypeOK'
  BY <1>1, <1>3, <1>4 DEF Inv, TypeOK, Auths
<1>6. /\ \A d \in Emails : users'[d] = IF d = e THEN id ELSE users[d]
      /\ \A d \in Emails : owner'[d] = IF d = e THEN p ELSE owner[d]
      /\ \A d \in Emails : auths'[d] = IF d = e THEN [id |-> id, hash |-> h] ELSE auths[d]
      /\ \A v \in Workers : job'[v] = IF v = w THEN j ELSE job[v]
  BY <1>3, <1>4 DEF Inv, TypeOK
<1>7. RowsMatch' /\ IdsDiffer'
  BY <1>2, <1>4, <1>6 DEF Inv, RowsMatch, IdsDiffer
<1>8. /\ Passes(e, p)'
      /\ \A d \in Emails, q \in Passwords : d # e => (Passes(d, q)' <=> Passes(d, q))
  BY <1>2, <1>4, <1>6 DEF Passes
<1>9. HashesFit'
  <2> SUFFICES ASSUME NEW d \in Emails, auths'[d] # NoAuth PROVE HashFits(d, auths[d].hash)'
    BY DEF HashesFit
  <2>1. CASE d = e
    <3>1. auths'[d].hash = h
      BY <2>1, <1>6
    <3>2. QED
      BY <2>1, <3>1, <1>1, <1>8 DEF HashFits, ScryptOf, Derive
  <2>2. CASE d # e
    <3>1. HashFits(d, auths[d].hash) /\ auths'[d] = auths[d] /\ owner'[d] = owner[d]
      BY <2>2, <1>6 DEF Inv, HashesFit
    <3>2. QED
      BY <3>1, <2>2, <1>4, <1>8 DEF HashFits
  <2>3. QED
    BY <2>1, <2>2
<1>10. JobsFit'
  <2> SUFFICES ASSUME NEW v \in Workers PROVE JobFits(job[v])'
    BY DEF JobsFit
  <2>1. CASE v = w
    BY <2>1, <1>3, <1>6, <1>8 DEF JobFits
  <2>2. CASE v # w
    <3>1. PICK k : k = job[v] /\ k = job'[v] /\ JobFits(k)
      BY <2>2, <1>6 DEF Inv, JobsFit
    <3>2. ASSUME k.pc \in {"rehash", "user", "token"}
          PROVE  /\ users'[k.email] = users[k.email] /\ users[k.email] # None
                 /\ Passes(k.email, k.password)'
      BY <3>1, <3>2, <1>2, <1>6, <1>8 DEF JobFits
    <3>3. QED
      BY <3>1, <3>2 DEF JobFits
  <2>3. QED
    BY <2>1, <2>2
<1>11. ToldFits'
  <2> SUFFICES ASSUME NEW d \in Emails, told[d] # Nobody
               PROVE  users'[d] # None /\ users'[d] = told[d].id /\ Passes(d, told[d].password)'
    BY <1>4 DEF ToldFits
  <2>1. d # e /\ users'[d] = users[d]
    BY <1>2, <1>6
  <2>2. told[d].password \in Passwords
    BY DEF Inv, TypeOK
  <2>3. QED
    BY <2>1, <2>2, <1>4, <1>8 DEF Inv, ToldFits
<1>12. QED
  BY <1>5, <1>7, <1>9, <1>10, <1>11 DEF Inv

(* The hash is rewritten for a password that passed, of an account that is  *)
(* still the same.                                                          *)
LEMMA RehashStep ==
    ASSUME Inv, NEW w \in Workers, Rehash(w)
    PROVE  Inv'
<1> USE AccountsAssumption
<1>1. PICK e \in Emails, p \in Passwords, h \in Hashes :
          /\ job[w].email = e /\ job[w].password = p /\ HashOf(w, p) = h
          /\ \E cost \in Builds : h = ScryptOf(p, cost)
          /\ users[e] # None /\ Passes(e, p)
  <2>1. job[w] \in Jobs /\ JobFits(job[w]) /\ job[w].pc = "rehash"
    BY DEF Inv, TypeOK, JobsFit, Rehash
  <2>2. /\ job[w].email \in Emails /\ job[w].password \in Passwords
        /\ users[job[w].email] # None /\ Passes(job[w].email, job[w].password)
    BY <2>1 DEF JobFits
  <2>3. QED
    BY <2>2, HashOfIsScrypt DEF Inv
<1>2. auths[e] \in Auths /\ auths[e] # NoAuth
  BY <1>1 DEF Inv, TypeOK, RowsMatch, NoAuth
<1>3. /\ auths' = [auths EXCEPT ![e] = [auths[e] EXCEPT !.hash = h]]
      /\ UNCHANGED <<users, build, owner, old, told>>
  BY <1>1, <1>2 DEF Rehash, Inv, TypeOK
<1>4. PICK j \in Jobs :
          /\ job' = [job EXCEPT ![w] = j]
          /\ j.pc = "user" /\ j.email = e /\ j.password = p
  <2>1. job[w] \in Jobs
    BY DEF Inv, TypeOK
  <2>2. job' = [job EXCEPT ![w].pc = "user"]
    BY DEF Rehash, Goto
  <2>3. [job[w] EXCEPT !.pc = "user"] \in Jobs
    BY <2>1 DEF Jobs, PCs
  <2>4. job' = [job EXCEPT ![w] = [job[w] EXCEPT !.pc = "user"]]
    BY <2>2, <2>1 DEF Inv, TypeOK
  <2>5. QED
    BY <1>1, <2>1, <2>3, <2>4 DEF Jobs
<1>5. JobFits(j)
  BY <1>1, <1>4 DEF JobFits
<1>6. TypeOK'
  BY <1>2, <1>3, <1>4 DEF Inv, TypeOK, Auths
<1>7. \A d \in Emails : /\ auths'[d].id = auths[d].id
                        /\ d = e => auths'[d].hash = h
                        /\ d # e => auths'[d] = auths[d]
  BY <1>2, <1>3 DEF Inv, TypeOK, Auths
<1>8. RowsMatch' /\ IdsDiffer' /\ ToldFits'
  BY <1>3, <1>7 DEF Inv, RowsMatch, IdsDiffer, ToldFits, Passes
<1>9. HashesFit'
  <2> SUFFICES ASSUME NEW d \in Emails, auths'[d] # NoAuth PROVE HashFits(d, auths[d].hash)'
    BY DEF HashesFit
  <2>1. CASE d = e
    BY <2>1, <1>1, <1>3, <1>7 DEF HashFits, Passes, ScryptOf, Derive
  <2>2. CASE d # e
    BY <2>2, <1>3, <1>7 DEF HashFits, Passes, Inv, HashesFit
  <2>3. QED
    BY <2>1, <2>2
<1>10. JobsFit'
  <2> SUFFICES ASSUME NEW v \in Workers PROVE JobFits(job[v])'
    BY DEF JobsFit
  <2>1. job'[v] = IF v = w THEN j ELSE job[v]
    BY <1>4 DEF Inv, TypeOK
  <2>2. JobFits(job'[v])
    BY <2>1, <1>5 DEF Inv, JobsFit
  <2>3. QED
    BY <2>2, <1>3 DEF JobFits, Passes
<1>11. QED
  BY <1>6, <1>8, <1>9, <1>10 DEF Inv
------------------------------------------------------------------------------
LEMMA InvNext == Inv /\ [Next]_vars => Inv'
<1> SUFFICES ASSUME Inv, [Next]_vars
             PROVE  Inv'
  OBVIOUS
<1> USE AccountsAssumption
<1>1. \A w \in Workers : job[w] \in Jobs /\ JobFits(job[w])
  BY DEF Inv, TypeOK, JobsFit
<1>2. job \in [Workers -> Jobs] /\ build \in [Workers -> Builds]
  BY DEF Inv, TypeOK
<1>3. ASSUME NEW w \in Workers, Finish(w), UNCHANGED <<users, auths, owner, old, told>>,
             build' \in [Workers -> Builds]
      PROVE  Inv'
  BY <1>3, IdleFits, QuietStep DEF Finish
<1>4. ASSUME NEW w \in Workers, job[w].pc = "rehash", Goto(w, "user"),
             UNCHANGED <<users, auths, build, owner, old, told>>
      PROVE  Inv'
  <2> DEFINE j == [job[w] EXCEPT !.pc = "user"]
  <2>1. j \in Jobs /\ JobFits(j)
    BY <1>1, <1>4 DEF Jobs, PCs, JobFits
  <2>2. job' = [job EXCEPT ![w] = j]
    BY <1>2, <1>4 DEF Goto
  <2>3. QED
    BY <2>1, <2>2, <1>2, <1>4, QuietStep
<1>5. ASSUME NEW w \in Workers, NEW e \in Emails, NEW password \in Passwords,
             NEW label \in {"hash", "find"}, Arrive(w, e, password, label)
      PROVE  Inv'
  <2> DEFINE j == [Idle EXCEPT !.pc = label, !.email = e, !.password = password]
  <2>1. j \in Jobs /\ JobFits(j)
    BY <1>5 DEF Idle, Jobs, PCs, JobFits
  <2>2. QED
    BY <2>1, <1>2, <1>5, QuietStep DEF Arrive
<1>6. ASSUME NEW w \in Workers, Hash(w)
      PROVE  Inv'
  <2> DEFINE h == HashOf(w, job[w].password)
             j == [job[w] EXCEPT !.pc = "create", !.hash = h]
  <2>1. job[w].email \in Emails /\ job[w].password \in Passwords
    BY <1>1, <1>6 DEF Hash, JobFits
  <2>2. h \in Hashes /\ \E cost \in Builds : h = ScryptOf(job[w].password, cost)
    BY <2>1, HashOfIsScrypt DEF Inv
  <2>3. j \in Jobs /\ JobFits(j)
    <3> HIDE DEF h
    <3>1. j \in Jobs
      BY <1>1, <2>2 DEF Jobs, PCs
    <3>2. /\ j.pc = "create" /\ j.hash = h
          /\ j.email = job[w].email /\ j.password = job[w].password
      BY <1>1 DEF Jobs
    <3> HIDE DEF j
    <3>3. QED
      BY <3>1, <3>2, <2>1, <2>2 DEF JobFits
  <2>4. job' = [job EXCEPT ![w] = j]
    BY <1>2, <1>6 DEF Hash
  <2>5. QED
    BY <2>3, <2>4, <1>2, <1>6, QuietStep DEF Hash
<1>7. ASSUME NEW w \in Workers, FindAuth(w)
      PROVE  Inv'
  <2> DEFINE e == job[w].email
             right == auths[e] # NoAuth /\ Verifies(w, job[w].password, auths[e].hash)
             j == IF ~right THEN Idle
                  ELSE [job[w] EXCEPT !.pc = IF NeedsRehash(w, auths[e].hash)
                                             THEN "rehash" ELSE "user"]
  <2>1. e \in Emails /\ job[w].password \in Passwords
    BY <1>1, <1>7 DEF FindAuth, JobFits
  <2>2. CASE ~right
    <3>1. job' = [job EXCEPT ![w] = Idle]
      BY <2>2, <1>2, <1>7 DEF FindAuth
    <3>2. QED
      BY <3>1, <1>2, <1>7, IdleFits, QuietStep DEF FindAuth
  <2>3. CASE right
    <3>1. users[e] # None /\ Passes(e, job[w].password)
      <4>1. auths[e] \in Auths /\ users[e] = auths[e].id
        BY <2>1, <2>3 DEF Inv, TypeOK, RowsMatch
      <4>2. users[e] # None
        BY <4>1 DEF Auths
      <4>3. HashFits(e, auths[e].hash)
        BY <2>1, <2>3 DEF Inv, HashesFit
      <4>4. QED
        BY <2>1, <2>3, <4>2, <4>3, VerifiedPasses DEF Inv
    <3>2. PICK label \in {"rehash", "user"} : j = [job[w] EXCEPT !.pc = label]
      BY <2>3
    <3>3. j \in Jobs /\ j.pc = label /\ j.email = e /\ j.password = job[w].password
      BY <3>2, <1>1 DEF Jobs, PCs
    <3>4. job' = [job EXCEPT ![w] = j]
      BY <1>2, <1>7 DEF FindAuth
    <3>5. JobFits(j)
      <4> HIDE DEF j, e
      <4>1. QED
        BY <2>1, <3>1, <3>3 DEF JobFits
    <3>6. QED
      BY <3>3, <3>4, <3>5, <1>2, <1>7, QuietStep DEF FindAuth
  <2>4. QED
    BY <2>2, <2>3
<1>8. ASSUME NEW w \in Workers, FindUser(w)
      PROVE  Inv'
  <2> DEFINE id == users[job[w].email]
             j == [job[w] EXCEPT !.pc = "token", !.id = id]
  <2>1. /\ job[w].email \in Emails /\ job[w].password \in Passwords
        /\ id # None /\ Passes(job[w].email, job[w].password)
    BY <1>1, <1>8 DEF FindUser, JobFits
  <2>2. id \in Ids
    BY <2>1 DEF Inv, TypeOK
  <2>3. j \in Jobs /\ JobFits(j)
    BY <1>1, <2>1, <2>2 DEF Jobs, PCs, JobFits
  <2>4. job' = [job EXCEPT ![w] = j]
    BY <1>2, <1>8, <2>1 DEF FindUser
  <2>5. QED
    BY <2>3, <2>4, <1>2, <1>8, QuietStep DEF FindUser
<1>9. ASSUME NEW w \in Workers, Reply(w)
      PROVE  Inv'
  <2>1. PICK e \in Emails, p \in Passwords, id \in Ids :
            /\ told' = [told EXCEPT ![e] = [password |-> p, id |-> id]]
            /\ users[e] # None /\ users[e] = id /\ Passes(e, p)
    <3>1. /\ job[w].email \in Emails /\ job[w].password \in Passwords
          /\ users[job[w].email] # None /\ users[job[w].email] = job[w].id
          /\ Passes(job[w].email, job[w].password)
      BY <1>1, <1>9 DEF Reply, JobFits
    <3>2. job[w].id \in Ids
      BY <3>1 DEF Inv, TypeOK
    <3>3. QED
      BY <3>1, <3>2, <1>9 DEF Reply
  <2>2. job' = [job EXCEPT ![w] = Idle] /\ UNCHANGED <<users, auths, build, owner, old>>
    BY <1>9 DEF Reply, Finish
  <2>3. TypeOK'
    BY <2>1, <2>2, IdleFits DEF Inv, TypeOK
  <2>4. RowsMatch' /\ IdsDiffer' /\ HashesFit'
    BY <2>2 DEF Inv, RowsMatch, IdsDiffer, HashesFit, HashFits, Passes
  <2>5. JobsFit'
    <3> SUFFICES ASSUME NEW v \in Workers PROVE JobFits(job[v])'
      BY DEF JobsFit
    <3>1. JobFits(job'[v])
      BY <1>1, <1>2, <2>2, IdleFits
    <3>2. QED
      BY <3>1, <2>2 DEF JobFits, Passes
  <2>6. ToldFits'
    BY <2>1, <2>2 DEF Inv, TypeOK, ToldFits, Passes
  <2>7. QED
    BY <2>3, <2>4, <2>5, <2>6 DEF Inv
<1>10. ASSUME NEW w \in Workers, NEW id \in Ids, Create(w, id)
       PROVE  Inv'
  BY <1>10, CreateStep
<1>11. ASSUME NEW w \in Workers, Rehash(w)
       PROVE  Inv'
  BY <1>11, RehashStep
<1>12. ASSUME NEW w \in Workers, RehashFails(w)
       PROVE  Inv'
  BY <1>4, <1>12 DEF RehashFails
<1>13. ASSUME NEW w \in Workers, CreateRefused(w) \/ Fail(w)
       PROVE  Inv'
  BY <1>2, <1>3, <1>13 DEF CreateRefused, Fail
<1>14. ASSUME NEW w \in Workers, NEW cost \in Builds, Deploy(w, cost)
       PROVE  Inv'
  BY <1>2, <1>3, <1>14 DEF Deploy
<1>15. CASE UNCHANGED vars
  BY <1>15 DEF vars, Inv, TypeOK, RowsMatch, IdsDiffer, HashesFit, HashFits, JobsFit,
               JobFits, ToldFits, Passes
<1>16. QED
  BY <1>5, <1>6, <1>7, <1>8, <1>9, <1>10, <1>11, <1>12, <1>13, <1>14, <1>15 DEF Next

LEMMA Invariance == Spec => []Inv
<1>1. QED
  BY InvInit, InvNext, PTL DEF Spec
------------------------------------------------------------------------------
(* Every variable keeps its type. *)
THEOREM TypeCorrect == Spec => []TypeOK
<1>1. Inv => TypeOK
  BY DEF Inv
<1>2. QED
  BY <1>1, Invariance, PTL

(* kdf.rs, routes.rs signin - however many servers of however many builds   *)
(* rewrite its hash, an account verifies its owner's password and no other, *)
(* or, if it had a bcrypt hash, one that begins like it.                    *)
THEOREM PasswordsAreKept == Spec => []PasswordStaysTheOwners
<1>1. Inv => PasswordStaysTheOwners
  <2> SUFFICES ASSUME Inv, NEW e \in Emails, NEW w \in Workers, auths[e] # NoAuth
               PROVE  LET hash == auths[e].hash
                          right == {q \in Passwords : Verifies(w, q, hash)}
                          may == {q \in Passwords : Passes(e, q)}
                      IN IF hash.form = "bcrypt" THEN right = may
                         ELSE \E q \in may : right = {q}
    BY DEF PasswordStaysTheOwners
  <2> DEFINE hash == auths[e].hash
             right == {q \in Passwords : Verifies(w, q, hash)}
             may == {q \in Passwords : Passes(e, q)}
  <2>1. CASE e \in old /\ hash = Bcrypt(owner[e])
    <3>1. owner[e] \in Passwords
      BY <2>1 DEF Inv, TypeOK, RowsMatch
    <3>2. right = may
      BY <2>1, <3>1, VerifiesBcrypt DEF Passes
    <3>3. hash.form = "bcrypt"
      BY <2>1 DEF Bcrypt
    <3>4. QED
      BY <3>2, <3>3
  <2>2. ASSUME NEW p \in Passwords, Passes(e, p),
               \/ hash = OfNode(p)
               \/ \E cost \in Builds : hash = ScryptOf(p, cost)
        PROVE  hash.form # "bcrypt" /\ p \in may /\ right = {p}
    <3>1. \A q \in Passwords : Verifies(w, q, hash) <=> q = p
      BY <2>2, VerifiesNode, VerifiesScrypt
    <3>2. hash.form # "bcrypt"
      <4>1. OfNode(p).form = "node"
        BY DEF OfNode
      <4>2. \A cost \in Builds : ScryptOf(p, cost).form = "scrypt"
        BY DEF ScryptOf
      <4>3. hash.form \in {"node", "scrypt"}
        <5> HIDE DEF hash
        <5>1. QED
          BY <2>2, <4>1, <4>2
      <4>4. QED
        BY <4>3
    <3>3. QED
      BY <2>2, <3>1, <3>2
  <2>3. HashFits(e, hash)
    BY DEF Inv, HashesFit
  <2>4. QED
    BY <2>1, <2>2, <2>3 DEF HashFits
<1>2. QED
  BY <1>1, Invariance, PTL

(* routes.rs signup, create_account - whoever was answered for an account   *)
(* owns it, of two sign-ups for one email at once as well.                  *)
THEOREM AnsweredAreOwners == Spec => []AnsweredOwnTheirAccount
<1>1. Inv => AnsweredOwnTheirAccount
  BY DEF Inv, RowsMatch, IdsDiffer, ToldFits, AnsweredOwnTheirAccount
<1>2. QED
  BY <1>1, Invariance, PTL
==============================================================================

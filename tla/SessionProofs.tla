---------------------------- MODULE SessionProofs ----------------------------
(* Theorems about module Session, for any numbers of browsers and workers.  *)
EXTENDS Session, FiniteSetTheorems, TLAPS

(* A request whose header was dead when it was sent does not pass, and its  *)
(* header is not the token that the store has by now.                       *)
DeadStaysDead ==
    \A w \in Workers : job[w].dead =>
        /\ job[w].pc # "run"
        /\ job[w].pc = "check" => job[w].header \in {None} \cup (Tokens \ {csrf.tok})

(* An answer on its way to a browser that is not astray has the token of    *)
(* the store, or the store has none.                                        *)
GiftsAreCurrent ==
    \A b \in Browsers \ astray, w \in Workers :
        job[w].by = b /\ job[w].gift # None => csrf.tok \in {None, job[w].gift}

(* Such a browser has the token of the store, or it is on its way.          *)
StepIsComing ==
    \A b \in Browsers \ astray :
        \/ None \in {cookie[b], csrf.tok}
        \/ cookie[b] = csrf.tok
        \/ \E w \in Workers : job[w].by = b /\ job[w].gift = csrf.tok

Inv == TypeOK /\ DeadStaysDead /\ GiftsAreCurrent /\ StepIsComing
------------------------------------------------------------------------------
(* The values of a function on a finite set are no more than its elements. *)
LEMMA ImageIsSmall ==
    ASSUME NEW S, IsFiniteSet(S), NEW f, f = [x \in S |-> f[x]]
    PROVE  /\ IsFiniteSet({f[x] : x \in S})
           /\ Cardinality({f[x] : x \in S}) \in Nat
           /\ Cardinality({f[x] : x \in S}) <= Cardinality(S)
<1> DEFINE T == {f[x] : x \in S}
<1>1. f \in Surjection(S, T)
  BY DEF Surjection
<1>2. IsFiniteSet(T) /\ Cardinality(T) <= Cardinality(S)
  BY <1>1, FS_Surjection
<1>3. QED
  BY <1>2, FS_CardinalityType

LEMMA UnionIsSmall ==
    ASSUME NEW S, IsFiniteSet(S), NEW T, IsFiniteSet(T)
    PROVE  /\ IsFiniteSet(S \cup T)
           /\ Cardinality(S) \in Nat /\ Cardinality(T) \in Nat
           /\ Cardinality(S \cup T) \in Nat
           /\ Cardinality(S \cup T) <= Cardinality(S) + Cardinality(T)
<1>1. IsFiniteSet(S \cap T)
  BY FS_Subset, S \cap T \in SUBSET S
<1>2. QED
  BY <1>1, FS_Union, FS_CardinalityType

(* Whatever is in use, some token is not: there are enough of them. *)
LEMMA FreshTokenIsFresh == FreshToken \in Tokens /\ FreshToken \notin InUse
<1> DEFINE A == {csrf.tok}
           B == {cookie[b] : b \in Browsers}
           H == {job[w].header : w \in Workers}
           G == {job[w].gift : w \in Workers}
<1> USE SessionAssumption
<1>1. IsFiniteSet(A) /\ Cardinality(A) = 1
  BY FS_Singleton
<1>2. /\ IsFiniteSet(B) /\ Cardinality(B) \in Nat
      /\ Cardinality(B) <= Cardinality(Browsers)
  <2> DEFINE f == [b \in Browsers |-> cookie[b]]
  <2>1. B = {f[b] : b \in Browsers}
    OBVIOUS
  <2>2. f = [b \in Browsers |-> f[b]]
    OBVIOUS
  <2> HIDE DEF f, B
  <2>3. QED
    BY <2>1, <2>2, ImageIsSmall
<1>3. /\ IsFiniteSet(H) /\ Cardinality(H) \in Nat
      /\ Cardinality(H) <= Cardinality(Workers)
  <2> DEFINE f == [w \in Workers |-> job[w].header]
  <2>1. H = {f[w] : w \in Workers}
    OBVIOUS
  <2>2. f = [w \in Workers |-> f[w]]
    OBVIOUS
  <2> HIDE DEF f, H
  <2>3. QED
    BY <2>1, <2>2, ImageIsSmall
<1>4. /\ IsFiniteSet(G) /\ Cardinality(G) \in Nat
      /\ Cardinality(G) <= Cardinality(Workers)
  <2> DEFINE f == [w \in Workers |-> job[w].gift]
  <2>1. G = {f[w] : w \in Workers}
    OBVIOUS
  <2>2. f = [w \in Workers |-> f[w]]
    OBVIOUS
  <2> HIDE DEF f, G
  <2>3. QED
    BY <2>1, <2>2, ImageIsSmall
<1>5. InUse = ((A \cup B) \cup H) \cup G
  BY DEF InUse
<1> HIDE DEF A, B, H, G
<1>6. /\ IsFiniteSet(InUse) /\ Cardinality(InUse) \in Nat
      /\ Cardinality(InUse) <= 1 + Cardinality(B) + Cardinality(H) + Cardinality(G)
  <2>1. IsFiniteSet(A \cup B) /\ Cardinality(A \cup B) \in Nat
        /\ Cardinality(A \cup B) <= 1 + Cardinality(B)
    BY <1>1, <1>2, UnionIsSmall
  <2>2. IsFiniteSet((A \cup B) \cup H) /\ Cardinality((A \cup B) \cup H) \in Nat
        /\ Cardinality((A \cup B) \cup H) <= Cardinality(A \cup B) + Cardinality(H)
    BY <1>3, <2>1, UnionIsSmall
  <2>3. IsFiniteSet(((A \cup B) \cup H) \cup G)
        /\ Cardinality(((A \cup B) \cup H) \cup G) \in Nat
        /\ Cardinality(((A \cup B) \cup H) \cup G)
             <= Cardinality((A \cup B) \cup H) + Cardinality(G)
    BY <1>4, <2>2, UnionIsSmall
  <2>4. QED
    BY <1>2, <1>3, <1>4, <1>5, <2>1, <2>2, <2>3
<1>7. IsFiniteSet(Tokens) /\ Cardinality(Tokens) = NumTokens
  BY FS_Interval DEF Tokens
<1>8. Cardinality(InUse) < NumTokens
  <2>1. Cardinality(Browsers) \in Nat /\ Cardinality(Workers) \in Nat
    BY FS_CardinalityType
  <2>2. QED
    BY <1>2, <1>3, <1>4, <1>6, <2>1
<1>9. \E t \in Tokens : t \notin InUse
  <2> SUFFICES ASSUME Tokens \in SUBSET InUse PROVE FALSE
    OBVIOUS
  <2>1. Cardinality(Tokens) <= Cardinality(InUse)
    BY <1>6, FS_Subset
  <2>2. QED
    BY <1>6, <1>7, <1>8, <2>1
<1>10. QED
  BY <1>9 DEF FreshToken
------------------------------------------------------------------------------
LEMMA InvInit == Init => Inv
<1> SUFFICES ASSUME Init PROVE Inv
  OBVIOUS
<1>1. Idle \in Jobs
  BY DEF Idle, Jobs, PCs, Kinds
<1>2. TypeOK
  BY <1>1, SessionAssumption DEF Init, TypeOK, Entries, Idle
<1>3. DeadStaysDead /\ GiftsAreCurrent /\ StepIsComing
  BY DEF Init, DeadStaysDead, GiftsAreCurrent, StepIsComing, Idle, NoEntry
<1>4. QED
  BY <1>2, <1>3 DEF Inv

(* CsrfStore::set: the new token is in no header and no cookie, and only a  *)
(* browser with nothing else under way can count on getting it.             *)
LEMMA MintKeeps ==
    ASSUME Inv, NEW w \in Workers, NEW label \in {"done", "refused"},
           job[w].pc \in {"signin", "retry"}, Mint(w, label)
    PROVE  Inv'
<1> USE DEF Inv
<1>1. /\ csrf' = [tok |-> FreshToken, age |-> 0]
      /\ job' = [job EXCEPT ![w].pc = label, ![w].gift = FreshToken]
      /\ astray' = (astray \ {job[w].by}) \cup LeftBehind(w)
      /\ jwt' = jwt /\ cookie' = cookie
  BY DEF Mint
<1>2. FreshToken \in Tokens /\ FreshToken \notin InUse
  BY FreshTokenIsFresh
<1>3. FreshToken # None
  BY <1>2, SessionAssumption DEF Tokens, None
<1>4. /\ job[w] \in Jobs /\ job[w].by \in Browsers
      /\ job'[w] = [job[w] EXCEPT !.pc = label, !.gift = FreshToken]
      /\ job'[w] \in Jobs
      /\ job'[w].gift = FreshToken /\ job'[w].by = job[w].by /\ job'[w].pc = label
      /\ \A v \in Workers \ {w} : job'[v] = job[v]
  <2> DEFINE j == [job[w] EXCEPT !.pc = label, !.gift = FreshToken]
  <2>1. job[w] \in Jobs /\ job[w].by \in Browsers
    BY DEF TypeOK, Jobs
  <2>2. j \in Jobs /\ j.gift = FreshToken /\ j.by = job[w].by /\ j.pc = label
    BY <1>2, <2>1 DEF Jobs, PCs
  <2>3. job'[w] = j /\ \A v \in Workers \ {w} : job'[v] = job[v]
    BY <1>1, <2>1 DEF TypeOK, Jobs
  <2> HIDE DEF j
  <2>4. job'[w] \in Jobs /\ job'[w].gift = FreshToken /\ job'[w].by = job[w].by
        /\ job'[w].pc = label
    BY <2>2, <2>3
  <2>5. QED
    BY <2>1, <2>3, <2>4 DEF j
<1>5. TypeOK'
  <2>1. csrf' \in Entries
    BY <1>1, <1>2, SessionAssumption DEF Entries
  <2>2. job' \in [Workers -> Jobs]
    <3>1. job' = [v \in Workers |-> job'[v]]
      BY <1>1 DEF TypeOK
    <3>2. \A v \in Workers : job'[v] \in Jobs
      BY <1>4 DEF TypeOK
    <3>3. QED
      BY <3>1, <3>2
  <2>3. \A v \in Workers : job'[v].by = NoBrowser <=> job'[v].pc = "idle"
    <3>1. job'[w].by # NoBrowser /\ job'[w].pc # "idle"
      BY <1>4, SessionAssumption
    <3>2. QED
      BY <1>4, <3>1 DEF TypeOK
  <2>4. astray' \subseteq Browsers
    BY <1>1, <1>4 DEF TypeOK, LeftBehind
  <2>5. QED
    BY <1>1, <2>1, <2>2, <2>3, <2>4 DEF TypeOK
<1>6. DeadStaysDead'
  <2> SUFFICES ASSUME NEW v \in Workers, job'[v].dead
               PROVE  /\ job'[v].pc # "run"
                      /\ job'[v].pc = "check" =>
                            job'[v].header \in {None} \cup (Tokens \ {csrf'.tok})
    BY DEF DeadStaysDead
  <2>1. CASE v = w
    BY <1>4, <2>1 DEF Jobs
  <2>2. CASE v # w
    <3>1. job'[v] = job[v] /\ csrf'.tok = FreshToken
      BY <1>1, <1>4, <2>2
    <3>2. job[v].header # FreshToken
      BY <1>2 DEF InUse
    <3>3. QED
      BY <3>1, <3>2 DEF DeadStaysDead
  <2>3. QED
    BY <2>1, <2>2
<1>7. \A b \in Browsers \ astray' :
          b = job[w].by /\ \A v \in Workers \ {w} : job[v].pc = "idle"
  BY <1>1, <1>4 DEF LeftBehind, Busy
<1>8. GiftsAreCurrent'
  <2> SUFFICES ASSUME NEW b \in Browsers \ astray', NEW v \in Workers, job'[v].by = b,
                      job'[v].gift # None
               PROVE  csrf'.tok \in {None, job'[v].gift}
    BY DEF GiftsAreCurrent
  <2>1. v = w
    BY <1>4, <1>7, SessionAssumption DEF TypeOK
  <2>2. QED
    BY <1>1, <1>4, <2>1
<1>9. StepIsComing'
  <2>1. csrf'.tok = FreshToken
    BY <1>1
  <2>2. QED
    BY <1>4, <1>7, <2>1 DEF StepIsComing
<1>10. QED
  BY <1>5, <1>6, <1>8, <1>9

(* A step that takes a request to a place past the check, and leaves the    *)
(* store as it is or empties it.                                            *)
LEMMA StepKeeps ==
    ASSUME Inv, NEW w \in Workers, NEW label \in PCs \ {"idle", "check"},
           job[w].pc # "idle", Goto(w, label),
           csrf' \in {csrf, NoEntry},
           label = "run" => ~job[w].dead,
           UNCHANGED <<jwt, cookie, astray>>
    PROVE  Inv'
<1> USE DEF Inv
<1>1. /\ job[w] \in Jobs
      /\ job'[w] = [job[w] EXCEPT !.pc = label, !.header = None]
      /\ \A v \in Workers \ {w} : job'[v] = job[v]
  BY DEF Goto, TypeOK, Jobs
<1>2. NoEntry.tok = None
  BY DEF NoEntry
<1>3. TypeOK'
  <2>1. csrf' \in Entries
    BY DEF TypeOK, Entries
  <2>2. job' \in [Workers -> Jobs]
    BY DEF Goto, TypeOK, Jobs
  <2>3. \A v \in Workers : job'[v].by = NoBrowser <=> job'[v].pc = "idle"
    BY <1>1 DEF TypeOK, Jobs
  <2>4. QED
    BY <2>1, <2>2, <2>3 DEF TypeOK
<1>4. \A v \in Workers : job'[v].by = job[v].by /\ job'[v].gift = job[v].gift
  BY <1>1 DEF Jobs
<1>5. DeadStaysDead'
  <2> SUFFICES ASSUME NEW v \in Workers, job'[v].dead
               PROVE  /\ job'[v].pc # "run"
                      /\ job'[v].pc = "check" =>
                            job'[v].header \in {None} \cup (Tokens \ {csrf'.tok})
    BY DEF DeadStaysDead
  <2>1. CASE v = w
    BY <1>1, <2>1 DEF Jobs
  <2>2. CASE v # w
    <3>1. job'[v] = job[v]
      BY <1>1, <2>2
    <3>2. csrf'.tok \in {csrf.tok, None}
      BY <1>2
    <3>3. None \notin Tokens
      BY SessionAssumption DEF None, Tokens
    <3>4. QED
      BY <3>1, <3>2, <3>3 DEF DeadStaysDead
  <2>3. QED
    BY <2>1, <2>2
<1>6. GiftsAreCurrent' /\ StepIsComing'
  BY <1>2, <1>4 DEF GiftsAreCurrent, StepIsComing
<1>7. QED
  BY <1>3, <1>5, <1>6

(* A step of the store, the clock or a browser's cookies alone. *)
LEMMA QuietStep ==
    ASSUME Inv, csrf' \in Entries, csrf'.tok \in {csrf.tok, None},
           jwt' \in [Browsers -> BOOLEAN],
           cookie' \in [Browsers -> Tokens \cup {None}],
           \A b \in Browsers : cookie'[b] \in {cookie[b], None},
           UNCHANGED <<job, astray>>
    PROVE  Inv'
<1> USE DEF Inv
<1>1. TypeOK'
  BY DEF TypeOK
<1>2. None \notin Tokens
  BY SessionAssumption DEF None, Tokens
<1>3. DeadStaysDead'
  BY <1>2 DEF DeadStaysDead
<1>4. GiftsAreCurrent' /\ StepIsComing'
  BY DEF GiftsAreCurrent, StepIsComing
<1>5. QED
  BY <1>1, <1>3, <1>4

LEMMA SendKeeps ==
    ASSUME Inv, NEW b \in Browsers, NEW w \in Workers, NEW k \in Kinds, Send(b, w, k)
    PROVE  Inv'
<1> USE DEF Inv
<1> DEFINE j == IF k = "signin"
                THEN [Idle EXCEPT !.pc = "signin", !.by = b, !.kind = k]
                ELSE [Idle EXCEPT !.pc = "check", !.by = b, !.kind = k,
                                  !.header = cookie[b],
                                  !.dead = cookie[b] # csrf.tok]
<1>1. /\ job[w].pc = "idle" /\ job' = [job EXCEPT ![w] = j]
      /\ UNCHANGED <<csrf, jwt, cookie, astray>>
  BY DEF Send, Busy
<1>2. /\ j \in Jobs /\ j.by = b /\ j.pc \in {"signin", "check"} /\ j.gift = None
      /\ j.dead => j.pc = "check" /\ j.header = cookie[b] /\ j.header # csrf.tok
  BY DEF TypeOK, Jobs, Idle, PCs, Kinds
<1> HIDE DEF j
<1>3. /\ job'[w] = j
      /\ \A v \in Workers \ {w} : job'[v] = job[v]
  BY <1>1 DEF TypeOK
<1>4. TypeOK'
  BY <1>1, <1>2, <1>3, SessionAssumption DEF TypeOK
<1>5. DeadStaysDead'
  <2>1. cookie[b] \in Tokens \cup {None}
    BY DEF TypeOK
  <2>2. QED
    BY <1>1, <1>2, <1>3, <2>1 DEF DeadStaysDead
<1>6. GiftsAreCurrent'
  BY <1>1, <1>2, <1>3 DEF GiftsAreCurrent
<1>7. StepIsComing'
  <2>1. \A c \in Browsers : job[w].by # c
    BY <1>1, SessionAssumption DEF TypeOK
  <2>2. QED
    BY <1>1, <1>3, <2>1 DEF StepIsComing
<1>8. QED
  BY <1>4, <1>5, <1>6, <1>7

(* An answer reaches its browser, or is lost. *)
LEMMA AnswerKeeps ==
    ASSUME Inv, NEW w \in Workers, Reply(w) \/ ReplyLost(w)
    PROVE  Inv'
<1> USE DEF Inv
<1> DEFINE b == job[w].by
<1>1. /\ job[w] \in Jobs /\ b \in Browsers
      /\ job' = [job EXCEPT ![w] = Idle] /\ csrf' = csrf
  BY DEF Reply, ReplyLost, TypeOK, Jobs
<1>2. /\ Idle \in Jobs /\ Idle.by = NoBrowser /\ Idle.pc = "idle" /\ ~Idle.dead
      /\ Idle.gift = None
  BY DEF Idle, Jobs, PCs, Kinds
<1>3. /\ job'[w] = Idle
      /\ \A v \in Workers \ {w} : job'[v] = job[v]
  BY <1>1 DEF TypeOK
<1>4. /\ jwt' \in [Browsers -> BOOLEAN]
      /\ cookie' \in [Browsers -> Tokens \cup {None}]
      /\ astray \subseteq astray' /\ astray' \subseteq Browsers
      /\ \A c \in Browsers \ {b} : cookie'[c] = cookie[c]
      /\ b \notin astray' => \/ cookie'[b] = None
                             \/ job[w].gift # None /\ cookie'[b] = job[w].gift
                             \/ job[w].gift = None /\ cookie'[b] = cookie[b]
  <2>1. CASE Reply(w)
    <3> DEFINE out == job[w].pc = "done" /\ job[w].kind = "signout"
    <3>1. /\ astray' = astray
          /\ cookie' = [cookie EXCEPT ![b] =
                          IF out THEN None
                          ELSE IF job[w].gift # None THEN job[w].gift ELSE @]
          /\ jwt' = [jwt EXCEPT ![b] =
                        (@ \/ (job[w].pc = "done" /\ job[w].kind = "signin")) /\ ~out]
      BY <2>1 DEF Reply
    <3>2. job[w].gift \in Tokens \cup {None}
      BY <1>1 DEF Jobs
    <3> HIDE DEF out, b
    <3>3. cookie' \in [Browsers -> Tokens \cup {None}]
      BY <3>1, <3>2 DEF TypeOK
    <3>4. jwt' \in [Browsers -> BOOLEAN]
      BY <1>1, <3>1 DEF TypeOK
    <3>5. QED
      BY <1>1, <3>1, <3>3, <3>4 DEF TypeOK
  <2>2. CASE ReplyLost(w)
    BY <1>1, <2>2 DEF ReplyLost, TypeOK
  <2>3. QED
    BY <2>1, <2>2
<1>5. TypeOK'
  <2>1. job' \in [Workers -> Jobs]
    BY <1>1, <1>2 DEF TypeOK
  <2>2. QED
    BY <1>1, <1>2, <1>3, <1>4, <2>1 DEF TypeOK
<1>6. DeadStaysDead'
  BY <1>1, <1>2, <1>3 DEF DeadStaysDead
<1>7. GiftsAreCurrent'
  BY <1>1, <1>2, <1>3, <1>4 DEF GiftsAreCurrent
<1>8. StepIsComing'
  <2> SUFFICES ASSUME NEW c \in Browsers \ astray', cookie'[c] # None, csrf.tok # None
               PROVE  \/ cookie'[c] = csrf.tok
                      \/ \E v \in Workers : job'[v].by = c /\ job'[v].gift = csrf.tok
    BY <1>1 DEF StepIsComing
  <2>1. c \in Browsers \ astray
    BY <1>4
  <2>2. CASE c = b /\ job[w].gift # None
    BY <1>4, <2>1, <2>2 DEF GiftsAreCurrent
  <2>3. CASE ~(c = b /\ job[w].gift # None)
    <3>1. cookie'[c] = cookie[c]
      BY <1>4, <2>3
    <3>2. CASE cookie[c] = csrf.tok
      BY <3>1, <3>2
    <3>3. CASE cookie[c] # csrf.tok
      <4>1. PICK v \in Workers : job[v].by = c /\ job[v].gift = csrf.tok
        BY <2>1, <3>1, <3>3 DEF StepIsComing
      <4>2. v # w
        BY <2>3, <4>1
      <4>3. QED
        BY <1>3, <4>1, <4>2
    <3>4. QED
      BY <3>2, <3>3
  <2>4. QED
    BY <2>2, <2>3
<1>9. QED
  BY <1>5, <1>6, <1>7, <1>8

LEMMA RestartKeeps == Inv /\ Restart => Inv'
<1> SUFFICES ASSUME Inv, Restart PROVE Inv'
  OBVIOUS
<1> USE DEF Inv, Restart
<1>1. Idle \in Jobs
  BY DEF Idle, Jobs, PCs, Kinds
<1>2. TypeOK'
  BY <1>1 DEF TypeOK, Entries, Idle
<1>3. DeadStaysDead' /\ GiftsAreCurrent' /\ StepIsComing'
  BY DEF DeadStaysDead, GiftsAreCurrent, StepIsComing, Idle, NoEntry
<1>4. QED
  BY <1>2, <1>3

LEMMA InvNext == Inv /\ [Next]_vars => Inv'
<1> SUFFICES ASSUME Inv, [Next]_vars PROVE Inv'
  OBVIOUS
<1> USE DEF Inv
<1>1. CASE Tick
  <2>1. csrf' \in Entries /\ csrf'.tok = csrf.tok
    BY <1>1, SessionAssumption DEF Tick, TypeOK, Entries, NoEntry
  <2>2. QED
    BY <1>1, <2>1, QuietStep DEF Tick, TypeOK
<1>2. CASE Cleanup
  BY <1>2, QuietStep DEF Cleanup, TypeOK, Entries, NoEntry
<1>3. CASE Restart
  BY <1>3, RestartKeeps
<1>4. ASSUME NEW b \in Browsers, ForgetCookie(b) \/ ForgetJwt(b)
      PROVE  Inv'
  BY <1>4, QuietStep DEF ForgetCookie, ForgetJwt, TypeOK
<1>5. ASSUME NEW b \in Browsers, NEW w \in Workers, NEW k \in Kinds, Send(b, w, k)
      PROVE  Inv'
  BY <1>5, SendKeeps
<1>6. ASSUME NEW w \in Workers, Serve(w)
      PROVE  Inv'
  <2>1. CASE SignIn(w) \/ Retry(w)
    BY <2>1, MintKeeps DEF SignIn, Retry
  <2>2. CASE SignInRefused(w) \/ RetryFails(w)
    BY <2>2, StepKeeps DEF SignInRefused, RetryFails, PCs
  <2>3. CASE Check(w)
    <3>1. PICK label \in {"refused", "retry", "run"} : Goto(w, label)
      BY <2>3 DEF Check
    <3>2. job[w].pc = "check" /\ UNCHANGED <<csrf, jwt, cookie, astray>>
      BY <2>3 DEF Check
    <3>3. label = "run" => job[w].header = csrf.tok /\ job[w].header # None
      BY <2>3, <3>1, <3>2 DEF Check, Goto, TypeOK, Jobs
    <3>4. label = "run" => ~job[w].dead
      BY <3>2, <3>3 DEF DeadStaysDead
    <3>5. QED
      BY <3>1, <3>2, <3>4, StepKeeps DEF PCs
  <2>4. CASE Run(w)
    <3>1. ~job[w].dead
      BY <2>4 DEF Run, DeadStaysDead
    <3>2. QED
      BY <2>4, StepKeeps DEF Run, PCs
  <2>5. CASE Reply(w) \/ ReplyLost(w)
    BY <2>5, AnswerKeeps
  <2>6. QED
    BY <1>6, <2>1, <2>2, <2>3, <2>4, <2>5 DEF Serve
<1>7. CASE UNCHANGED vars
  BY <1>7, QuietStep DEF vars, TypeOK
<1>8. QED
  BY <1>1, <1>2, <1>3, <1>4, <1>5, <1>6, <1>7 DEF Next

LEMMA InvHolds == Spec => []Inv
  BY InvInit, InvNext, PTL DEF Spec
------------------------------------------------------------------------------
(* The state has its type: what the cookies and the store hold are tokens,  *)
(* also those that were minted with many requests under way.                *)
THEOREM TypeCorrect == Spec => []TypeOK
<1>1. Inv => TypeOK
  BY DEF Inv
<1>2. QED
  BY <1>1, InvHolds, PTL

(* routes.rs require_csrf - a token that was dead when the request was sent *)
(* lets it through in no case: the store is never given a token again.      *)
THEOREM DeadTokensAreRefused == Spec => []DeadTokenIsRefused
<1>1. Inv => DeadTokenIsRefused
  BY DEF Inv, DeadStaysDead, DeadTokenIsRefused
<1>2. QED
  BY <1>1, InvHolds, PTL

(* routes.rs set_auth_cookies, csrf_retry - a browser at rest whose         *)
(* requests did not overlap, and whose answers came, has the token of the   *)
(* store, if both have one.                                                 *)
THEOREM BrowsersKeepInStep == Spec => []BrowserKeepsInStep
<1>1. Inv => BrowserKeepsInStep
  BY SessionAssumption DEF Inv, TypeOK, StepIsComing, BrowserKeepsInStep, Busy
<1>2. QED
  BY <1>1, InvHolds, PTL
==============================================================================

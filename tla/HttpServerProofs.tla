-------------------------- MODULE HttpServerProofs --------------------------
(* Theorems about module HttpServer, for any numbers of connections and     *)
(* workers, any length of the queue and any timeouts.                       *)
EXTENDS HttpServer, FiniteSetTheorems, SequenceTheorems, TLAPS

(* Only a stopped server has closed its listener, or woken its acceptor.    *)
StopsFirst ==
    /\ Accepting \/ stop
    /\ trig # "idle" => stop
    /\ \A i \in DOMAIN backlog : backlog[i] = Wake => stop

(* A worker without a connection has none; while lines are read, what is    *)
(* left of the budget and what is spent never exceed it together, and the   *)
(* socket waits no longer than what is left.  While data are read, which    *)
(* may take longer, this holds as long as something is left: without that,  *)
(* no line follows.                                                         *)
JobFits(j) ==
    /\ j.pc \in {"recv", "exited"} => j.conn = NoConn
    /\ j.pc \in {"headers", "size"} => j.spent + j.left <= RequestTimeout /\ j.sock <= j.left
    /\ j.pc = "data" /\ j.left > 0 => j.spent + j.left <= RequestTimeout

JobsFit == \A w \in Workers : JobFits(job[w])

Inv == TypeOK /\ StopsFirst /\ PoolKeepsItsSize /\ JobsFit /\ ConnsHaveOnePlace
------------------------------------------------------------------------------
(* Facts about the data. *)

(* A read is armed with no more than what is left. *)
LEMMA ArmFits ==
    ASSUME NEW j \in Jobs, NEW left \in Nat
    PROVE  /\ Arm(j, left) \in Jobs
           /\ Arm(j, left).left = left /\ Arm(j, left).sock <= left
           /\ Arm(j, left).pc = j.pc /\ Arm(j, left).conn = j.conn
           /\ Arm(j, left).spent = j.spent
<1> DEFINE t == Lower(left, ReadTimeout)
<1>1. t \in Times /\ t <= left
  BY HttpServerAssumption DEF Lower, Times
<1>2. Arm(j, left) = [j EXCEPT !.left = left, !.armed = t, !.sock = t]
  BY DEF Arm
<1> HIDE DEF t
<1>3. QED
  BY <1>1, <1>2 DEF Jobs

LEMMA FreeFits == Free \in Jobs /\ JobFits(Free)
  BY HttpServerAssumption DEF Free, Jobs, PCs, Times, JobFits

(* How often a connection is in a sequence, and by how many it is served.   *)
Places(s, c) == {i \in DOMAIN s : s[i] = c}
Count(s, c) == Cardinality(Places(s, c))
Serving(f, c) == {w \in Workers : f[w].conn = c}
Served(f, c) == Cardinality(Serving(f, c))

LEMMA CountIsFinite ==
    ASSUME NEW S, NEW s \in Seq(S), NEW c
    PROVE  IsFiniteSet(Places(s, c)) /\ Count(s, c) \in Nat
<1>1. IsFiniteSet(1..Len(s))
  BY FS_Interval
<1>2. Places(s, c) \subseteq 1..Len(s)
  BY DEF Places
<1>3. QED
  BY <1>1, <1>2, FS_Subset, FS_CardinalityType DEF Count

LEMMA CountOfEmpty ==
    ASSUME NEW c
    PROVE  Count(<<>>, c) = 0
<1>1. Places(<<>>, c) = {}
  BY DEF Places
<1>2. QED
  BY <1>1, FS_EmptySet DEF Count

LEMMA CountOfAppend ==
    ASSUME NEW S, NEW s \in Seq(S), NEW x \in S, NEW c
    PROVE  Count(Append(s, x), c) = Count(s, c) + IF x = c THEN 1 ELSE 0
<1>1. /\ Len(s) \in Nat /\ DOMAIN Append(s, x) = 1..Len(s) + 1 /\ DOMAIN s = 1..Len(s)
      /\ \A i \in 1..Len(s) : Append(s, x)[i] = s[i]
      /\ Append(s, x)[Len(s) + 1] = x
  OBVIOUS
<1>2. CASE x = c
  <2>1. Places(Append(s, x), c) = Places(s, c) \cup {Len(s) + 1}
    BY <1>1, <1>2 DEF Places
  <2>2. Len(s) + 1 \notin Places(s, c)
    BY <1>1 DEF Places
  <2>3. QED
    BY <1>2, <2>1, <2>2, CountIsFinite, FS_AddElement DEF Count
<1>3. CASE x # c
  <2>1. Places(Append(s, x), c) = Places(s, c)
    BY <1>1, <1>3 DEF Places
  <2>2. QED
    BY <1>3, <2>1, CountIsFinite DEF Count
<1>4. QED
  BY <1>2, <1>3

(* Taking the head is undoing that it was put before the tail: the places   *)
(* of the tail are those of the rest, one lower.                            *)
LEMMA CountOfTail ==
    ASSUME NEW S, NEW s \in Seq(S), s # <<>>, NEW c
    PROVE  Count(Tail(s), c) = Count(s, c) - IF Head(s) = c THEN 1 ELSE 0
<1>1. /\ Len(s) \in Nat \ {0} /\ DOMAIN s = 1..Len(s) /\ Head(s) = s[1]
      /\ Tail(s) \in Seq(S) /\ DOMAIN Tail(s) = 1..Len(s) - 1
      /\ \A i \in 1..Len(s) - 1 : Tail(s)[i] = s[i + 1]
  OBVIOUS
<1> DEFINE Rest == Places(s, c) \ {1}
           f == [i \in Places(Tail(s), c) |-> i + 1]
<1>2. IsFiniteSet(Places(Tail(s), c)) /\ IsFiniteSet(Places(s, c)) /\ IsFiniteSet(Rest)
  BY <1>1, CountIsFinite, FS_Subset
<1>3. f \in Bijection(Places(Tail(s), c), Rest)
  <2>1. \A i \in Places(Tail(s), c) : f[i] \in Rest
    BY <1>1 DEF Places
  <2>2. f \in Injection(Places(Tail(s), c), Rest)
    BY <2>1, <1>1 DEF Injection, IsInjective, Places
  <2>3. ASSUME NEW k \in Rest PROVE \E i \in Places(Tail(s), c) : f[i] = k
    <3>1. k - 1 \in Places(Tail(s), c)
      BY <1>1 DEF Places
    <3>2. f[k - 1] = k
      BY <3>1, <1>1 DEF Places
    <3>3. QED
      BY <3>1, <3>2
  <2>4. QED
    BY <2>1, <2>2, <2>3 DEF Bijection, Surjection
<1>4. Count(Tail(s), c) = Cardinality(Rest)
  BY <1>2, <1>3, FS_Bijection DEF Count, ExistsBijection
<1>5. CASE Head(s) = c
  <2>1. 1 \in Places(s, c)
    BY <1>1, <1>5 DEF Places
  <2>2. QED
    BY <1>2, <1>4, <1>5, <2>1, FS_RemoveElement DEF Count
<1>6. CASE Head(s) # c
  <2>1. Rest = Places(s, c)
    BY <1>1, <1>6 DEF Places
  <2>2. Count(s, c) \in Nat
    BY CountIsFinite
  <2> HIDE DEF Rest
  <2>3. QED
    BY <1>4, <1>6, <2>1, <2>2 DEF Count
<1>7. QED
  BY <1>5, <1>6

LEMMA ServedIsFinite ==
    ASSUME NEW f, NEW c
    PROVE  IsFiniteSet(Serving(f, c)) /\ Served(f, c) \in Nat
  BY HttpServerAssumption, FS_Subset, FS_CardinalityType DEF Serving, Served

(* A worker gives up one connection for another, or for none. *)
LEMMA ServedAfter ==
    ASSUME TypeOK, NEW w \in Workers, NEW j \in Jobs, job' = [job EXCEPT ![w] = j], NEW c
    PROVE  Served(job', c) = Served(job, c) - (IF job[w].conn = c THEN 1 ELSE 0)
                                            + (IF j.conn = c THEN 1 ELSE 0)
<1> DEFINE Others == Serving(job, c) \ {w}
<1>1. IsFiniteSet(Others) /\ Cardinality(Others) \in Nat /\ w \notin Others
  BY ServedIsFinite, FS_Subset, FS_CardinalityType
<1>2. Served(job, c) = Cardinality(Others) + (IF job[w].conn = c THEN 1 ELSE 0)
  <2>1. CASE job[w].conn = c
    <3>1. Serving(job, c) = Others \cup {w}
      BY <2>1 DEF Serving, TypeOK
    <3>2. QED
      BY <1>1, <2>1, <3>1, FS_AddElement DEF Served
  <2>2. CASE job[w].conn # c
    <3>1. Serving(job, c) = Others
      BY <2>2 DEF Serving, TypeOK
    <3>2. QED
      BY <1>1, <2>2, <3>1 DEF Served
  <2>3. QED
    BY <2>1, <2>2
<1>3. Served(job', c) = Cardinality(Others) + (IF j.conn = c THEN 1 ELSE 0)
  <2>1. CASE j.conn = c
    <3>1. Serving(job', c) = Others \cup {w}
      BY <2>1 DEF Serving, TypeOK
    <3>2. QED
      BY <1>1, <2>1, <3>1, FS_AddElement DEF Served
  <2>2. CASE j.conn # c
    <3>1. Serving(job', c) = Others
      BY <2>2 DEF Serving, TypeOK
    <3> HIDE DEF Others
    <3>2. QED
      BY <1>1, <2>2, <3>1 DEF Served
  <2>3. QED
    BY <2>1, <2>2
<1> HIDE DEF Others
<1>4. QED
  BY <1>1, <1>2, <1>3
------------------------------------------------------------------------------
(* The three places of a connection add up: ConnsHaveOnePlace in terms of   *)
(* the counts above.                                                        *)
Total(b, q, f, c) == Count(b, c) + Count(q, c) + Served(f, c)

LEMMA OnePlaceIsTotal ==
    ConnsHaveOnePlace <=>
        \A c \in Conns : Total(backlog, queue, job, c) = IF c \in open THEN 1 ELSE 0
  BY DEF ConnsHaveOnePlace, Total, Count, Places, Served, Serving

LEMMA CountsAreNumbers ==
    ASSUME TypeOK, NEW c
    PROVE  Count(backlog, c) \in Nat /\ Count(queue, c) \in Nat /\ Served(job, c) \in Nat
  BY CountIsFinite, ServedIsFinite DEF TypeOK

LEMMA InvInit == Init => Inv
<1> SUFFICES ASSUME Init PROVE Inv
  OBVIOUS
<1> USE HttpServerAssumption
<1>1. Cardinality(Workers) \in Nat
  BY FS_CardinalityType
<1>2. TypeOK
  <2>0. stop \in BOOLEAN /\ signalled \in BOOLEAN
    BY Zenon DEF Init
  <2>1. /\ live \in 0..Cardinality(Workers)
        /\ trig \in {"idle", "wake", "woken", "unwoken"}
        /\ acceptor \in {"accept", "gone"}
        /\ open \subseteq Conns
    BY <1>1 DEF Init
  <2>2. main \in [pc : {"wait", "waitlive", "returned"}, left : 0..Grace]
    BY DEF Init
  <2>3. /\ backlog \in Seq(Conns \cup {Wake})
        /\ queue \in Seq(Conns) /\ Len(queue) <= MaxQueued
    BY DEF Init
  <2>4. job \in [Workers -> Jobs]
    BY FreeFits DEF Init
  <2>5. QED
    BY <2>0, <2>1, <2>2, <2>3, <2>4 DEF TypeOK
<1>3. StopsFirst
  BY DEF Init, StopsFirst, Accepting
<1>4. PoolKeepsItsSize
  <2>1. {w \in Workers : job[w].pc # "exited"} = Workers
    BY DEF Init, Free
  <2>2. QED
    BY <2>1 DEF Init, PoolKeepsItsSize, Free
<1>5. JobsFit
  BY FreeFits DEF Init, JobsFit
<1>6. ConnsHaveOnePlace
  <2> SUFFICES ASSUME NEW c \in Conns
               PROVE  Total(backlog, queue, job, c) = IF c \in open THEN 1 ELSE 0
    BY OnePlaceIsTotal
  <2>1. Count(backlog, c) = 0 /\ Count(queue, c) = 0
    BY CountOfEmpty DEF Init
  <2>2. Serving(job, c) = {}
    BY DEF Init, Free, Serving
  <2>3. Served(job, c) = 0
    BY <2>2, FS_EmptySet DEF Served
  <2>4. QED
    BY <2>1, <2>3 DEF Init, Total
<1>7. QED
  BY <1>2, <1>3, <1>4, <1>5, <1>6 DEF Inv
------------------------------------------------------------------------------
(* How the pool's size is kept by a step that lets nobody leave. *)
LEMMA SameSize ==
    ASSUME Inv, NEW w \in Workers, NEW j \in Jobs, j.pc # "exited", job[w].pc # "exited",
           job' = [job EXCEPT ![w] = j], live' = live,
           UNCHANGED <<stop, acceptor>>, queue = <<>> => queue' = <<>>
    PROVE  PoolKeepsItsSize'
<1>1. \A v \in Workers : job'[v].pc = "exited" <=> job[v].pc = "exited"
  BY DEF Inv, TypeOK
<1>2. {v \in Workers : job'[v].pc # "exited"} = {v \in Workers : job[v].pc # "exited"}
  BY <1>1
<1>3. QED
  BY <1>1, <1>2 DEF Inv, PoolKeepsItsSize, Accepting

(* A step of one worker with the connection it has. *)
LEMMA JobStep ==
    ASSUME Inv, NEW w \in Workers, NEW j \in Jobs, JobFits(j), j.conn = job[w].conn,
           j.pc # "exited", job[w].pc # "exited", job' = [job EXCEPT ![w] = j],
           UNCHANGED <<server, backlog, queue, open>>
    PROVE  Inv'
<1>1. TypeOK' /\ StopsFirst' /\ JobsFit'
  BY DEF Inv, TypeOK, StopsFirst, JobsFit, Accepting, server
<1>2. PoolKeepsItsSize'
  BY SameSize DEF server
<1>3. ConnsHaveOnePlace'
  <2>1. \A v \in Workers : job'[v].conn = job[v].conn
    BY DEF Inv, TypeOK
  <2>2. \A c : {v \in Workers : job'[v].conn = c} = {v \in Workers : job[v].conn = c}
    BY <2>1
  <2>3. QED
    BY <2>2 DEF Inv, ConnsHaveOnePlace
<1>4. QED
  BY <1>1, <1>2, <1>3 DEF Inv

(* A worker closes its connection and is free. *)
LEMMA FreeStep ==
    ASSUME Inv, NEW w \in Workers, job[w].pc # "exited",
           job' = [job EXCEPT ![w] = Free], open' = open \ {job[w].conn},
           UNCHANGED <<server, backlog, queue>>
    PROVE  Inv'
<1> USE HttpServerAssumption
<1>1. TypeOK' /\ StopsFirst' /\ JobsFit'
  BY FreeFits DEF Inv, TypeOK, StopsFirst, JobsFit, Accepting, server
<1>2. PoolKeepsItsSize'
  <2>1. Free.pc # "exited"
    BY DEF Free
  <2>2. QED
    BY <2>1, FreeFits, SameSize DEF server
<1>3. ASSUME NEW c \in Conns
      PROVE  Total(backlog, queue, job, c)' = IF c \in open' THEN 1 ELSE 0
  <2>1. Total(backlog, queue, job, c) = IF c \in open THEN 1 ELSE 0
    BY OnePlaceIsTotal DEF Inv
  <2>2. Free.conn # c
    BY DEF Free
  <2>3. Served(job', c) = Served(job, c) - IF job[w].conn = c THEN 1 ELSE 0
    <3>1. Served(job', c) = Served(job, c) - (IF job[w].conn = c THEN 1 ELSE 0)
                              + (IF Free.conn = c THEN 1 ELSE 0)
      BY FreeFits, ServedAfter DEF Inv
    <3>2. Served(job, c) \in Nat
      BY CountsAreNumbers DEF Inv
    <3>3. QED
      BY <3>1, <3>2, <2>2
  <2>4. Served(job', c) \in Nat
    BY ServedIsFinite
  <2>5. Count(backlog, c) \in Nat /\ Count(queue, c) \in Nat /\ Served(job, c) \in Nat
    BY CountsAreNumbers DEF Inv
  <2>6. Count(backlog', c) = Count(backlog, c) /\ Count(queue', c) = Count(queue, c)
    OBVIOUS
  <2>7. c \in open' <=> c \in open /\ job[w].conn # c
    OBVIOUS
  <2>8. QED
    BY <2>1, <2>3, <2>4, <2>5, <2>6, <2>7 DEF Total
<1>4. ConnsHaveOnePlace'
  BY <1>3 DEF ConnsHaveOnePlace, Total, Count, Places, Served, Serving
<1>5. QED
  BY <1>1, <1>2, <1>4 DEF Inv
------------------------------------------------------------------------------
(* A step of the acceptor, the clients or trigger: no worker moves.         *)
LEMMA ElsewhereStep ==
    ASSUME Inv, TypeOK', StopsFirst', UNCHANGED <<live, job>>,
           stop => stop', ~Accepting => ~Accepting', ~Accepting => queue' = queue,
           \A c \in Conns : Total(backlog, queue, job, c)' = IF c \in open' THEN 1 ELSE 0
    PROVE  Inv'
<1>1. JobsFit'
  BY DEF Inv, JobsFit
<1>2. PoolKeepsItsSize'
  <2>1. live' = Cardinality({w \in Workers : job'[w].pc # "exited"})
    BY DEF Inv, PoolKeepsItsSize
  <2>2. \A w \in Workers : job'[w].pc = "exited" => stop' /\ ~Accepting' /\ queue' = <<>>
    BY DEF Inv, PoolKeepsItsSize
  <2>3. QED
    BY <2>1, <2>2 DEF PoolKeepsItsSize
<1>3. ConnsHaveOnePlace'
  BY DEF ConnsHaveOnePlace, Total, Count, Places, Served, Serving
<1>4. QED
  BY <1>1, <1>2, <1>3 DEF Inv

LEMMA ConnectStep ==
    ASSUME Inv, NEW c \in Conns, Connect(c)
    PROVE  Inv'
<1> USE HttpServerAssumption
<1>1. TypeOK'
  BY DEF Inv, TypeOK, Connect, server
<1>2. Accepting /\ Accepting' /\ UNCHANGED <<live, job, queue, stop, trig>>
  BY DEF Connect, Accepting, server
<1>3. StopsFirst'
  <2>1. \A i \in DOMAIN Append(backlog, c) : Append(backlog, c)[i] = Wake =>
            i \in DOMAIN backlog /\ backlog[i] = Wake
    BY DEF Inv, TypeOK
  <2>2. QED
    BY <2>1, <1>2 DEF Inv, StopsFirst, Connect
<1>4. ASSUME NEW d \in Conns
      PROVE  Total(backlog, queue, job, d)' = IF d \in open' THEN 1 ELSE 0
  <2>1. Total(backlog, queue, job, d) = IF d \in open THEN 1 ELSE 0
    BY OnePlaceIsTotal DEF Inv
  <2>2. Count(backlog', d) = Count(backlog, d) + IF c = d THEN 1 ELSE 0
    <3>1. /\ backlog \in Seq(Conns \cup {Wake}) /\ c \in Conns \cup {Wake}
          /\ backlog' = Append(backlog, c)
      BY DEF Inv, TypeOK, Connect
    <3>2. QED
      BY <3>1, CountOfAppend
  <2>3. Count(queue', d) = Count(queue, d) /\ Served(job', d) = Served(job, d)
    BY <1>2
  <2>4. Count(backlog, d) \in Nat /\ Count(queue, d) \in Nat /\ Served(job, d) \in Nat
    BY CountsAreNumbers DEF Inv
  <2>5. c \notin open /\ open' = open \cup {c}
    BY DEF Connect
  <2>6. QED
    BY <2>1, <2>2, <2>3, <2>4, <2>5 DEF Total
<1>5. QED
  BY <1>1, <1>2, <1>3, <1>4, ElsewhereStep

LEMMA AcceptStep ==
    ASSUME Inv, Accept \/ AcceptFails
    PROVE  Inv'
<1> USE HttpServerAssumption
<1>1. /\ backlog # <<>> /\ Accepting /\ Accepting' /\ ~stop
      /\ backlog' = Tail(backlog)
      /\ UNCHANGED <<live, job, stop, signalled, trig, main, acceptor>>
  BY DEF Accept, AcceptFails, server, Accepting
<1>2. PICK c \in Conns : c = Head(backlog)
  <2>1. Head(backlog) \in Conns \cup {Wake} /\ Head(backlog) = backlog[1] /\ 1 \in DOMAIN backlog
    BY <1>1 DEF Inv, TypeOK
  <2>2. QED
    BY <2>1, <1>1 DEF Inv, StopsFirst
<1>3. \/ /\ Len(queue) < MaxQueued
         /\ queue' = Append(queue, c) /\ open' = open
      \/ queue' = queue /\ open' = open \ {c}
  BY <1>2 DEF Accept, AcceptFails
<1>4. TypeOK'
  <2>1. queue' \in Seq(Conns) /\ Len(queue') <= MaxQueued
    BY <1>3 DEF Inv, TypeOK
  <2>2. backlog' \in Seq(Conns \cup {Wake}) /\ open' \subseteq Conns
    BY <1>1, <1>3 DEF Inv, TypeOK
  <2>3. QED
    BY <1>1, <2>1, <2>2 DEF Inv, TypeOK
<1>5. StopsFirst'
  <2>1. \A i \in DOMAIN Tail(backlog) : i + 1 \in DOMAIN backlog
                                     /\ Tail(backlog)[i] = backlog[i + 1]
    BY <1>1 DEF Inv, TypeOK
  <2>2. QED
    BY <1>1, <2>1 DEF Inv, StopsFirst, Accepting
<1>6. ASSUME NEW d \in Conns
      PROVE  Total(backlog, queue, job, d)' = IF d \in open' THEN 1 ELSE 0
  <2>1. Total(backlog, queue, job, d) = IF d \in open THEN 1 ELSE 0
    BY OnePlaceIsTotal DEF Inv
  <2>2. Count(backlog', d) = Count(backlog, d) - IF c = d THEN 1 ELSE 0
    BY <1>1, <1>2, CountOfTail DEF Inv, TypeOK
  <2>3. Served(job', d) = Served(job, d)
    BY <1>1
  <2>4. Count(backlog, d) \in Nat /\ Count(queue, d) \in Nat /\ Served(job, d) \in Nat
    BY CountsAreNumbers DEF Inv
  <2>5. Count(backlog', d) \in Nat
    <3>1. backlog' \in Seq(Conns \cup {Wake})
      BY <1>4 DEF TypeOK
    <3>2. QED
      BY <3>1, CountIsFinite
  <2>6. CASE queue' = Append(queue, c) /\ open' = open
    <3>1. Count(queue', d) = Count(queue, d) + IF c = d THEN 1 ELSE 0
      BY <2>6, CountOfAppend DEF Inv, TypeOK
    <3>2. QED
      BY <2>1, <2>2, <2>3, <2>4, <2>6, <3>1 DEF Total
  <2>7. CASE queue' = queue /\ open' = open \ {c}
    BY <2>1, <2>2, <2>3, <2>4, <2>5, <2>7 DEF Total
  <2>8. QED
    BY <1>3, <2>6, <2>7
<1>7. QED
  BY <1>1, <1>4, <1>5, <1>6, ElsewhereStep

(* The listener is closed, and with it all that was in the backlog. *)
LEMMA AcceptStopsStep ==
    ASSUME Inv, AcceptStops
    PROVE  Inv'
<1> USE HttpServerAssumption
<1>1. /\ Accepting /\ stop /\ ~Accepting' /\ backlog' = <<>> /\ acceptor' = "gone"
      /\ open' = open \ ToSet(backlog)
      /\ UNCHANGED <<stop, signalled, live, trig, main, queue, job>>
  BY DEF AcceptStops, Accepting
<1>2. TypeOK' /\ StopsFirst'
  BY <1>1 DEF Inv, TypeOK, StopsFirst
<1>3. ASSUME NEW d \in Conns
      PROVE  Total(backlog, queue, job, d)' = IF d \in open' THEN 1 ELSE 0
  <2>1. Total(backlog, queue, job, d) = IF d \in open THEN 1 ELSE 0
    BY OnePlaceIsTotal DEF Inv
  <2>2. Count(backlog', d) = 0
    BY <1>1, CountOfEmpty
  <2>3. Count(queue', d) = Count(queue, d) /\ Served(job', d) = Served(job, d)
    BY <1>1
  <2>4. Count(backlog, d) \in Nat /\ Count(queue, d) \in Nat /\ Served(job, d) \in Nat
    BY CountsAreNumbers DEF Inv
  <2>5. CASE d \in ToSet(backlog)
    <3>1. Places(backlog, d) # {}
      BY <2>5 DEF Places, ToSet
    <3>2. Count(backlog, d) # 0
      BY <3>1, CountIsFinite, FS_EmptySet DEF Inv, TypeOK, Count
    <3>3. QED
      BY <1>1, <2>1, <2>2, <2>3, <2>4, <2>5, <3>2 DEF Total
  <2>6. CASE d \notin ToSet(backlog)
    <3>1. Places(backlog, d) = {}
      BY <2>6 DEF Places, ToSet
    <3>2. Count(backlog, d) = 0
      BY <3>1, FS_EmptySet DEF Count
    <3>3. QED
      BY <1>1, <2>1, <2>2, <2>3, <2>4, <2>6, <3>2 DEF Total
  <2>7. QED
    BY <2>5, <2>6
<1>4. QED
  BY <1>1, <1>2, <1>3, ElsewhereStep

(* trigger: its own connection is none of the clients'. *)
LEMMA TriggerStep ==
    ASSUME Inv, TriggerStop \/ Trigger
    PROVE  Inv'
<1> USE HttpServerAssumption
<1>0. stop => stop'
  <2>1. stop' = TRUE \/ stop' = stop
    BY DEF TriggerStop, Trigger, TriggerWake, TriggerWakeFails, TriggerSignal
  <2>2. QED
    BY <2>1, Zenon
<1>1. /\ UNCHANGED <<live, main, acceptor, queue, open, job>>
      /\ \/ backlog' = backlog
         \/ stop /\ backlog' = Append(backlog, Wake)
  <2>1. CASE TriggerStop \/ TriggerWakeFails \/ TriggerSignal
    BY <2>1 DEF TriggerStop, TriggerWakeFails, TriggerSignal
  <2>2. CASE TriggerWake
    <3>1. trig # "idle" /\ UNCHANGED <<live, main, acceptor, queue, open, job>>
      BY <2>2 DEF TriggerWake
    <3>2. backlog' = backlog \/ backlog' = Append(backlog, Wake)
      BY <2>2 DEF TriggerWake
    <3>3. stop
      BY <3>1 DEF Inv, StopsFirst
    <3>4. QED
      BY <3>1, <3>2, <3>3
  <2>3. QED
    BY <2>1, <2>2 DEF Trigger
<1>2. backlog' \in Seq(Conns \cup {Wake})
  <2>1. backlog \in Seq(Conns \cup {Wake}) /\ Wake \in Conns \cup {Wake}
    BY DEF Inv, TypeOK
  <2>2. Append(backlog, Wake) \in Seq(Conns \cup {Wake})
    BY <2>1, AppendProperties
  <2>3. QED
    BY <1>1, <2>1, <2>2
<1>3. /\ stop' \in BOOLEAN /\ signalled' \in BOOLEAN
      /\ trig' \in {"idle", "wake", "woken", "unwoken"}
      /\ trig' # "idle" => stop'
  BY DEF TriggerStop, Trigger, TriggerWake, TriggerWakeFails, TriggerSignal,
         Inv, TypeOK, StopsFirst
<1>4. TypeOK'
  BY <1>1, <1>2, <1>3 DEF Inv, TypeOK
<1>5. StopsFirst' /\ (~Accepting => ~Accepting')
  <2>1. \A i \in DOMAIN backlog' : backlog'[i] = Wake => stop'
    BY <1>0, <1>1 DEF Inv, StopsFirst
  <2>2. QED
    BY <1>0, <1>1, <1>3, <2>1 DEF Inv, StopsFirst, Accepting
<1>6. ASSUME NEW d \in Conns
      PROVE  Total(backlog, queue, job, d)' = IF d \in open' THEN 1 ELSE 0
  <2>1. Total(backlog, queue, job, d) = IF d \in open THEN 1 ELSE 0
    BY OnePlaceIsTotal DEF Inv
  <2>2. CASE backlog' = Append(backlog, Wake)
    <3>1. Count(backlog', d) = Count(backlog, d) + IF Wake = d THEN 1 ELSE 0
      <4>1. backlog \in Seq(Conns \cup {Wake}) /\ Wake \in Conns \cup {Wake}
        BY DEF Inv, TypeOK
      <4>2. QED
        BY <2>2, <4>1, CountOfAppend
    <3>2. Count(backlog, d) \in Nat
      BY CountsAreNumbers DEF Inv
    <3>3. Count(backlog', d) = Count(backlog, d)
      BY <3>1, <3>2
    <3>4. QED
      BY <1>1, <2>1, <3>3 DEF Total
  <2>3. CASE backlog' = backlog
    BY <1>1, <2>1, <2>3 DEF Total
  <2>4. QED
    BY <1>1, <2>2, <2>3
<1>7. QED
  BY <1>0, <1>1, <1>4, <1>5, <1>6, ElsewhereStep
------------------------------------------------------------------------------
(* A worker takes the connection at the head of the queue. *)
LEMMA RecvStep ==
    ASSUME Inv, NEW w \in Workers, Recv(w)
    PROVE  Inv'
<1> USE HttpServerAssumption
<1>1. /\ queue # <<>> /\ queue' = Tail(queue) /\ queue \in Seq(Conns)
      /\ job[w].pc = "recv" /\ job[w].conn = NoConn
      /\ UNCHANGED <<stop, signalled, live, trig, main, acceptor, backlog, open>>
  BY DEF Inv, TypeOK, JobsFit, JobFits, Recv, server
<1>2. PICK c \in Conns : c = Head(queue)
  BY <1>1
<1>3. PICK j \in Jobs : /\ j.pc = "line" /\ j.conn = c
                        /\ job' = [job EXCEPT ![w] = j]
  <2> DEFINE k == [Free EXCEPT !.pc = "line", !.conn = Head(queue)]
  <2>1. k \in Jobs /\ k.pc = "line" /\ k.conn = c
    <3>1. k.pc = "line" /\ k.conn = c
      BY <1>2 DEF Free
    <3>2. k \in Jobs
      BY <1>2, FreeFits DEF Jobs, PCs, Reading
    <3>3. QED
      BY <3>1, <3>2
  <2>2. job' = [job EXCEPT ![w] = Arm(k, RequestTimeout)]
    BY DEF Recv
  <2> HIDE DEF k
  <2>3. QED
    BY <2>1, <2>2, ArmFits
<1>4. TypeOK' /\ StopsFirst' /\ JobsFit'
  <2>1. queue' \in Seq(Conns) /\ Len(queue') <= MaxQueued
    BY <1>1 DEF Inv, TypeOK
  <2>2. TypeOK'
    BY <1>1, <1>3, <2>1 DEF Inv, TypeOK
  <2>3. JobsFit'
    BY <1>3 DEF Inv, TypeOK, JobsFit, JobFits
  <2>4. StopsFirst'
    BY <1>1 DEF Inv, StopsFirst, Accepting
  <2>5. QED
    BY <2>2, <2>3, <2>4
<1>5. PoolKeepsItsSize'
  BY <1>1, <1>3, SameSize
<1>6. ASSUME NEW d \in Conns
      PROVE  Total(backlog, queue, job, d)' = IF d \in open' THEN 1 ELSE 0
  <2>1. Total(backlog, queue, job, d) = IF d \in open THEN 1 ELSE 0
    BY OnePlaceIsTotal DEF Inv
  <2>2. Count(queue', d) = Count(queue, d) - IF c = d THEN 1 ELSE 0
    BY <1>1, <1>2, CountOfTail
  <2>3. Served(job', d) = Served(job, d) - (IF job[w].conn = d THEN 1 ELSE 0)
                                         + (IF j.conn = d THEN 1 ELSE 0)
    <3>1. TypeOK
      BY DEF Inv
    <3>2. job' = [job EXCEPT ![w] = j]
      BY <1>3
    <3>3. QED
      BY ONLY <3>1, <3>2, w \in Workers, j \in Jobs, ServedAfter, Zenon
  <2>4. Count(backlog, d) \in Nat /\ Count(queue, d) \in Nat /\ Served(job, d) \in Nat
    BY CountsAreNumbers DEF Inv
  <2>5. job[w].conn # d /\ j.conn = c
    BY <1>1, <1>3
  <2>6. Count(backlog', d) = Count(backlog, d) /\ open' = open
    BY <1>1
  <2>7. QED
    BY <2>1, <2>2, <2>3, <2>4, <2>5, <2>6 DEF Total
<1>7. ConnsHaveOnePlace'
  BY <1>6 DEF ConnsHaveOnePlace, Total, Count, Places, Served, Serving
<1>8. QED
  BY <1>4, <1>5, <1>7 DEF Inv

(* A worker leaves; live counts one less. *)
LEMMA WorkerExitsStep ==
    ASSUME Inv, NEW w \in Workers, WorkerExits(w)
    PROVE  Inv'
<1> USE HttpServerAssumption
<1> DEFINE Here == {v \in Workers : job[v].pc # "exited"}
           j == [Free EXCEPT !.pc = "exited"]
<1>1. /\ job[w].pc = "recv" /\ job[w].conn = NoConn /\ queue = <<>> /\ ~Accepting
      /\ job' = [job EXCEPT ![w] = j] /\ live' = live - 1
      /\ UNCHANGED <<stop, signalled, trig, main, acceptor, backlog, queue, open>>
  BY DEF Inv, JobsFit, JobFits, WorkerExits
<1>2. j \in Jobs /\ j.pc = "exited" /\ j.conn = NoConn
  <2>1. j.pc = "exited" /\ j.conn = NoConn
    BY DEF Free
  <2>2. j \in Jobs
    BY FreeFits DEF Jobs, PCs
  <2>3. QED
    BY <2>1, <2>2
<1> HIDE DEF j
<1>3. {v \in Workers : job'[v].pc # "exited"} = Here \ {w} /\ w \in Here
  BY <1>1, <1>2 DEF Inv, TypeOK
<1>4. IsFiniteSet(Here) /\ Cardinality(Here) = live /\ live \in Nat
  BY FS_Subset, FS_CardinalityType DEF Inv, PoolKeepsItsSize
<1>5. /\ Cardinality(Here \ {w}) = live - 1 /\ Cardinality(Here \ {w}) \in Nat
      /\ live <= Cardinality(Workers)
  BY <1>3, <1>4, FS_RemoveElement, FS_Subset, FS_CardinalityType
<1>6. PoolKeepsItsSize'
  <2>1. live' = Cardinality({v \in Workers : job'[v].pc # "exited"})
    BY <1>1, <1>3, <1>5
  <2>2. stop
    BY <1>1 DEF Inv, StopsFirst
  <2>3. QED
    BY <1>1, <2>1, <2>2 DEF PoolKeepsItsSize, Accepting
<1>7. TypeOK'
  <2>1. live' \in 0..Cardinality(Workers)
    BY <1>1, <1>4, <1>5, FS_CardinalityType
  <2>2. QED
    BY <1>1, <1>2, <2>1 DEF Inv, TypeOK
<1>8. StopsFirst' /\ JobsFit'
  BY <1>1, <1>2 DEF Inv, TypeOK, StopsFirst, JobsFit, JobFits, Accepting
<1>9. ConnsHaveOnePlace'
  <2>1. \A v \in Workers : job'[v].conn = job[v].conn
    BY <1>1, <1>2 DEF Inv, TypeOK
  <2>2. \A c : {v \in Workers : job'[v].conn = c} = {v \in Workers : job[v].conn = c}
    BY <2>1
  <2>3. QED
    BY <1>1, <2>2 DEF Inv, ConnsHaveOnePlace
<1>10. QED
  BY <1>6, <1>7, <1>8, <1>9 DEF Inv

(* Time passes for those that wait: what is left shrinks as what is spent   *)
(* grows.                                                                   *)
LEMMA TickStep ==
    ASSUME Inv, Tick
    PROVE  Inv'
<1> USE HttpServerAssumption
<1>1. /\ UNCHANGED <<stop, signalled, live, trig, acceptor, backlog, queue, open>>
      /\ \A w \in Workers : job[w] \in Jobs /\ JobFits(job[w])
  BY DEF Inv, TypeOK, JobsFit, Tick
<1>2. main' \in [pc : {"wait", "waitlive", "returned"}, left : 0..Grace]
  <2>1. /\ main \in [pc : {"wait", "waitlive", "returned"}, left : 0..Grace]
        /\ main.pc = "waitlive" => main.left > 0
        /\ main' = IF main.pc = "waitlive" THEN [main EXCEPT !.left = main.left - 1] ELSE main
    BY DEF Tick, Inv, TypeOK
  <2>2. main.pc = "waitlive" => main.left - 1 \in 0..Grace
    BY <2>1
  <2>3. CASE main.pc = "waitlive"
    BY <2>1, <2>2, <2>3
  <2>4. CASE main.pc # "waitlive"
    BY <2>1, <2>4
  <2>5. QED
    BY <2>3, <2>4
<1>3. ASSUME NEW w \in Workers
      PROVE  /\ job'[w] \in Jobs /\ JobFits(job'[w])
             /\ job'[w].pc = job[w].pc /\ job'[w].conn = job[w].conn
  <2>1. CASE ~InTime(w)
    BY <1>1, <2>1 DEF Tick
  <2>2. CASE InTime(w)
    <3> DEFINE k == job[w]
               left == IF k.left > 0 THEN k.left - 1 ELSE 0
               spent == IF k.pc = "line" THEN 0 ELSE Lower(k.spent + 1, RequestTimeout + 1)
    <3>1. job'[w] = [k EXCEPT !.sock = k.sock - 1, !.left = left, !.spent = spent]
      BY <2>2 DEF Tick
    <3>2. /\ k \in Jobs /\ JobFits(k) /\ k.pc \in Reading /\ k.sock > 0
          /\ k.left \in Nat /\ k.sock \in Times /\ k.spent \in 0..RequestTimeout + 1
      BY <1>1, <2>2 DEF InTime, Jobs
    <3>3. left \in Nat /\ k.sock - 1 \in Times /\ spent \in 0..RequestTimeout + 1
      BY <3>2 DEF Times, Lower
    <3>4. k.pc # "line" /\ k.left > 0 /\ k.spent + k.left <= RequestTimeout =>
              spent + left <= RequestTimeout
      BY <3>2 DEF Lower
    <3>5. k.left > 0 => left = k.left - 1
      OBVIOUS
    <3>6. k.left = 0 => left = 0
      OBVIOUS
    <3> HIDE DEF left, spent
    <3>7. job'[w] \in Jobs
      BY <3>1, <3>2, <3>3 DEF Jobs
    <3>8. /\ job'[w].pc = k.pc /\ job'[w].conn = k.conn /\ job'[w].left = left
          /\ job'[w].sock = k.sock - 1 /\ job'[w].spent = spent
      BY <3>1, <3>2 DEF Jobs
    <3>9. JobFits(job'[w])
      <4>1. k.pc \in {"headers", "size"} => spent + left <= RequestTimeout /\ k.sock - 1 <= left
        BY <3>2, <3>3, <3>4, <3>5 DEF JobFits, Times
      <4>2. k.pc = "data" /\ left > 0 => spent + left <= RequestTimeout
        BY <3>2, <3>3, <3>4, <3>5, <3>6 DEF JobFits
      <4>3. k.pc \notin {"recv", "exited"}
        BY <3>2 DEF Reading
      <4>4. QED
        BY <3>8, <4>1, <4>2, <4>3 DEF JobFits
    <3>10. QED
      BY <3>7, <3>8, <3>9
  <2>3. QED
    BY <2>1, <2>2
<1>4. job' = [w \in Workers |-> job'[w]]
  BY DEF Tick
<1>5. TypeOK' /\ StopsFirst' /\ JobsFit'
  <2>1. job' \in [Workers -> Jobs]
    BY <1>3, <1>4
  <2>2. TypeOK'
    BY <1>1, <1>2, <2>1 DEF Inv, TypeOK
  <2>3. StopsFirst' /\ JobsFit'
    BY <1>1, <1>3 DEF Inv, StopsFirst, JobsFit, JobFits, Accepting
  <2>4. QED
    BY <2>2, <2>3
<1>6. PoolKeepsItsSize'
  <2>1. {w \in Workers : job'[w].pc # "exited"} = {w \in Workers : job[w].pc # "exited"}
    BY <1>3
  <2>2. QED
    BY <1>1, <1>3, <2>1 DEF Inv, PoolKeepsItsSize, Accepting
<1>7. ConnsHaveOnePlace'
  <2>1. \A c : {w \in Workers : job'[w].conn = c} = {w \in Workers : job[w].conn = c}
    BY <1>3
  <2>2. QED
    BY <1>1, <2>1 DEF Inv, ConnsHaveOnePlace
<1>8. QED
  BY <1>5, <1>6, <1>7 DEF Inv
------------------------------------------------------------------------------
(* What a worker does with a connection it keeps. *)
LEMMA ServeStep ==
    ASSUME Inv, NEW w \in Workers,
           \/ PartOfLine(w) \/ RequestLine(w) \/ PeerCloses(w) \/ BadRequest(w)
           \/ \E keep \in BOOLEAN : HeadersOfChunked(w, keep)
           \/ \E keep \in BOOLEAN, n \in 0..MaxReads : Headers(w, keep, n)
           \/ \E n \in 0..MaxReads : ChunkSize(w, n)
           \/ \E chunked \in BOOLEAN : BodyRead(w, chunked)
           \/ ReadTimesOut(w) \/ HandlerReturns(w) \/ Answer(w) \/ AnswerFails(w)
    PROVE  Inv'
<1> DEFINE k == job[w]
<1> USE HttpServerAssumption
<1>1. k \in Jobs /\ JobFits(k) /\ job \in [Workers -> Jobs]
  BY DEF Inv, TypeOK, JobsFit
<1>2. /\ RequestTimeout \in Nat \ {0} /\ IdleTimeout \in Nat \ {0} /\ MaxReads \in Nat \ {0}
      /\ k.left \in Nat /\ k.need \in 0..MaxReads /\ k.armed \in Times
  BY <1>1 DEF Jobs
(* A new place, and perhaps less to read, or a flag. *)
<1>3. ASSUME NEW label \in PCs \ {"recv", "exited", "headers", "size", "data"},
             NEW keep \in BOOLEAN, NEW need \in 0..MaxReads,
             k.pc # "exited", UNCHANGED <<server, backlog, queue, open>>,
             job' = [job EXCEPT ![w] = [k EXCEPT !.pc = label, !.keep = keep, !.need = need]]
      PROVE  Inv'
  <2> DEFINE j == [k EXCEPT !.pc = label, !.keep = keep, !.need = need]
  <2>1. j \in Jobs /\ j.pc = label /\ j.conn = k.conn
    BY <1>1, <1>3 DEF Jobs
  <2> HIDE DEF j
  <2>2. JobFits(j)
    BY <1>3, <2>1 DEF JobFits
  <2>3. job' = [job EXCEPT ![w] = j]
    BY <1>3 DEF j
  <2>4. QED
    BY <1>3, <2>1, <2>2, <2>3, JobStep
(* A new place where more is read, with the timeout armed. *)
<1>4. ASSUME NEW j \in Jobs, NEW left \in Nat,
             j.conn = k.conn, k.pc # "exited", UNCHANGED <<server, backlog, queue, open>>,
             j.pc \in Reading,
             j.pc # "line" => j.spent + left <= RequestTimeout,
             job' = [job EXCEPT ![w] = Arm(j, left)]
      PROVE  Inv'
  <2>1. /\ Arm(j, left) \in Jobs /\ Arm(j, left).pc = j.pc /\ Arm(j, left).conn = k.conn
        /\ Arm(j, left).left = left /\ Arm(j, left).sock <= left
        /\ Arm(j, left).spent = j.spent
    BY <1>4, ArmFits
  <2>2. PICK a \in Jobs : a = Arm(j, left)
    BY <2>1
  <2>3. JobFits(a) /\ a.pc # "exited" /\ a.conn = k.conn
    BY <1>4, <2>1, <2>2 DEF JobFits, Reading
  <2>4. QED
    BY <1>4, <2>2, <2>3, JobStep
<1>5. CASE PartOfLine(w)
  BY <1>1, <1>2, <1>4, <1>5 DEF PartOfLine, JobFits, Reading
(* The same, with flag and reads as they were. *)
<1>6. ASSUME NEW label \in PCs \ {"recv", "exited", "headers", "size", "data"},
             k.pc # "exited", UNCHANGED <<server, backlog, queue, open>>,
             job' = [job EXCEPT ![w] = [k EXCEPT !.pc = label]]
      PROVE  Inv'
  <2>1. [k EXCEPT !.pc = label] = [k EXCEPT !.pc = label, !.keep = k.keep, !.need = k.need]
    BY <1>1 DEF Jobs
  <2>2. k.keep \in BOOLEAN /\ k.need \in 0..MaxReads
    BY <1>1 DEF Jobs
  <2>3. QED
    BY <1>3, <1>6, <2>1, <2>2
<1>7. CASE RequestLine(w)
  <2> DEFINE j == [k EXCEPT !.pc = "headers", !.spent = 0]
  <2>1. 0 \in 0..RequestTimeout + 1 /\ 0 + RequestTimeout <= RequestTimeout
    BY <1>2
  <2>2. j \in Jobs /\ j.conn = k.conn /\ j.pc = "headers" /\ j.spent = 0
    BY <1>1, <2>1 DEF Jobs, PCs, Reading
  <2>3. k.pc = "line" /\ UNCHANGED <<server, backlog, queue, open>>
    BY <1>7 DEF RequestLine
  <2>4. job' = [job EXCEPT ![w] = Arm(j, RequestTimeout)]
    BY <1>7 DEF RequestLine
  <2> HIDE DEF j
  <2>5. QED
    BY <1>2, <1>4, <2>1, <2>2, <2>3, <2>4 DEF Reading
<1>8. CASE PeerCloses(w) \/ BadRequest(w) \/ ReadTimesOut(w) \/ HandlerReturns(w) \/ AnswerFails(w)
  <2>1. PICK label \in {"close", "refuse", "answer"} :
            job' = [job EXCEPT ![w] = [k EXCEPT !.pc = label]]
    BY <1>1, <1>8 DEF PeerCloses, BadRequest, ReadTimesOut, HandlerReturns, AnswerFails
  <2>2. k.pc # "exited" /\ UNCHANGED <<server, backlog, queue, open>>
    BY <1>8 DEF PeerCloses, BadRequest, ReadTimesOut, HandlerReturns, AnswerFails, Reading
  <2>3. QED
    BY <1>6, <2>1, <2>2 DEF PCs
<1>9. CASE Answer(w)
  <2>1. k.pc = "answer" /\ UNCHANGED <<server, backlog, queue, open>>
    BY <1>9 DEF Answer
  <2> DEFINE j == [Free EXCEPT !.pc = "line", !.conn = k.conn]
  <2>2. j \in Jobs /\ j.pc = "line" /\ j.conn = k.conn
    <3>1. j.pc = "line" /\ j.conn = k.conn
      BY DEF Free
    <3>2. j \in Jobs
      BY <1>1, FreeFits DEF Jobs, PCs, Reading
    <3>3. QED
      BY <3>1, <3>2
  <2>3. CASE k.keep /\ ~stop
    <3>1. job' = [job EXCEPT ![w] = Arm(j, IdleTimeout)]
      BY <1>9, <2>3 DEF Answer
    <3> HIDE DEF j
    <3>2. QED
      BY <1>2, <1>4, <2>1, <2>2, <3>1 DEF Reading
  <2>4. CASE ~(k.keep /\ ~stop)
    <3>1. job' = [job EXCEPT ![w] = [k EXCEPT !.pc = "close"]]
      BY <1>9, <2>4 DEF Answer
    <3>2. QED
      BY <1>6, <2>1, <3>1 DEF PCs
  <2>5. QED
    BY <2>3, <2>4
<1>10. ASSUME NEW keep \in BOOLEAN, HeadersOfChunked(w, keep)
       PROVE  Inv'
  <2> DEFINE j == [k EXCEPT !.keep = keep, !.pc = "size"]
  <2>1. /\ j \in Jobs /\ j.conn = k.conn /\ j.pc = "size" /\ j.spent = k.spent
        /\ k.pc = "headers" /\ UNCHANGED <<server, backlog, queue, open>>
        /\ job' = [job EXCEPT ![w] = Arm(j, k.left)]
    BY <1>1, <1>10 DEF HeadersOfChunked, Jobs, PCs, Reading
  <2>2. j.spent + k.left <= RequestTimeout
    BY <1>1, <2>1 DEF JobFits
  <2> HIDE DEF j
  <2>3. QED
    BY <1>2, <1>4, <2>1, <2>2 DEF Reading
<1>11. ASSUME NEW keep \in BOOLEAN, NEW n \in 0..MaxReads, Headers(w, keep, n)
       PROVE  Inv'
  <2>1. k.pc = "headers" /\ UNCHANGED <<server, backlog, queue, open>>
    BY <1>11 DEF Headers
  <2>2. CASE n = 0 \/ k.left = 0
    <3>1. PICK label \in {"handler", "refuse"} :
              job' = [job EXCEPT ![w] = [k EXCEPT !.pc = label, !.keep = keep, !.need = n]]
      BY <1>1, <1>11, <2>2 DEF Headers, Jobs
    <3>2. QED
      BY <1>3, <2>1, <3>1 DEF PCs
  <2>3. CASE n # 0 /\ k.left # 0
    <3> DEFINE j == [k EXCEPT !.keep = keep, !.need = n, !.pc = "data"]
    <3>1. /\ j \in Jobs /\ j.conn = k.conn /\ j.pc = "data" /\ j.spent = k.spent
          /\ job' = [job EXCEPT ![w] = Arm(j, k.left)]
      BY <1>1, <1>11, <2>3 DEF Headers, Jobs, PCs, Reading
    <3>2. j.spent + k.left <= RequestTimeout
      BY <1>1, <2>1, <3>1 DEF JobFits
    <3> HIDE DEF j
    <3>3. QED
      BY <1>2, <1>4, <2>1, <3>1, <3>2 DEF Reading
  <2>4. QED
    BY <2>2, <2>3
<1>12. ASSUME NEW n \in 0..MaxReads, ChunkSize(w, n)
       PROVE  Inv'
  <2>1. k.pc = "size" /\ UNCHANGED <<server, backlog, queue, open>>
    BY <1>12 DEF ChunkSize
  <2>2. CASE n = 0 \/ k.left = 0
    <3>1. PICK label \in {"handler", "refuse"} :
              job' = [job EXCEPT ![w] = [k EXCEPT !.pc = label]]
      BY <1>12, <2>2 DEF ChunkSize
    <3>2. QED
      BY <1>6, <2>1, <3>1 DEF PCs
  <2>3. CASE n # 0 /\ k.left # 0
    <3> DEFINE j == [k EXCEPT !.pc = "data", !.need = n]
    <3>1. /\ j \in Jobs /\ j.conn = k.conn /\ j.pc = "data" /\ j.spent = k.spent
          /\ job' = [job EXCEPT ![w] = Arm(j, k.left)]
      BY <1>1, <1>12, <2>3 DEF ChunkSize, Jobs, PCs, Reading
    <3>2. j.spent + k.left <= RequestTimeout
      BY <1>1, <2>1, <3>1 DEF JobFits
    <3> HIDE DEF j
    <3>3. QED
      BY <1>2, <1>4, <2>1, <3>1, <3>2 DEF Reading
  <2>4. QED
    BY <2>2, <2>3
(* Data may be read on with nothing left of the budget; no line is. *)
<1>13. ASSUME NEW chunked \in BOOLEAN, BodyRead(w, chunked)
       PROVE  Inv'
  <2>1. k.pc = "data" /\ UNCHANGED <<server, backlog, queue, open>>
    BY <1>13 DEF BodyRead
  <2>2. CASE k.need > 1
    <3> DEFINE j == [k EXCEPT !.need = k.need - 1, !.sock = k.armed]
    <3>0. k.need - 1 \in 0..MaxReads
      BY <1>2, <2>2
    <3>1. /\ j \in Jobs /\ j.conn = k.conn /\ j.pc = "data" /\ j.spent = k.spent
          /\ j.left = k.left
      BY <1>1, <1>2, <2>1, <3>0 DEF Jobs
    <3>2. job' = [job EXCEPT ![w] = j]
      BY <1>13, <2>2 DEF BodyRead
    <3> HIDE DEF j
    <3>3. JobFits(j)
      BY <1>1, <2>1, <3>1 DEF JobFits
    <3>4. QED
      BY <2>1, <3>1, <3>2, <3>3, JobStep
  <2>3. CASE ~(k.need > 1) /\ (~chunked \/ k.left = 0)
    <3>1. PICK label \in {"handler", "refuse"} :
              job' = [job EXCEPT ![w] = [k EXCEPT !.pc = label, !.need = 0]]
      BY <1>13, <2>3 DEF BodyRead
    <3>2. [k EXCEPT !.pc = label, !.need = 0] = [k EXCEPT !.pc = label, !.keep = k.keep, !.need = 0]
      BY <1>1 DEF Jobs
    <3>3. k.keep \in BOOLEAN /\ 0 \in 0..MaxReads
      BY <1>1, <1>2 DEF Jobs
    <3>4. QED
      BY <1>3, <2>1, <3>1, <3>2, <3>3 DEF PCs
  <2>4. CASE ~(k.need > 1) /\ chunked /\ k.left # 0
    <3> DEFINE j == [k EXCEPT !.pc = "size", !.need = 0]
    <3>0. 0 \in 0..MaxReads
      BY <1>2
    <3>1. j \in Jobs /\ j.conn = k.conn /\ j.pc = "size" /\ j.spent = k.spent
      BY <1>1, <3>0 DEF Jobs, PCs, Reading
    <3>2. job' = [job EXCEPT ![w] = Arm(j, k.left)]
      BY <1>13, <2>4 DEF BodyRead
    <3>3. j.spent + k.left <= RequestTimeout
      BY <1>1, <1>2, <2>1, <2>4, <3>1 DEF JobFits
    <3> HIDE DEF j
    <3>4. QED
      BY <1>2, <1>4, <2>1, <3>1, <3>2, <3>3 DEF Reading
  <2>5. QED
    BY <1>2, <2>2, <2>3, <2>4
<1>14. QED
  BY <1>5, <1>7, <1>8, <1>9, <1>10, <1>11, <1>12, <1>13

LEMMA InvNext == Inv /\ [Next]_vars => Inv'
<1> SUFFICES ASSUME Inv, [Next]_vars
             PROVE  Inv'
  OBVIOUS
<1> USE HttpServerAssumption
<1>1. ASSUME NEW c \in Conns, Connect(c)
      PROVE  Inv'
  BY <1>1, ConnectStep
<1>2. CASE Acceptor
  BY <1>2, AcceptStep, AcceptStopsStep DEF Acceptor
<1>3. CASE TriggerStop \/ Trigger
  BY <1>3, TriggerStep
<1>4. ASSUME NEW w \in Workers, FromClient(w)
      PROVE  Inv'
  BY <1>4, ServeStep DEF FromClient
<1>5. ASSUME NEW w \in Workers, OfWorker(w)
      PROVE  Inv'
  <2>1. CASE ReadTimesOut(w) \/ Answer(w) \/ AnswerFails(w)
    BY <2>1, ServeStep
  <2>2. CASE Close(w)
    BY <2>2, FreeStep DEF Close
  <2>3. QED
    BY <1>5, <2>1, <2>2, RecvStep, WorkerExitsStep DEF OfWorker
<1>6. ASSUME NEW w \in Workers, ParserPanics(w)
      PROVE  Inv'
  BY <1>6, FreeStep DEF ParserPanics, Reading
<1>7. ASSUME NEW w \in Workers, HandlerReturns(w)
      PROVE  Inv'
  BY <1>7, ServeStep
<1>8. CASE Main
  <2>1. /\ main' \in [pc : {"wait", "waitlive", "returned"}, left : 0..Grace]
        /\ UNCHANGED <<stop, signalled, live, trig, acceptor, backlog, queue, open, job>>
    BY <1>8 DEF Main, MainWakes, AllWorkersLeft, GraceEnds, Inv, TypeOK
  <2>2. QED
    BY <2>1 DEF Inv, TypeOK, StopsFirst, PoolKeepsItsSize, JobsFit, JobFits,
                ConnsHaveOnePlace, Accepting
<1>9. CASE Tick
  BY <1>9, TickStep
<1>10. CASE UNCHANGED vars
  BY <1>10 DEF vars, Inv, TypeOK, StopsFirst, PoolKeepsItsSize, JobsFit, JobFits,
               ConnsHaveOnePlace, Accepting
<1>11. QED
  BY <1>1, <1>2, <1>3, <1>4, <1>5, <1>6, <1>7, <1>8, <1>9, <1>10 DEF Next

LEMMA Invariance == Spec => []Inv
<1>1. QED
  BY InvInit, InvNext, PTL DEF Spec
------------------------------------------------------------------------------
(* Every variable keeps its type. *)
THEOREM TypeCorrect == Spec => []TypeOK
<1>1. Inv => TypeOK
  BY DEF Inv
<1>2. QED
  BY <1>1, Invariance, PTL

(* http.rs serve, handle_connection - no connection is leaked or served     *)
(* twice, whatever is shed, fails, panics or is left in the backlog.        *)
THEOREM ConnectionsAreKept == Spec => []ConnsHaveOnePlace
<1>1. Inv => ConnsHaveOnePlace
  BY DEF Inv
<1>2. QED
  BY <1>1, Invariance, PTL

(* http.rs LiveGuard - no worker is lost before the shutdown, and live      *)
(* counts those that are there.                                             *)
THEOREM WorkersAreKept == Spec => []PoolKeepsItsSize
<1>1. Inv => PoolKeepsItsSize
  BY DEF Inv
<1>2. QED
  BY <1>1, Invariance, PTL

(* http.rs arm_read_timeout - the lines of a request are read within its    *)
(* budget, however a client spreads them.                                   *)
THEOREM LinesAreInTime == Spec => []LinesWithinBudget
<1>1. Inv => LinesWithinBudget
  <2> SUFFICES ASSUME Inv, NEW w \in Workers, job[w].pc \in {"headers", "size"}
               PROVE  job[w].spent <= RequestTimeout
    BY DEF LinesWithinBudget
  <2>1. job[w].spent + job[w].left <= RequestTimeout
    BY DEF Inv, JobsFit, JobFits
  <2>2. job[w].left \in Nat /\ job[w].spent \in 0..RequestTimeout + 1 /\ RequestTimeout \in Nat
    BY HttpServerAssumption DEF Inv, TypeOK, Jobs
  <2>3. QED
    BY <2>1, <2>2
<1>2. QED
  BY <1>1, Invariance, PTL
==============================================================================

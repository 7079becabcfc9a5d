------------------------------ MODULE StripeProofs ---------------------------
(* Theorems about what the server does with Stripe.  First module           *)
(* StripeWorker, for any number of callers and workers, any capacity of the *)
(* queue and any number of retries; then module Webhook, for any number of  *)
(* HTTP workers, of events and of faults.                                   *)
EXTENDS StripeWorker, Webhook, FiniteSetTheorems, SequenceTheorems, TLAPS
(* A caller waits for a job of its own. *)
OwnJobs == \A c \in Callers : asked[c] # NoJob => asked[c].by = c

Inv == TypeOK /\ JobsHaveOnePlace /\ OnlyLateJobsAreLeft /\ OwnJobs
------------------------------------------------------------------------------
(* Facts about the data. *)

Elements(s) == {s[i] : i \in 1..Len(s)}
Distinct(s) == \A i, k \in 1..Len(s) : s[i] = s[k] => i = k

LEMMA NoJobIsNone == NoJob \notin Jobs
<1> SUFFICES ASSUME NoJob \in Jobs PROVE FALSE
  OBVIOUS
<1>1. NoJob.n = 0
  BY DEF NoJob
<1>2. NoJob.n \in 1..NumCalls
  BY DEF Jobs
<1>3. QED
  BY <1>1, <1>2, StripeWorkerAssumption

(* What is left of a queue of distinct jobs when its head is taken. *)
LEMMA TailElements ==
  ASSUME NEW S, NEW s \in Seq(S), s # <<>>, Distinct(s)
  PROVE  /\ Tail(s) \in Seq(S) /\ Len(Tail(s)) = Len(s) - 1
         /\ Head(s) \in Elements(s)
         /\ Elements(Tail(s)) = Elements(s) \ {Head(s)}
         /\ Distinct(Tail(s))
<1>1. /\ Tail(s) \in Seq(S) /\ Len(Tail(s)) = Len(s) - 1 /\ Len(s) \in Nat \ {0}
      /\ Head(s) = s[1]
      /\ \A i \in 1..Len(s) - 1 : Tail(s)[i] = s[i + 1]
  OBVIOUS
<1>2. Head(s) \in Elements(s)
  BY <1>1 DEF Elements
<1>3. Distinct(Tail(s))
  BY <1>1 DEF Distinct
<1>4. ASSUME NEW x \in Elements(Tail(s)) PROVE x \in Elements(s) \ {Head(s)}
  BY <1>1 DEF Elements, Distinct
<1>5. ASSUME NEW x \in Elements(s) \ {Head(s)} PROVE x \in Elements(Tail(s))
  <2>1. PICK i \in 1..Len(s) : x = s[i]
    BY DEF Elements
  <2>2. i # 1 /\ i - 1 \in 1..Len(s) - 1
    BY <2>1, <1>1
  <2>3. x = Tail(s)[i - 1]
    BY <2>1, <2>2, <1>1
  <2>4. QED
    BY <2>2, <2>3, <1>1 DEF Elements
<1>6. QED
  BY <1>1, <1>2, <1>3, <1>4, <1>5

(* What a queue of distinct jobs becomes when a new one is put in. *)
LEMMA AppendElements ==
  ASSUME NEW S, NEW s \in Seq(S), NEW x \in S, Distinct(s), x \notin Elements(s)
  PROVE  /\ Append(s, x) \in Seq(S) /\ Len(Append(s, x)) = Len(s) + 1
         /\ Elements(Append(s, x)) = Elements(s) \cup {x}
         /\ Distinct(Append(s, x))
<1>1. /\ Append(s, x) \in Seq(S) /\ Len(Append(s, x)) = Len(s) + 1 /\ Len(s) \in Nat
      /\ \A i \in 1..Len(s) : Append(s, x)[i] = s[i]
      /\ Append(s, x)[Len(s) + 1] = x
  OBVIOUS
<1>2. \A i \in 1..Len(s) + 1 : i \in 1..Len(s) \/ i = Len(s) + 1
  BY <1>1
<1>3. \A i \in 1..Len(s) : s[i] # x
  BY DEF Elements
<1>4. Distinct(Append(s, x))
  BY <1>1, <1>2, <1>3 DEF Distinct
<1>5. ASSUME NEW y \in Elements(Append(s, x)) PROVE y \in Elements(s) \cup {x}
  BY <1>1, <1>2 DEF Elements
<1>6. ASSUME NEW y \in Elements(s) \cup {x} PROVE y \in Elements(Append(s, x))
  <2>1. CASE y = x
    BY <2>1, <1>1 DEF Elements
  <2>2. CASE y \in Elements(s)
    BY <2>2, <1>1 DEF Elements
  <2>3. QED
    BY <2>1, <2>2
<1>7. QED
  BY <1>1, <1>4, <1>5, <1>6

LEMMA SizeOfInterval ==
  ASSUME NEW n \in Nat
  PROVE  IsFiniteSet(1..n) /\ Cardinality(1..n) = n
<1>1. /\ IsFiniteSet(1..n)
      /\ Cardinality(1..n) = IF 1 > n THEN 0 ELSE n - 1 + 1
  <2>1. 1 \in Int /\ n \in Int
    OBVIOUS
  <2>2. QED
    BY ONLY <2>1, FS_Interval
<1>2. (IF 1 > n THEN 0 ELSE n - 1 + 1) = n
  OBVIOUS
<1>3. QED
  BY <1>1, <1>2

(* A union has at most as many elements as its parts together. *)
LEMMA SizeOfUnion ==
  ASSUME NEW S, NEW T, IsFiniteSet(S), IsFiniteSet(T)
  PROVE  /\ IsFiniteSet(S \cup T)
         /\ Cardinality(S \cup T) <= Cardinality(S) + Cardinality(T)
<1>1. IsFiniteSet(S \cap T)
  BY FS_Subset
<1>2. /\ Cardinality(S \cap T) \in Nat
      /\ Cardinality(S) \in Nat /\ Cardinality(T) \in Nat
  BY <1>1, FS_CardinalityType
<1>3. /\ IsFiniteSet(S \cup T)
      /\ Cardinality(S \cup T) = Cardinality(S) + Cardinality(T) - Cardinality(S \cap T)
  BY FS_Union
<1>4. \A a, b, c \in Nat : a + b - c <= a + b
  OBVIOUS
<1>5. QED
  BY <1>2, <1>3, <1>4

LEMMA HeldAreJobs == TypeOK => Held \subseteq Jobs
<1> SUFFICES ASSUME TypeOK, NEW j \in Held PROVE j \in Jobs
  OBVIOUS
<1>1. CASE j \in Queued
  BY <1>1, ElementOfSeq DEF TypeOK, Queued
<1>2. CASE j \in {job[w] : w \in Workers} \ {NoJob}
  BY <1>2 DEF TypeOK
<1>3. QED
  BY <1>1, <1>2 DEF Held

(* The queue and the workers hold no more jobs than there are places. *)
LEMMA HeldIsSmall ==
  ASSUME TypeOK
  PROVE  IsFiniteSet(Held) /\ Cardinality(Held) < NumCalls
<1> DEFINE Taken == {job[w] : w \in Workers}
<1>0. Len(queue) \in Nat /\ Len(queue) <= QueueCap
  BY DEF TypeOK
<1>1. IsFiniteSet(1..Len(queue)) /\ Cardinality(1..Len(queue)) = Len(queue)
  BY <1>0, SizeOfInterval
<1>2. queue \in Surjection(1..Len(queue), Queued)
  BY <1>0 DEF TypeOK, Surjection, Queued
<1>3. IsFiniteSet(Queued) /\ Cardinality(Queued) <= Len(queue)
  BY <1>1, <1>2, FS_Surjection
<1>4. job \in Surjection(Workers, Taken)
  BY DEF TypeOK, Surjection
<1>5. IsFiniteSet(Taken) /\ Cardinality(Taken) <= Cardinality(Workers)
  BY <1>4, FS_Surjection, StripeWorkerAssumption
<1>6. Held \subseteq Queued \cup Taken
  BY DEF Held
<1>7. /\ IsFiniteSet(Queued \cup Taken)
      /\ Cardinality(Queued \cup Taken) <= Cardinality(Queued) + Cardinality(Taken)
  BY <1>3, <1>5, SizeOfUnion
<1>8. IsFiniteSet(Held) /\ Cardinality(Held) <= Cardinality(Queued \cup Taken)
  BY <1>6, <1>7, FS_Subset
<1>9. /\ Cardinality(Held) \in Nat /\ Cardinality(Queued) \in Nat
      /\ Cardinality(Taken) \in Nat /\ Cardinality(Workers) \in Nat
      /\ Cardinality(Queued \cup Taken) \in Nat
  BY <1>3, <1>5, <1>7, <1>8, FS_CardinalityType, StripeWorkerAssumption
<1>10. QED
  BY <1>0, <1>1, <1>3, <1>5, <1>7, <1>8, <1>9, StripeWorkerAssumption

(* So a call always finds a channel that nobody uses. *)
LEMMA NewJobIsFresh ==
  ASSUME Inv, NEW c \in Callers, asked[c] = NoJob
  PROVE  NewJob(c) \in Jobs \ InUse /\ NewJob(c).by = c
<1> DEFINE J == [n \in 1..NumCalls |-> [by |-> c, n |-> n]]
<1>1. SUFFICES \E j \in Jobs \ InUse : j.by = c
  BY DEF NewJob
<1>2. SUFFICES ASSUME \A j \in Jobs : j.by = c => j \in InUse PROVE FALSE
  OBVIOUS
<1>3. ASSUME NEW n \in 1..NumCalls PROVE J[n] \in Held
  <2>1. J[n] \in Jobs /\ J[n].by = c
    BY DEF Jobs
  <2>2. J[n] # NoJob
    BY <2>1, NoJobIsNone
  <2>3. \A d \in Callers : asked[d] # J[n]
    BY <2>1, <2>2 DEF Inv, OwnJobs
  <2>4. QED
    BY <1>2, <2>1, <2>2, <2>3 DEF InUse, Held
<1>4. J \in [1..NumCalls -> Held]
  BY <1>3
<1>5. IsFiniteSet(1..NumCalls) /\ Cardinality(1..NumCalls) = NumCalls
  BY SizeOfInterval, StripeWorkerAssumption
<1>6. \E x, y \in 1..NumCalls : x # y /\ J[x] = J[y]
  <2>1. IsFiniteSet(Held) /\ Cardinality(Held) < Cardinality(1..NumCalls)
    BY <1>5, HeldIsSmall DEF Inv
  <2> HIDE DEF J
  <2>2. QED
    BY <1>4, <1>5, <2>1, FS_PigeonHole
<1>7. QED
  BY <1>6
------------------------------------------------------------------------------
LEMMA InvInit == Init => Inv
<1> SUFFICES ASSUME Init PROVE Inv
  OBVIOUS
<1>1. TypeOK
  <2>1. queue \in Seq(Jobs) /\ Len(queue) = 0
    BY EmptySeq DEF Init
  <2>2. /\ asked \in [Callers -> Jobs \cup {NoJob}] /\ answer \in [Callers -> Answers]
        /\ pc \in [Workers -> PCs] /\ job \in [Workers -> Jobs \cup {NoJob}]
        /\ \A w \in Workers : job[w] = NoJob <=> pc[w] \in {"recv", "dead"}
    BY DEF Init, PCs, Answers
  <2>3. late \subseteq Jobs /\ attempt \in [Workers -> 0..MaxRetries]
    BY StripeWorkerAssumption DEF Init
  <2>4. failures \in 0..FailureThreshold
    BY StripeWorkerAssumption DEF Init
  <2>5. open \in BOOLEAN
    BY DEF Init
  <2>6. QED
    BY <2>1, <2>2, <2>3, <2>4, <2>5, StripeWorkerAssumption DEF TypeOK
<1>2. Queued = {} /\ Held = {}
  BY DEF Init, Queued, Held
<1>3. JobsHaveOnePlace
  BY <1>2 DEF Init, JobsHaveOnePlace
<1>4. QED
  BY <1>1, <1>2, <1>3 DEF Inv, OnlyLateJobsAreLeft, OwnJobs, Init

(* The steps that leave the queue, the callers and the workers' jobs alone: *)
(* the breaker and the attempts.                                            *)
LEMMA JobsStay ==
  ASSUME Inv, UNCHANGED <<queue, asked, late, job>>
  PROVE  (JobsHaveOnePlace /\ OnlyLateJobsAreLeft /\ OwnJobs)'
BY DEF Inv, JobsHaveOnePlace, OnlyLateJobsAreLeft, OwnJobs, Held, Queued

LEMMA AttemptKeepsInv ==
  ASSUME Inv, NEW w \in Workers,
         Breaker(w) \/ RequestAnswered(w) \/ RequestFails(w)
            \/ RecordSuccess(w) \/ RecordFailure(w)
  PROVE  Inv'
<1>1. UNCHANGED <<queue, asked, answer, late, job>>
  BY DEF Breaker, RequestAnswered, RequestFails, RecordSuccess, RecordFailure, breaker
<1>2. TypeOK'
  <2> USE StripeWorkerAssumption DEF Inv, TypeOK, Goto, PCs, breaker
  <2>1. CASE Breaker(w)
    BY <2>1 DEF Breaker
  <2>2. CASE RequestAnswered(w)
    BY <2>2 DEF RequestAnswered
  <2>3. CASE RequestFails(w)
    <3>1. attempt' \in [Workers -> 0..MaxRetries]
      BY <2>3 DEF RequestFails
    <3>2. pc' \in [Workers -> PCs]
          /\ \A v \in Workers : job'[v] = NoJob <=> pc'[v] \in {"recv", "dead"}
      BY <2>3 DEF RequestFails
    <3>3. QED
      BY <2>3, <1>1, <3>1, <3>2 DEF RequestFails
  <2>4. CASE RecordSuccess(w)
    <3>1. failures' \in 0..FailureThreshold
      BY <2>4 DEF RecordSuccess
    <3>2. open' \in BOOLEAN
      BY <2>4 DEF RecordSuccess
    <3>3. pc' \in [Workers -> PCs]
          /\ \A v \in Workers : job'[v] = NoJob <=> pc'[v] \in {"recv", "dead"}
      BY <2>4 DEF RecordSuccess
    <3>4. QED
      BY <2>4, <1>1, <3>1, <3>2, <3>3 DEF RecordSuccess
  <2>5. CASE RecordFailure(w)
    <3>1. failures' \in 0..FailureThreshold
      BY <2>5 DEF RecordFailure
    <3>2. open' \in BOOLEAN
      BY <2>5 DEF RecordFailure
    <3>3. pc' \in [Workers -> PCs]
          /\ \A v \in Workers : job'[v] = NoJob <=> pc'[v] \in {"recv", "dead"}
      BY <2>5 DEF RecordFailure
    <3>4. QED
      BY <2>5, <1>1, <3>1, <3>2, <3>3 DEF RecordFailure
  <2>6. QED
    BY <2>1, <2>2, <2>3, <2>4, <2>5
<1>3. QED
  BY <1>1, <1>2, JobsStay DEF Inv

LEMMA CooldownKeepsInv == Inv /\ CooldownEnds => Inv'
<1> SUFFICES ASSUME Inv, CooldownEnds PROVE Inv'
  OBVIOUS
<1>1. TypeOK'
  BY DEF Inv, TypeOK, CooldownEnds
<1>2. QED
  BY <1>1, JobsStay DEF Inv, CooldownEnds

(* A call puts a fresh job in the queue. *)
LEMMA CallKeepsInv ==
  ASSUME Inv, NEW c \in Callers, Call(c)
  PROVE  Inv'
<1> DEFINE j == NewJob(c)
<1>1. j \in Jobs \ InUse /\ j.by = c
  BY NewJobIsFresh DEF Call
<1>2. j # NoJob /\ j \notin Held /\ j \notin Queued
  BY <1>1, NoJobIsNone DEF InUse, Held
<1> HIDE DEF j
<1>3. /\ queue' \in Seq(Jobs) /\ Len(queue') = Len(queue) + 1
      /\ Elements(queue') = Elements(queue) \cup {j}
      /\ Distinct(queue')
  <2>1. Distinct(queue) /\ queue \in Seq(Jobs)
    BY DEF Inv, TypeOK, JobsHaveOnePlace, Distinct
  <2>2. queue' = Append(queue, j)
    BY DEF Call, j
  <2>3. QED
    BY <1>1, <1>2, <2>1, <2>2, AppendElements DEF Queued, Elements
<1>4. Queued' = Queued \cup {j} /\ Held' = Held \cup {j}
  BY <1>3, <1>2 DEF Queued, Elements, Held, Call
<1>5. /\ asked[c] = NoJob /\ asked' = [asked EXCEPT ![c] = j]
      /\ UNCHANGED <<late, pc, job, attempt, failures, open>>
  BY DEF Call, j, breaker
<1>6. TypeOK'
  <2>1. Len(queue') <= QueueCap
    BY <1>3, StripeWorkerAssumption DEF Call, Inv, TypeOK
  <2>2. answer' \in [Callers -> Answers]
    BY DEF Call, Inv, TypeOK, Answers
  <2>3. QED
    BY <1>1, <1>3, <1>5, <2>1, <2>2 DEF Inv, TypeOK
<1>7. JobsHaveOnePlace'
  <2>1. \A w \in Workers : job'[w] \notin Queued'
    <3>1. \A w \in Workers : job[w] # j
      BY <1>2 DEF Held
    <3>2. QED
      BY <3>1, <1>4, <1>5 DEF Inv, JobsHaveOnePlace
  <2>2. \A d \in Callers : asked'[d] \in {NoJob} \cup Held'
    BY <1>4, <1>5 DEF Inv, JobsHaveOnePlace, TypeOK
  <2>3. QED
    BY <1>3, <1>5, <2>1, <2>2 DEF Inv, JobsHaveOnePlace, Distinct
<1>8. OnlyLateJobsAreLeft'
  <2> SUFFICES ASSUME NEW k \in Held' PROVE asked'[k.by] = k \/ k \in late'
    BY DEF OnlyLateJobsAreLeft
  <2>1. CASE k = j
    BY <2>1, <1>1, <1>5 DEF Inv, TypeOK
  <2>2. CASE k \in Held
    <3>1. k # NoJob
      BY <2>2, NoJobIsNone DEF Held, Queued, Inv, TypeOK
    <3>2. QED
      BY <2>2, <3>1, <1>5 DEF Inv, OnlyLateJobsAreLeft, TypeOK
  <2>3. QED
    BY <2>1, <2>2, <1>4
<1>9. OwnJobs'
  BY <1>1, <1>5 DEF Inv, OwnJobs, TypeOK
<1>10. QED
  BY <1>6, <1>7, <1>8, <1>9 DEF Inv

LEMMA CallerKeepsInv ==
  ASSUME Inv, NEW c \in Callers, CallRejected(c) \/ DeadlinePasses(c) \/ Timeout(c)
  PROVE  Inv'
<1> USE DEF Inv, TypeOK
<1>1. CASE CallRejected(c)
  <2>1. TypeOK'
    BY <1>1 DEF CallRejected, breaker, Answers
  <2>2. QED
    BY <1>1, <2>1, JobsStay DEF CallRejected
<1>2. CASE DeadlinePasses(c)
  BY <1>2 DEF DeadlinePasses, breaker, JobsHaveOnePlace, OnlyLateJobsAreLeft, OwnJobs,
      Held, Queued
<1>3. CASE Timeout(c)
  <2>1. Held' = Held /\ Queued' = Queued
    BY <1>3 DEF Timeout, Held, Queued
  <2>2. TypeOK'
    BY <1>3 DEF Timeout, breaker, Answers
  <2>3. JobsHaveOnePlace' /\ OwnJobs'
    BY <1>3, <2>1 DEF Timeout, JobsHaveOnePlace, OwnJobs
  <2>4. OnlyLateJobsAreLeft'
    BY <1>3, <2>1 DEF Timeout, OnlyLateJobsAreLeft
  <2>5. QED
    BY <2>2, <2>3, <2>4
<1>4. QED
  BY <1>1, <1>2, <1>3

(* What a message on the channels of some jobs does to their callers. *)
LEMMA DeliverFrees ==
  ASSUME TypeOK, OwnJobs, NEW jobs \in SUBSET Jobs, NEW how \in Answers, Deliver(jobs, how)
  PROVE  /\ asked' \in [Callers -> Jobs \cup {NoJob}] /\ answer' \in [Callers -> Answers]
         /\ late' = late \ jobs
         /\ \A c \in Callers : asked'[c] = IF asked[c] \in jobs THEN NoJob ELSE asked[c]
         /\ OwnJobs'
BY DEF TypeOK, Deliver, OwnJobs

(* A worker takes a job, or answers it unread if its deadline is over. *)
LEMMA TakeKeepsInv ==
  ASSUME Inv, NEW w \in Workers, Take(w)
  PROVE  Inv'
<1> DEFINE j == Head(queue)
<1>1. /\ queue' \in Seq(Jobs) /\ Len(queue') = Len(queue) - 1
      /\ j \in Queued
      /\ Queued' = Queued \ {j}
      /\ Distinct(queue')
  <2>1. queue \in Seq(Jobs) /\ Distinct(queue) /\ queue # <<>> /\ queue' = Tail(queue)
    BY DEF Take, Inv, TypeOK, JobsHaveOnePlace, Distinct
  <2>2. Queued = Elements(queue) /\ Queued' = Elements(queue')
    BY DEF Queued, Elements
  <2>3. QED
    BY <2>1, <2>2, TailElements
<1>2. j \in Jobs /\ j # NoJob /\ job[w] = NoJob
  BY <1>1, NoJobIsNone DEF Take, Inv, TypeOK, Queued
<1> HIDE DEF j
<1>3. Len(queue') <= QueueCap
  BY <1>1, StripeWorkerAssumption DEF Inv, TypeOK
<1>4. \A v \in Workers : job[v] # j
  BY <1>1, <1>2 DEF Inv, JobsHaveOnePlace
<1>5. CASE j \in late
  <2>1. Deliver({j}, "timeout") /\ UNCHANGED <<pc, job, attempt, failures, open>>
    BY <1>5 DEF Take, j, breaker
  <2>2. /\ asked' \in [Callers -> Jobs \cup {NoJob}] /\ answer' \in [Callers -> Answers]
        /\ late' = late \ {j}
        /\ \A c \in Callers : asked'[c] = IF asked[c] = j THEN NoJob ELSE asked[c]
        /\ OwnJobs'
    BY <2>1, <1>2, DeliverFrees DEF Inv, Answers
  <2>3. Held' = Held \ {j}
    BY <1>1, <1>4, <2>1 DEF Held
  <2>4. TypeOK'
    BY <1>1, <1>3, <2>1, <2>2 DEF Inv, TypeOK
  <2>5. JobsHaveOnePlace'
    BY <1>1, <2>1, <2>2, <2>3 DEF Inv, JobsHaveOnePlace, Distinct
  <2>6. OnlyLateJobsAreLeft'
    <3> SUFFICES ASSUME NEW k \in Held' PROVE asked'[k.by] = k \/ k \in late'
      BY DEF OnlyLateJobsAreLeft
    <3>1. k \in Held /\ k # j /\ k \in Jobs
      BY <2>3, HeldAreJobs DEF Inv
    <3>2. k.by \in Callers
      BY <3>1 DEF Jobs
    <3>3. QED
      BY <3>1, <3>2, <2>2 DEF Inv, OnlyLateJobsAreLeft
  <2>7. QED
    BY <2>2, <2>4, <2>5, <2>6 DEF Inv
<1>6. CASE j \notin late
  <2>1. /\ pc' = [pc EXCEPT ![w] = "breaker"] /\ job' = [job EXCEPT ![w] = j]
        /\ UNCHANGED <<asked, answer, late, attempt, failures, open>>
    BY <1>6 DEF Take, Goto, j, breaker
  <2>2. Held' = Held
    <3>1. {job'[v] : v \in Workers} \ {NoJob} = ({job[v] : v \in Workers} \ {NoJob}) \cup {j}
      BY <2>1, <1>2 DEF Inv, TypeOK
    <3>2. QED
      BY <3>1, <1>1 DEF Held
  <2>3. TypeOK'
    BY <1>1, <1>2, <1>3, <2>1 DEF Inv, TypeOK, PCs
  <2>4. JobsHaveOnePlace'
    BY <1>1, <1>2, <1>4, <2>1, <2>2 DEF Inv, TypeOK, JobsHaveOnePlace, Distinct
  <2>5. OnlyLateJobsAreLeft' /\ OwnJobs'
    BY <2>1, <2>2 DEF Inv, OnlyLateJobsAreLeft, OwnJobs
  <2>6. QED
    BY <2>3, <2>4, <2>5 DEF Inv
<1>7. QED
  BY <1>5, <1>6

(* A worker answers its job and has it no longer. *)
LEMMA ReplyKeepsInv ==
  ASSUME Inv, NEW w \in Workers, Reply(w)
  PROVE  Inv'
<1>1. job[w] \in Jobs /\ pc[w] \in Answers
  BY DEF Reply, Inv, TypeOK, Answers
<1>2. /\ pc' = [pc EXCEPT ![w] = "recv"] /\ job' = [job EXCEPT ![w] = NoJob]
      /\ attempt' = [attempt EXCEPT ![w] = 0]
      /\ UNCHANGED <<queue, failures, open>>
  BY DEF Reply, Rest, Goto, breaker
<1>3. /\ asked' \in [Callers -> Jobs \cup {NoJob}] /\ answer' \in [Callers -> Answers]
      /\ late' = late \ {job[w]}
      /\ \A c \in Callers : asked'[c] = IF asked[c] = job[w] THEN NoJob ELSE asked[c]
      /\ OwnJobs'
  <2>1. {job[w]} \in SUBSET Jobs /\ Deliver({job[w]}, pc[w])
    BY <1>1 DEF Reply
  <2>2. QED
    BY <1>1, <2>1, DeliverFrees DEF Inv
<1>4. Queued' = Queued /\ Held' = Held \ {job[w]}
  <2>1. {job'[v] : v \in Workers} \ {NoJob} = ({job[v] : v \in Workers} \ {NoJob}) \ {job[w]}
    BY <1>1, <1>2, NoJobIsNone DEF Inv, TypeOK, JobsHaveOnePlace
  <2>2. QED
    BY <1>2, <2>1 DEF Held, Queued, Inv, JobsHaveOnePlace
<1>5. TypeOK'
  BY <1>2, <1>3, StripeWorkerAssumption DEF Inv, TypeOK, PCs
<1>6. JobsHaveOnePlace'
  <2>1. \A v \in Workers : job'[v] = IF v = w THEN NoJob ELSE job[v]
    BY <1>2 DEF Inv, TypeOK
  <2>2. NoJob \notin Queued
    BY NoJobIsNone, HeldAreJobs DEF Inv, Held
  <2>3. \A v \in Workers : job'[v] \notin Queued'
    BY <2>1, <2>2, <1>4 DEF Inv, JobsHaveOnePlace
  <2>4. \A c \in Callers : asked'[c] \in {NoJob} \cup Held'
    BY <1>3, <1>4 DEF Inv, JobsHaveOnePlace
  <2>5. QED
    BY <1>2, <2>1, <2>3, <2>4 DEF Inv, JobsHaveOnePlace
<1>7. OnlyLateJobsAreLeft'
  <2> SUFFICES ASSUME NEW k \in Held' PROVE asked'[k.by] = k \/ k \in late'
    BY DEF OnlyLateJobsAreLeft
  <2>1. k \in Held /\ k # job[w] /\ k \in Jobs
    BY <1>4, HeldAreJobs DEF Inv
  <2>2. k.by \in Callers
    BY <2>1 DEF Jobs
  <2>3. QED
    BY <2>1, <2>2, <1>3 DEF Inv, OnlyLateJobsAreLeft
<1>8. QED
  BY <1>3, <1>5, <1>6, <1>7 DEF Inv

(* A worker dies with its job, and the last one with the queue. *)
LEMMA DeathKeepsInv ==
  ASSUME Inv, NEW w \in Workers, WorkerDies(w)
  PROVE  Inv'
<1>1. job[w] \in Jobs
  BY DEF WorkerDies, Inv, TypeOK
<1>2. /\ pc' = [pc EXCEPT ![w] = "dead"] /\ job' = [job EXCEPT ![w] = NoJob]
      /\ attempt' = [attempt EXCEPT ![w] = 0]
      /\ UNCHANGED <<failures, open>>
  BY DEF WorkerDies, Rest, Goto, breaker
<1>3. \A v \in Workers : job'[v] = IF v = w THEN NoJob ELSE job[v]
  BY <1>2 DEF Inv, TypeOK
<1> DEFINE rest == {job[v] : v \in Workers} \ {NoJob}
<1>4. rest' = rest \ {job[w]}
  BY <1>1, <1>3, NoJobIsNone DEF Inv, JobsHaveOnePlace
<1>5. PICK gone \in SUBSET Jobs :
        /\ Deliver(gone, "error")
        /\ queue' \in Seq(Jobs) /\ Len(queue') <= QueueCap
        /\ \A i, k \in 1..Len(queue') : queue'[i] = queue'[k] => i = k
        /\ Queued' \subseteq Queued
        /\ Held' = Held \ gone
  <2>1. CASE \A v \in Workers \ {w} : pc[v] = "dead"
    <3>1. Deliver({job[w]} \cup Queued, "error") /\ queue' = <<>>
      BY <2>1 DEF WorkerDies
    <3>2. {job[w]} \cup Queued \in SUBSET Jobs
      BY <1>1, HeldAreJobs DEF Inv, Held
    <3>3. queue' \in Seq(Jobs) /\ Len(queue') = 0 /\ Queued' = {}
      BY <3>1, EmptySeq DEF Queued
    <3>4. rest' = {}
      BY <2>1, <1>3 DEF Inv, TypeOK
    <3>5. Held' = {} /\ Held \subseteq {job[w]} \cup Queued
      BY <3>3, <3>4, <1>4 DEF Held
    <3>6. Len(queue') <= QueueCap
      BY <3>3, StripeWorkerAssumption
    <3>7. QED
      BY <3>1, <3>2, <3>3, <3>5, <3>6
  <2>2. CASE ~(\A v \in Workers \ {w} : pc[v] = "dead")
    <3>1. Deliver({job[w]}, "error") /\ queue' = queue
      BY <2>2 DEF WorkerDies
    <3>2. {job[w]} \in SUBSET Jobs /\ Queued' = Queued
      BY <1>1, <3>1 DEF Queued
    <3>3. Held' = Held \ {job[w]}
      BY <3>2, <1>4 DEF Held, Inv, JobsHaveOnePlace
    <3>4. QED
      BY <3>1, <3>2, <3>3 DEF Inv, TypeOK, JobsHaveOnePlace
  <2>3. QED
    BY <2>1, <2>2
<1>6. /\ asked' \in [Callers -> Jobs \cup {NoJob}] /\ answer' \in [Callers -> Answers]
      /\ late' = late \ gone
      /\ \A c \in Callers : asked'[c] = IF asked[c] \in gone THEN NoJob ELSE asked[c]
      /\ OwnJobs'
  BY <1>5, DeliverFrees DEF Inv, Answers
<1>7. TypeOK'
  BY <1>2, <1>5, <1>6, StripeWorkerAssumption DEF Inv, TypeOK, PCs
<1>8. JobsHaveOnePlace'
  <2>1. NoJob \notin Queued
    BY NoJobIsNone, HeldAreJobs DEF Inv, Held
  <2>2. \A v \in Workers : job'[v] \notin Queued'
    BY <2>1, <1>3, <1>5 DEF Inv, JobsHaveOnePlace
  <2>3. \A c \in Callers : asked'[c] \in {NoJob} \cup Held'
    BY <1>5, <1>6 DEF Inv, JobsHaveOnePlace
  <2>4. QED
    BY <1>3, <1>5, <2>2, <2>3 DEF Inv, JobsHaveOnePlace
<1>9. OnlyLateJobsAreLeft'
  <2> SUFFICES ASSUME NEW k \in Held' PROVE asked'[k.by] = k \/ k \in late'
    BY DEF OnlyLateJobsAreLeft
  <2>1. k \in Held /\ k \notin gone /\ k \in Jobs
    BY <1>5, HeldAreJobs DEF Inv
  <2>2. k.by \in Callers
    BY <2>1 DEF Jobs
  <2>3. QED
    BY <2>1, <2>2, <1>6 DEF Inv, OnlyLateJobsAreLeft
<1>10. QED
  BY <1>6, <1>7, <1>8, <1>9 DEF Inv

LEMMA InvNext == Inv /\ [Next]_vars => Inv'
<1> SUFFICES ASSUME Inv, [Next]_vars PROVE Inv'
  OBVIOUS
<1>1. ASSUME NEW c \in Callers, Call(c) PROVE Inv'
  BY <1>1, CallKeepsInv
<1>2. ASSUME NEW c \in Callers, CallRejected(c) \/ DeadlinePasses(c) \/ Timeout(c)
      PROVE  Inv'
  BY <1>2, CallerKeepsInv
<1>3. ASSUME NEW w \in Workers, Work(w) PROVE Inv'
  BY <1>3, TakeKeepsInv, AttemptKeepsInv, ReplyKeepsInv DEF Work
<1>4. ASSUME NEW w \in Workers, WorkerDies(w) PROVE Inv'
  BY <1>4, DeathKeepsInv
<1>5. CASE CooldownEnds
  BY <1>5, CooldownKeepsInv
<1>6. CASE UNCHANGED vars
  <2>1. TypeOK'
    BY <1>6 DEF Inv, TypeOK, vars
  <2>2. QED
    BY <1>6, <2>1, JobsStay DEF Inv, vars
<1>7. QED
  BY <1>1, <1>2, <1>3, <1>4, <1>5, <1>6 DEF Next
------------------------------------------------------------------------------
(* The invariant holds in every reachable state. *)
THEOREM InvHolds == Spec => []Inv
BY InvInit, InvNext, PTL DEF Spec

(* The state of callers, queue, workers and breaker has its type; the queue *)
(* never grows beyond its capacity.                                         *)
THEOREM TypeCorrect == Spec => []TypeOK
<1>1. Inv => TypeOK
  BY DEF Inv
<1>2. QED
  BY <1>1, InvHolds, PTL

(* No job is with two workers, or with a worker and in the queue; nobody    *)
(* waits for a job that neither the queue nor a worker holds, not even when *)
(* workers die.                                                             *)
THEOREM JobsAreNotShared == Spec => []JobsHaveOnePlace
<1>1. Inv => JobsHaveOnePlace
  BY DEF Inv
<1>2. QED
  BY <1>1, InvHolds, PTL

(* The result of a job that its caller left behind ends no other wait: as   *)
(* long as a job's deadline is not over, its caller waits for it.           *)
THEOREM LateResultsGoNowhere == Spec => []OnlyLateJobsAreLeft
<1>1. Inv => OnlyLateJobsAreLeft
  BY DEF Inv
<1>2. QED
  BY <1>1, InvHolds, PTL
------------------------------------------------------------------------------
(* Module Webhook. *)
(* A worker that is past idle has an event. *)
EventsHeld == \A h \in Handlers : stage[h] # "idle" => ev[h] \in Events

Typed == WebhookTypeOK /\ EventsHeld

(* The version to write is one that Stripe had, and a retrieved one is at   *)
(* least as new as the row unless another worker has written since.         *)
PatchHeld ==
    \A h \in Handlers :
        /\ stage[h] # "idle" => Emitted(ev[h])
        /\ stage[h] = "retrieve" => kind[ev[h]] = "retrieve"
        /\ stage[h] = "email" => kind[ev[h]] \in {"snapshot", "retrieve"}
        /\ (\/ stage[h] \in {"lookup", "write"}
            \/ stage[h] = "email" /\ kind[ev[h]] # "snapshot")
           => patch[h] <= stripeVer
        /\ /\ stage[h] \in {"email", "lookup", "write"}
           /\ kind[ev[h]] # "snapshot" /\ ~overtaken[h]
           => sub <= patch[h]

FreshInv == sub <= stripeVer /\ PatchHeld

(* An event that was recorded when its delivery began is still recorded:    *)
(* no row of an event under way expires.                                    *)
ReplaysRecorded ==
    \A h \in Handlers :
        replay[h] => /\ stage[h] \in {"check", "respond"}
                     /\ stage[h] = "check" => ev[h] \in recorded

LEMMA TypedInit == WebhookInit => Typed
<1> SUFFICES ASSUME WebhookInit PROVE Typed
  OBVIOUS
<1> USE WebhookAssumption DEF WebhookInit
<1>1. stripeVer \in Versions /\ sub \in Versions /\ faults \in 0..MaxFaults
  BY DEF Versions
<1>2. stage \in [Handlers -> Stages] /\ ev \in [Handlers -> Events \cup {NoEvent}]
  BY DEF Stages
<1>3. patch \in [Handlers -> Versions] /\ replay \in [Handlers -> BOOLEAN]
      /\ overtaken \in [Handlers -> BOOLEAN]
  BY DEF Versions
<1>4. ends \in [Events -> SUBSET Ends]
  OBVIOUS
<1>5. EventsHeld
  BY DEF EventsHeld
<1>6. QED
  BY <1>1, <1>2, <1>3, <1>4, <1>5 DEF WebhookTypeOK, Typed

(* Noting how a handling ended keeps the history in its type. *)
LEMMA EndTyped ==
    ASSUME Typed, NEW h \in Handlers, NEW how \in Ends, stage[h] # "idle", End(h, how)
    PROVE  ends' \in [Events -> SUBSET Ends]
<1>1. ev[h] \in Events /\ ends \in [Events -> SUBSET Ends]
  BY DEF Typed, WebhookTypeOK, EventsHeld
<1>2. ends[ev[h]] \cup {how} \in SUBSET Ends
  BY <1>1
<1>3. QED
  BY <1>1, <1>2 DEF End

LEMMA TypedNext == Typed /\ [WebhookNext]_webhookVars => Typed'
<1> SUFFICES ASSUME Typed, [WebhookNext]_webhookVars
             PROVE  Typed'
  OBVIOUS
<1> USE WebhookAssumption
    DEF Typed, WebhookTypeOK, EventsHeld, Stages, Versions, Events, NoEvent, Emitted, stripe, worker
<1>1. CASE StripeChanges
  BY <1>1 DEF StripeChanges
<1>2. CASE SignUp
  BY <1>2 DEF SignUp
<1>3. ASSUME NEW e \in Events, GiveUp(e)
      PROVE  Typed'
  BY <1>3 DEF GiveUp, Fault
<1>4. ASSUME NEW h \in Handlers, NEW e \in Events, DeliverEvent(h, e)
      PROVE  Typed'
  BY <1>4 DEF DeliverEvent, MoveTo
<1>5. ASSUME NEW h \in Handlers, Check(h)
      PROVE  Typed'
  <2>1. ends' \in [Events -> SUBSET Ends]
    BY <1>5, EndTyped DEF Check, Ends, Fault
  <2>2. QED
    BY <1>5, <2>1 DEF Check, MoveTo, IsRecorded
<1>6. ASSUME NEW h \in Handlers, Retrieve(h)
      PROVE  Typed'
  BY <1>6 DEF Retrieve, Retrieved, MoveTo
<1>7. ASSUME NEW h \in Handlers, Resolve(h)
      PROVE  Typed'
  BY <1>7 DEF Resolve, MoveTo
<1>8. ASSUME NEW h \in Handlers, Lookup(h)
      PROVE  Typed'
  <2>1. ends' \in [Events -> SUBSET Ends]
    BY <1>8, EndTyped DEF Lookup, Ends, Fault
  <2>2. QED
    BY <1>8, <2>1 DEF Lookup, MoveTo
<1>9. ASSUME NEW h \in Handlers, Write(h)
      PROVE  Typed'
  <2>1. ends' \in [Events -> SUBSET Ends]
    BY <1>9, EndTyped DEF Write, Ends, Fault
  <2>2. overtaken' \in [Handlers -> BOOLEAN]
    BY <1>9 DEF Write, Overtake
  <2>3. sub' \in Versions /\ stage' \in [Handlers -> Stages]
        /\ UNCHANGED <<stripe, settled, hasUser, recorded, ev, patch, replay, faults>>
    BY <1>9 DEF Write, MoveTo
  <2>4. EventsHeld'
    BY <1>9 DEF Write, MoveTo
  <2>5. QED
    BY <2>1, <2>2, <2>3, <2>4
<1>10. ASSUME NEW h \in Handlers, Record(h)
      PROVE  Typed'
  BY <1>10 DEF Record, MoveTo
<1>11. ASSUME NEW h \in Handlers, Respond(h)
      PROVE  Typed'
  <2>1. settled' \subseteq Events
    BY <1>11 DEF Respond
  <2>2. QED
    BY <1>11, <2>1 DEF Respond, Abandon, MoveTo
<1>12. ASSUME NEW h \in Handlers, CheckFails(h)
      PROVE  Typed'
  BY <1>12 DEF CheckFails, Abandon, MoveTo, Fault
<1>13. ASSUME NEW h \in Handlers, StripeFails(h)
      PROVE  Typed'
  BY <1>13 DEF StripeFails, Abandon, MoveTo, Fault
<1>14. ASSUME NEW h \in Handlers, NoEmail(h)
      PROVE  Typed'
  <2>1. /\ stage[h] = "email" /\ Fault
        /\ UNCHANGED <<stripe, settled, hasUser, sub, recorded>>
    BY <1>14 DEF NoEmail
  <2>2. CASE Abandon(h) /\ UNCHANGED ends
    BY <2>1, <2>2 DEF Abandon, MoveTo, Fault
  <2>3. CASE MoveTo(h, "record") /\ End(h, "nothing") /\ UNCHANGED <<ev, patch, overtaken, replay>>
    <3>1. ends' \in [Events -> SUBSET Ends]
      BY <2>1, <2>3, EndTyped DEF Ends
    <3>2. QED
      BY <2>1, <2>3, <3>1 DEF MoveTo, Fault
  <2>4. QED
    BY <1>14, <2>2, <2>3 DEF NoEmail
<1>15. ASSUME NEW h \in Handlers, PatchFails(h)
      PROVE  Typed'
  <2>1. ends' \in [Events -> SUBSET Ends]
    BY <1>15, EndTyped DEF PatchFails, Ends, Fault
  <2>2. QED
    BY <1>15, <2>1 DEF PatchFails, MoveTo, Fault
<1>16. ASSUME NEW h \in Handlers, RecordFails(h)
      PROVE  Typed'
  BY <1>16 DEF RecordFails, MoveTo, Fault
<1>17. ASSUME NEW h \in Handlers, ResponseLost(h)
      PROVE  Typed'
  BY <1>17 DEF ResponseLost, Abandon, MoveTo, Fault
<1>18. CASE Crash
  BY <1>18 DEF Crash, Fault
<1>19. CASE Prune
  BY <1>19 DEF Prune, Expired
<1>20. CASE UNCHANGED webhookVars
  BY <1>20 DEF webhookVars
<1>21. QED
  BY <1>1, <1>2, <1>3, <1>4, <1>5, <1>6, <1>7, <1>8, <1>9, <1>10, <1>11,
     <1>12, <1>13, <1>14, <1>15, <1>16, <1>17, <1>18, <1>19, <1>20
  DEF WebhookNext, Handle, HandleFails

(* The invariants that follow are each proved on top of the types. *)
LEMMA EffectNext == Typed /\ RecordFollowsEffect /\ [WebhookNext]_webhookVars => RecordFollowsEffect'
<1> SUFFICES ASSUME Typed, RecordFollowsEffect, [WebhookNext]_webhookVars
             PROVE  RecordFollowsEffect'
  OBVIOUS
<1> USE DEF Typed, WebhookTypeOK, EventsHeld, RecordFollowsEffect, stripe, worker
<1>1. CASE StripeChanges
  BY <1>1 DEF StripeChanges
<1>2. CASE SignUp
  BY <1>2 DEF SignUp
<1>3. ASSUME NEW e \in Events, GiveUp(e)
      PROVE  RecordFollowsEffect'
  BY <1>3 DEF GiveUp, Fault
<1>4. ASSUME NEW h \in Handlers, NEW e \in Events, DeliverEvent(h, e)
      PROVE  RecordFollowsEffect'
  BY <1>4 DEF DeliverEvent, MoveTo
<1>5. ASSUME NEW h \in Handlers, Check(h)
      PROVE  RecordFollowsEffect'
  BY <1>5 DEF Check, MoveTo, End, IsRecorded
<1>6. ASSUME NEW h \in Handlers, Retrieve(h)
      PROVE  RecordFollowsEffect'
  BY <1>6 DEF Retrieve, Retrieved, MoveTo
<1>7. ASSUME NEW h \in Handlers, Resolve(h)
      PROVE  RecordFollowsEffect'
  BY <1>7 DEF Resolve, MoveTo
<1>8. ASSUME NEW h \in Handlers, Lookup(h)
      PROVE  RecordFollowsEffect'
  BY <1>8 DEF Lookup, MoveTo, End
<1>9. ASSUME NEW h \in Handlers, Write(h)
      PROVE  RecordFollowsEffect'
  BY <1>9 DEF Write, MoveTo, End
<1>10. ASSUME NEW h \in Handlers, Record(h)
      PROVE  RecordFollowsEffect'
  BY <1>10 DEF Record, MoveTo
<1>11. ASSUME NEW h \in Handlers, Respond(h)
      PROVE  RecordFollowsEffect'
  BY <1>11 DEF Respond, Abandon, MoveTo
<1>12. ASSUME NEW h \in Handlers, CheckFails(h)
      PROVE  RecordFollowsEffect'
  BY <1>12 DEF CheckFails, Abandon, MoveTo, Fault
<1>13. ASSUME NEW h \in Handlers, StripeFails(h)
      PROVE  RecordFollowsEffect'
  BY <1>13 DEF StripeFails, Abandon, MoveTo, Fault
<1>14. ASSUME NEW h \in Handlers, NoEmail(h)
      PROVE  RecordFollowsEffect'
  <2>1. stage[h] = "email" /\ UNCHANGED recorded
    BY <1>14 DEF NoEmail
  <2>2. CASE Abandon(h) /\ UNCHANGED ends
    BY <2>1, <2>2 DEF Abandon, MoveTo
  <2>3. CASE MoveTo(h, "record") /\ End(h, "nothing") /\ UNCHANGED ev
    BY <2>1, <2>3 DEF MoveTo, End
  <2>4. QED
    BY <1>14, <2>2, <2>3 DEF NoEmail
<1>15. ASSUME NEW h \in Handlers, PatchFails(h)
      PROVE  RecordFollowsEffect'
  BY <1>15 DEF PatchFails, MoveTo, Fault, End
<1>16. ASSUME NEW h \in Handlers, RecordFails(h)
      PROVE  RecordFollowsEffect'
  BY <1>16 DEF RecordFails, MoveTo, Fault
<1>17. ASSUME NEW h \in Handlers, ResponseLost(h)
      PROVE  RecordFollowsEffect'
  BY <1>17 DEF ResponseLost, Abandon, MoveTo, Fault
<1>18. CASE Crash
  BY <1>18 DEF Crash, Fault
<1>19. CASE Prune
  BY <1>19 DEF Prune, Expired
<1>20. CASE UNCHANGED webhookVars
  BY <1>20 DEF webhookVars
<1>21. QED
  BY <1>1, <1>2, <1>3, <1>4, <1>5, <1>6, <1>7, <1>8, <1>9, <1>10, <1>11,
     <1>12, <1>13, <1>14, <1>15, <1>16, <1>17, <1>18, <1>19, <1>20
  DEF WebhookNext, Handle, HandleFails

LEMMA ReplayNext == Typed /\ ReplaysRecorded /\ [WebhookNext]_webhookVars => ReplaysRecorded'
<1> SUFFICES ASSUME Typed, ReplaysRecorded, [WebhookNext]_webhookVars
             PROVE  ReplaysRecorded'
  OBVIOUS
<1> USE DEF Typed, WebhookTypeOK, EventsHeld, ReplaysRecorded, stripe, worker
<1>1. CASE StripeChanges
  BY <1>1 DEF StripeChanges
<1>2. CASE SignUp
  BY <1>2 DEF SignUp
<1>3. ASSUME NEW e \in Events, GiveUp(e)
      PROVE  ReplaysRecorded'
  BY <1>3 DEF GiveUp, Fault
<1>4. ASSUME NEW h \in Handlers, NEW e \in Events, DeliverEvent(h, e)
      PROVE  ReplaysRecorded'
  BY <1>4 DEF DeliverEvent, MoveTo
<1>5. ASSUME NEW h \in Handlers, Check(h)
      PROVE  ReplaysRecorded'
  BY <1>5 DEF Check, MoveTo, End, IsRecorded
<1>6. ASSUME NEW h \in Handlers, Retrieve(h)
      PROVE  ReplaysRecorded'
  BY <1>6 DEF Retrieve, Retrieved, MoveTo
<1>7. ASSUME NEW h \in Handlers, Resolve(h)
      PROVE  ReplaysRecorded'
  BY <1>7 DEF Resolve, MoveTo
<1>8. ASSUME NEW h \in Handlers, Lookup(h)
      PROVE  ReplaysRecorded'
  BY <1>8 DEF Lookup, MoveTo, End
<1>9. ASSUME NEW h \in Handlers, Write(h)
      PROVE  ReplaysRecorded'
  BY <1>9 DEF Write, MoveTo, End
<1>10. ASSUME NEW h \in Handlers, Record(h)
      PROVE  ReplaysRecorded'
  BY <1>10 DEF Record, MoveTo
<1>11. ASSUME NEW h \in Handlers, Respond(h)
      PROVE  ReplaysRecorded'
  BY <1>11 DEF Respond, Abandon, MoveTo
<1>12. ASSUME NEW h \in Handlers, CheckFails(h)
      PROVE  ReplaysRecorded'
  BY <1>12 DEF CheckFails, Abandon, MoveTo, Fault
<1>13. ASSUME NEW h \in Handlers, StripeFails(h)
      PROVE  ReplaysRecorded'
  BY <1>13 DEF StripeFails, Abandon, MoveTo, Fault
<1>14. ASSUME NEW h \in Handlers, NoEmail(h)
      PROVE  ReplaysRecorded'
  BY <1>14 DEF NoEmail, Abandon, MoveTo, Fault, End
<1>15. ASSUME NEW h \in Handlers, PatchFails(h)
      PROVE  ReplaysRecorded'
  BY <1>15 DEF PatchFails, MoveTo, Fault, End
<1>16. ASSUME NEW h \in Handlers, RecordFails(h)
      PROVE  ReplaysRecorded'
  BY <1>16 DEF RecordFails, MoveTo, Fault
<1>17. ASSUME NEW h \in Handlers, ResponseLost(h)
      PROVE  ReplaysRecorded'
  BY <1>17 DEF ResponseLost, Abandon, MoveTo, Fault
<1>18. CASE Crash
  BY <1>18 DEF Crash, Fault
<1>19. CASE Prune
  BY <1>19 DEF Prune, Expired
<1>20. CASE UNCHANGED webhookVars
  BY <1>20 DEF webhookVars
<1>21. QED
  BY <1>1, <1>2, <1>3, <1>4, <1>5, <1>6, <1>7, <1>8, <1>9, <1>10, <1>11,
     <1>12, <1>13, <1>14, <1>15, <1>16, <1>17, <1>18, <1>19, <1>20
  DEF WebhookNext, Handle, HandleFails

LEMMA FreshNext == Typed /\ FreshInv /\ [WebhookNext]_webhookVars => FreshInv'
<1> SUFFICES ASSUME Typed, FreshInv, [WebhookNext]_webhookVars
             PROVE  FreshInv'
  OBVIOUS
<1> USE WebhookAssumption
    DEF Typed, WebhookTypeOK, EventsHeld, FreshInv, PatchHeld, Emitted,
        Versions, Events, Kinds, NoEvent, stripe, worker
<1>1. CASE StripeChanges
  BY <1>1 DEF StripeChanges
<1>2. CASE SignUp
  BY <1>2 DEF SignUp
<1>3. ASSUME NEW e \in Events, GiveUp(e)
      PROVE  FreshInv'
  BY <1>3 DEF GiveUp, Fault
<1>4. ASSUME NEW h \in Handlers, NEW e \in Events, DeliverEvent(h, e)
      PROVE  FreshInv'
  BY <1>4 DEF DeliverEvent, MoveTo
<1>5. ASSUME NEW h \in Handlers, Check(h)
      PROVE  FreshInv'
  BY <1>5 DEF Check, MoveTo, End, IsRecorded
<1>6. ASSUME NEW h \in Handlers, Retrieve(h)
      PROVE  FreshInv'
  <2>1. /\ stage[h] = "retrieve"
        /\ patch' = [patch EXCEPT ![h] = stripeVer]
        /\ overtaken' = [overtaken EXCEPT ![h] = FALSE]
        /\ UNCHANGED <<stripe, sub, ev>>
    BY <1>6 DEF Retrieve, Retrieved
  <2>2. PICK label \in {"email", "lookup"} : stage' = [stage EXCEPT ![h] = label]
    BY <1>6 DEF Retrieve, MoveTo
  <2>3. kind[ev[h]] = "retrieve"
    BY <2>1
  <2>4. sub' <= stripeVer'
    BY <2>1
  <2>5. ASSUME NEW g \in Handlers, g # h
        PROVE  /\ stage'[g] = stage[g] /\ patch'[g] = patch[g]
               /\ overtaken'[g] = overtaken[g]
    BY <2>1, <2>2, <2>5
  <2>6. /\ stage'[h] \in {"email", "lookup"} /\ patch'[h] = stripeVer
    BY <2>1, <2>2
  <2>7. PatchHeld'
    BY <2>1, <2>3, <2>5, <2>6
  <2>8. QED
    BY <2>4, <2>7
<1>7. ASSUME NEW h \in Handlers, Resolve(h)
      PROVE  FreshInv'
  BY <1>7 DEF Resolve, MoveTo
<1>8. ASSUME NEW h \in Handlers, Lookup(h)
      PROVE  FreshInv'
  BY <1>8 DEF Lookup, MoveTo, End
<1>9. ASSUME NEW h \in Handlers, Write(h)
      PROVE  FreshInv'
  BY <1>9 DEF Write, Overtake, MoveTo, End
<1>10. ASSUME NEW h \in Handlers, Record(h)
      PROVE  FreshInv'
  BY <1>10 DEF Record, MoveTo
<1>11. ASSUME NEW h \in Handlers, Respond(h)
      PROVE  FreshInv'
  BY <1>11 DEF Respond, Abandon, MoveTo
<1>12. ASSUME NEW h \in Handlers, CheckFails(h)
      PROVE  FreshInv'
  BY <1>12 DEF CheckFails, Abandon, MoveTo, Fault
<1>13. ASSUME NEW h \in Handlers, StripeFails(h)
      PROVE  FreshInv'
  BY <1>13 DEF StripeFails, Abandon, MoveTo, Fault
<1>14. ASSUME NEW h \in Handlers, NoEmail(h)
      PROVE  FreshInv'
  BY <1>14 DEF NoEmail, Abandon, MoveTo, Fault, End
<1>15. ASSUME NEW h \in Handlers, PatchFails(h)
      PROVE  FreshInv'
  BY <1>15 DEF PatchFails, MoveTo, Fault, End
<1>16. ASSUME NEW h \in Handlers, RecordFails(h)
      PROVE  FreshInv'
  BY <1>16 DEF RecordFails, MoveTo, Fault
<1>17. ASSUME NEW h \in Handlers, ResponseLost(h)
      PROVE  FreshInv'
  BY <1>17 DEF ResponseLost, Abandon, MoveTo, Fault
<1>18. CASE Crash
  BY <1>18 DEF Crash, Fault
<1>19. CASE Prune
  BY <1>19 DEF Prune, Expired
<1>20. CASE UNCHANGED webhookVars
  BY <1>20 DEF webhookVars
<1>21. QED
  BY <1>1, <1>2, <1>3, <1>4, <1>5, <1>6, <1>7, <1>8, <1>9, <1>10, <1>11,
     <1>12, <1>13, <1>14, <1>15, <1>16, <1>17, <1>18, <1>19, <1>20
  DEF WebhookNext, Handle, HandleFails

WebhookInv == Typed /\ RecordFollowsEffect /\ ReplaysRecorded /\ FreshInv

LEMMA Invariance == WebhookSpec => []WebhookInv
<1>1. WebhookInit => WebhookInv
  <2> SUFFICES ASSUME WebhookInit PROVE WebhookInv
    OBVIOUS
  <2>1. RecordFollowsEffect
    BY DEF WebhookInit, RecordFollowsEffect
  <2>2. ReplaysRecorded
    BY DEF WebhookInit, ReplaysRecorded
  <2>3. FreshInv
    BY DEF WebhookInit, FreshInv, PatchHeld
  <2>4. QED
    BY TypedInit, <2>1, <2>2, <2>3 DEF WebhookInv
<1>2. WebhookInv /\ [WebhookNext]_webhookVars => WebhookInv'
  BY TypedNext, EffectNext, ReplayNext, FreshNext DEF WebhookInv
<1>3. QED
  BY <1>1, <1>2, PTL DEF WebhookSpec

(* Every variable keeps its type. *)
THEOREM WebhookTypeCorrect == WebhookSpec => []WebhookTypeOK
<1>1. WebhookInv => WebhookTypeOK
  BY DEF WebhookInv, Typed
<1>2. QED
  BY <1>1, Invariance, PTL

(* The row in WebhookEvents and the 200 come after the effect, through any  *)
(* crash, failure, duplicate and reordering.                                *)
THEOREM EffectComesFirst == WebhookSpec => []RecordFollowsEffect
<1>1. WebhookInv => RecordFollowsEffect
  BY DEF WebhookInv
<1>2. QED
  BY <1>1, Invariance, PTL

(* A delivery that begins after its event was recorded has no effect. *)
THEOREM ReplaysAreSkipped == WebhookSpec => []ReplayIsSkipped
<1>1. WebhookInv => ReplayIsSkipped
  BY DEF WebhookInv, ReplaysRecorded, ReplayIsSkipped
<1>2. QED
  BY <1>1, Invariance, PTL

(* However often and in whatever order Stripe delivers: the row goes back   *)
(* to an older state of the subscription only by a snapshot event, or by a  *)
(* worker whose answer from Stripe another worker's write overtook.         *)
THEOREM RowGoesBackOnlyByRace == WebhookSpec => SetBackOnlyByRace
<1>1. WebhookInv /\ [WebhookNext]_webhookVars
      => [sub' < sub =>
             \E h \in Handlers :
                /\ Write(h)
                /\ kind[ev[h]] = "snapshot" \/ overtaken[h]]_webhookVars
  <2> SUFFICES ASSUME WebhookInv, WebhookNext, sub' < sub
               PROVE  \E h \in Handlers : Write(h) /\ (kind[ev[h]] = "snapshot" \/ overtaken[h])
    OBVIOUS
  <2>1. sub \in Nat /\ patch \in [Handlers -> Nat]
    BY WebhookAssumption DEF WebhookInv, Typed, WebhookTypeOK, Versions
  <2>2. PICK h \in Handlers : Write(h)
    <3> SUFFICES ASSUME \A h \in Handlers : ~Write(h) PROVE sub' = sub
      BY <2>1
    <3>1. QED
      BY DEF WebhookNext, Handle, HandleFails, StripeChanges, SignUp, GiveUp,
         DeliverEvent, Check, Retrieve, Resolve, Lookup, Record, Respond, CheckFails,
         StripeFails, NoEmail, PatchFails, RecordFails, ResponseLost, Crash, Prune
  <2>3. stage[h] = "write" /\ ~(sub <= patch[h])
    BY <2>1, <2>2 DEF Write
  <2>4. kind[ev[h]] = "snapshot" \/ overtaken[h]
    BY <2>3 DEF WebhookInv, FreshInv, PatchHeld
  <2>5. QED
    BY <2>2, <2>4
<1>2. QED
  BY <1>1, Invariance, PTL DEF WebhookSpec, SetBackOnlyByRace
==============================================================================

----------------------------- MODULE StripeWorker -----------------------------
(***************************************************************************)
(* The threads that make the Stripe calls: stripe_worker.rs (the bounded    *)
(* queue of jobs, the caller's timeout, the job's deadline) and the         *)
(* send_with_retry of stripe.rs with its circuit breaker.                   *)
(*                                                                          *)
(* A caller is an HTTP worker inside one call of StripeWorker.  Its job     *)
(* carries the sending end of a channel made for this call alone: the n of  *)
(* the job stands for the channel.  What is asked of Stripe is left out.    *)
(* Time is only what the timeouts tell apart.  The chained calls of one     *)
(* handler are calls one after the other.                                   *)
(***************************************************************************)
EXTENDS Integers, FiniteSets, Sequences

CONSTANTS Callers,
          Workers,           \* the STRIPE_WORKERS threads
          QueueCap,          \* STRIPE_QUEUE_CAP
          MaxRetries,        \* MAX_RETRIES
          FailureThreshold,  \* CIRCUIT_FAILURE_THRESHOLD
          NumCalls           \* bound: enough for a fresh channel always to exist

ASSUME StripeWorkerAssumption ==
    /\ IsFiniteSet(Callers) /\ IsFiniteSet(Workers)
    /\ QueueCap \in Nat \ {0} /\ MaxRetries \in Nat /\ FailureThreshold \in Nat \ {0}
    /\ NumCalls \in Nat
    /\ NumCalls > QueueCap + Cardinality(Workers)

VARIABLES
    queue,     \* the jobs in the channel
    asked,     \* per caller: the job it waits for
    answer,    \* per caller: how its last call ended
    late,      \* the jobs still about whose deadline has passed
    pc, job,   \* per worker: where it is, and its job
    attempt,   \* per worker: the attempt of send_with_retry
    failures,  \* CircuitState.consecutive_failures, up to the threshold
    open       \* is now < CircuitState.open_until

breaker == <<failures, open>>
vars == <<queue, asked, answer, late, pc, job, attempt, failures, open>>

Jobs == [by : Callers, n : 1..NumCalls]
NoJob == [n |-> 0]
PCs == {"recv", "breaker", "request", "succeeded", "failed", "ok", "error", "dead"}
Answers == {"none", "ok", "error", "timeout", "busy"}

Init ==
    /\ queue = <<>>
    /\ asked = [c \in Callers |-> NoJob]
    /\ answer = [c \in Callers |-> "none"]
    /\ late = {}
    /\ pc = [w \in Workers |-> "recv"]
    /\ job = [w \in Workers |-> NoJob]
    /\ attempt = [w \in Workers |-> 0]
    /\ failures = 0
    /\ open = FALSE

Goto(w, label) == pc' = [pc EXCEPT ![w] = label]

Queued == {queue[i] : i \in 1..Len(queue)}
Held == Queued \cup ({job[w] : w \in Workers} \ {NoJob})
InUse == Queued \cup {asked[c] : c \in Callers} \cup {job[w] : w \in Workers}
NewJob(c) ==
    CHOOSE j \in Jobs \ InUse : j.by = c

(* The worker is through with its job. *)
Rest(w, label) ==
    /\ Goto(w, label)
    /\ job' = [job EXCEPT ![w] = NoJob]
    /\ attempt' = [attempt EXCEPT ![w] = 0]

------------------------------------------------------------------------------
(* Faults: plausible bugs, which the properties below must rule out. *)

(* One reply channel per caller, and not per call. *)
DeliverToCaller(jobs, how) ==
    LET owners == {c \in Callers : asked[c] # NoJob /\ \E j \in jobs : j.by = c}
    IN /\ late' = late \ jobs
       /\ answer' = [c \in Callers |-> IF c \in owners THEN how ELSE answer[c]]
       /\ asked' = [c \in Callers |-> IF c \in owners THEN NoJob ELSE asked[c]]

(* A worker leaves its job in the queue until it is through with it. *)
TakePeeks(w) ==
    /\ pc[w] = "recv"
    /\ queue # <<>>
    /\ Goto(w, "breaker")
    /\ job' = [job EXCEPT ![w] = Head(queue)]
    /\ UNCHANGED <<queue, asked, answer, late, attempt, breaker>>

(* An expired job is put back rather than answered. *)
TakePutsBack(w) ==
    /\ pc[w] = "recv"
    /\ queue # <<>>
    /\ IF Head(queue) \in late
       THEN queue' = Append(Tail(queue), Head(queue)) /\ UNCHANGED <<pc, job>>
       ELSE /\ queue' = Tail(queue)
            /\ Goto(w, "breaker")
            /\ job' = [job EXCEPT ![w] = Head(queue)]
    /\ UNCHANGED <<asked, answer, late, attempt, breaker>>

(* The caller waits for the worker without a timeout. *)
TimeoutNever(c) == FALSE /\ c \in Callers /\ UNCHANGED vars

------------------------------------------------------------------------------
(* The receiving ends of the jobs get a message, or see the sender gone.  A *)
(* caller that has timed out has dropped its end, and the message is lost.  *)
Deliver(jobs, how) ==
    /\ late' = late \ jobs
    /\ answer' = [c \in Callers |-> IF asked[c] \in jobs THEN how ELSE answer[c]]
    /\ asked' = [c \in Callers |-> IF asked[c] \in jobs THEN NoJob ELSE asked[c]]

(* enqueue: the job is in the queue, and the caller waits. *)
Call(c) ==
    /\ asked[c] = NoJob
    /\ \E w \in Workers : pc[w] # "dead"
    /\ Len(queue) < QueueCap
    /\ queue' = Append(queue, NewJob(c))
    /\ asked' = [asked EXCEPT ![c] = NewJob(c)]
    /\ answer' = [answer EXCEPT ![c] = "none"]
    /\ UNCHANGED <<late, pc, job, attempt, breaker>>

(* send: the queue is full, or closed since no worker is left. *)
CallRejected(c) ==
    /\ asked[c] = NoJob
    /\ \/ /\ \E w \in Workers : pc[w] # "dead"
          /\ Len(queue) = QueueCap
          /\ answer' = [answer EXCEPT ![c] = "busy"]
       \/ /\ \A w \in Workers : pc[w] = "dead"
          /\ answer' = [answer EXCEPT ![c] = "error"]
    /\ UNCHANGED <<queue, asked, late, pc, job, attempt, breaker>>

(* STRIPE_CALL_TIMEOUT after enqueue. *)
DeadlinePasses(c) ==
    /\ asked[c] \notin late \cup {NoJob}
    /\ late' = late \cup {asked[c]}
    /\ UNCHANGED <<queue, asked, answer, pc, job, attempt, breaker>>

(* wait: recv_timeout, begun after the deadline was set, is over. *)
Timeout(c) ==
    /\ asked[c] \in late
    /\ asked' = [asked EXCEPT ![c] = NoJob]
    /\ answer' = [answer EXCEPT ![c] = "timeout"]
    /\ UNCHANGED <<queue, late, pc, job, attempt, breaker>>

(* worker_loop receives a job; run_job rejects it if its deadline passed. *)
Take(w) ==
    /\ pc[w] = "recv"
    /\ queue # <<>>
    /\ queue' = Tail(queue)
    /\ IF Head(queue) \in late
       THEN Deliver({Head(queue)}, "timeout") /\ UNCHANGED <<pc, job>>
       ELSE /\ Goto(w, "breaker")
            /\ job' = [job EXCEPT ![w] = Head(queue)]
            /\ UNCHANGED <<asked, answer, late>>
    /\ UNCHANGED <<attempt, breaker>>

(* send_with_retry fails fast on an open circuit. *)
Breaker(w) ==
    /\ pc[w] = "breaker"
    /\ Goto(w, IF open THEN "error" ELSE "request")
    /\ UNCHANGED <<queue, asked, answer, late, job, attempt, breaker>>

(* An attempt gets a final answer: 2xx, and Stripe has done it, or 4xx. *)
RequestAnswered(w) ==
    /\ pc[w] = "request"
    /\ Goto(w, "succeeded")
    /\ UNCHANGED <<queue, asked, answer, late, job, attempt, breaker>>

(* An attempt gets 429, 5xx or no answer at all, and Stripe may have done   *)
(* what it asks; the next one follows after a pause.                        *)
RequestFails(w) ==
    /\ pc[w] = "request"
    /\ IF attempt[w] < MaxRetries
       THEN attempt' = [attempt EXCEPT ![w] = @ + 1] /\ UNCHANGED pc
       ELSE Goto(w, "failed") /\ UNCHANGED attempt
    /\ UNCHANGED <<queue, asked, answer, late, job, breaker>>

(* CircuitState::record_success: any HTTP answer closes the circuit. *)
RecordSuccess(w) ==
    /\ pc[w] = "succeeded"
    /\ failures' = 0
    /\ open' = FALSE
    /\ \E label \in {"ok", "error"} : Goto(w, label)
    /\ UNCHANGED <<queue, asked, answer, late, job, attempt>>

(* CircuitState::record_failure *)
RecordFailure(w) ==
    /\ pc[w] = "failed"
    /\ failures' = IF failures < FailureThreshold THEN failures + 1 ELSE failures
    /\ open' = (failures' = FailureThreshold \/ open)
    /\ Goto(w, "error")
    /\ UNCHANGED <<queue, asked, answer, late, job, attempt>>

(* CIRCUIT_COOLDOWN is over; the count of failures stays. *)
CooldownEnds ==
    /\ open
    /\ open' = FALSE
    /\ UNCHANGED <<queue, asked, answer, late, pc, job, attempt, failures>>

(* run_job sends the result down the channel of its job. *)
Reply(w) ==
    /\ pc[w] \in {"ok", "error"}
    /\ Deliver({job[w]}, pc[w])
    /\ Rest(w, "recv")
    /\ UNCHANGED <<queue, breaker>>

(* The client panics.  The job's channel goes; with the last worker goes    *)
(* the queue, and with it the channels of the jobs in it.                   *)
WorkerDies(w) ==
    /\ pc[w] \in {"breaker", "request"}
    /\ Rest(w, "dead")
    /\ IF \A v \in Workers \ {w} : pc[v] = "dead"
       THEN Deliver({job[w]} \cup Queued, "error") /\ queue' = <<>>
       ELSE Deliver({job[w]}, "error") /\ UNCHANGED queue
    /\ UNCHANGED breaker
------------------------------------------------------------------------------
Work(w) ==
    \/ Take(w) \/ Breaker(w) \/ RequestAnswered(w) \/ RequestFails(w)
    \/ RecordSuccess(w) \/ RecordFailure(w) \/ Reply(w)

Next ==
    \/ \E c \in Callers :
          \/ Call(c)
          \/ CallRejected(c) \/ DeadlinePasses(c) \/ Timeout(c)
    \/ \E w \in Workers : Work(w) \/ WorkerDies(w)
    \/ CooldownEnds

Spec == Init /\ [][Next]_vars

(* Time passes for a waiting caller. *)
FairSpec ==
    /\ Spec
    /\ \A c \in Callers : WF_vars(DeadlinePasses(c)) /\ WF_vars(Timeout(c))

(* A worker's attempts end, since libcurl has a timeout of its own. *)
AttemptsEnd == \A w \in Workers : WF_vars(Work(w))
------------------------------------------------------------------------------
TypeOK ==
    /\ queue \in Seq(Jobs) /\ Len(queue) <= QueueCap
    /\ asked \in [Callers -> Jobs \cup {NoJob}]
    /\ answer \in [Callers -> Answers]
    /\ late \subseteq Jobs
    /\ pc \in [Workers -> PCs]
    /\ job \in [Workers -> Jobs \cup {NoJob}]
    /\ \A w \in Workers : job[w] = NoJob <=> pc[w] \in {"recv", "dead"}
    /\ attempt \in [Workers -> 0..MaxRetries]
    /\ failures \in 0..FailureThreshold
    /\ open \in BOOLEAN

(* A job is in the queue once or with one worker, whatever times out and    *)
(* dies: nothing is asked of Stripe twice for one call.  And nobody waits   *)
(* for a job that is nowhere.                                               *)
JobsHaveOnePlace ==
    /\ \A i, k \in 1..Len(queue) : queue[i] = queue[k] => i = k
    /\ \A w \in Workers : job[w] \notin Queued
    /\ \A v, w \in Workers : job[v] = job[w] /\ job[w] # NoJob => v = w
    /\ \A c \in Callers : asked[c] \in {NoJob} \cup Held

(* A caller leaves a job behind only when its deadline is over: the result  *)
(* of a job left behind earlier never ends the wait for a later one.        *)
OnlyLateJobsAreLeft ==
    \A j \in Held : asked[j.by] = j \/ j \in late

(* Each caller is answered when its timeout is over, even if every worker   *)
(* hangs inside libcurl.                                                    *)
CallerIsAnswered == \A c \in Callers : asked[c] # NoJob ~> asked[c] = NoJob

(* The queue, which is first in, first out, is emptied or keeps getting     *)
(* shorter if the attempts of the workers end: jobs that expired in it do   *)
(* not clog it, and if the workers die, it dies with them.                  *)
QueueMoves ==
    AttemptsEnd => []<>(queue = <<>>) \/ []<><<Len(queue') < Len(queue)>>_queue
------------------------------------------------------------------------------
(* What the module comment of stripe_worker.rs says: expired work is dropped *)
(* "instead of still hitting Stripe".  The code looks at the deadline when a *)
(* worker takes the job, and not between the attempts of send_with_retry.    *)
ExpiredWorkIsDropped ==
    [][\A w \in Workers :
          RequestFails(w) /\ attempt'[w] > attempt[w] => job[w] \notin late]_vars
==============================================================================

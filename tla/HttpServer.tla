----------------------------- MODULE HttpServer -----------------------------
(***************************************************************************)
(* The HTTP server of http.rs: an acceptor, a bounded queue of connections, *)
(* a fixed pool of workers that each serve one connection at a time, the    *)
(* time limits on reading, and the shutdown.                                *)
(*                                                                          *)
(* What the bytes of a request mean is in module Framing; here a read       *)
(* returns a part of the request line, of the headers, of a chunk's size    *)
(* line or of the data it announces (a body of known length is one chunk),  *)
(* or its end.  A client sends when it likes, or not at all.  Durations are *)
(* in ticks; a read that is out of time fails before the clock goes on.     *)
(***************************************************************************)
EXTENDS Integers, Sequences, FiniteSets, SequencesExt

CONSTANTS Conns, Workers,
          Wake, NoConn,    \* the connection trigger makes to wake accept; none
          MaxQueued,       \* Config::max_queued_connections
          ReadTimeout, RequestTimeout, IdleTimeout, Grace,
          MaxReads         \* bound on the reads that fill one chunk

ASSUME HttpServerAssumption ==
    /\ IsFiniteSet(Conns) /\ IsFiniteSet(Workers)
    /\ Wake \notin Conns /\ NoConn \notin Conns /\ Wake # NoConn
    /\ {MaxQueued, ReadTimeout, RequestTimeout, IdleTimeout, MaxReads} \subseteq Nat \ {0}
    /\ Grace \in Nat

VARIABLES
    stop,      \* Inner::stop
    signalled, \* Inner::signalled
    live,      \* Inner::live
    trig,      \* the thread that calls trigger
    main,      \* the main thread: wait, shutdown, and how long it may still wait
    acceptor,  \* the accept loop; when it ends it drops the sender of the queue
    backlog,   \* connections the system has made and accept not returned
    queue,     \* the channel from the acceptor to the workers
    open,      \* connections neither side has closed
    job        \* per worker: the connection it serves

vars == <<stop, signalled, live, trig, main, acceptor, backlog, queue, open, job>>
server == <<stop, signalled, live, trig, main, acceptor>>

Reading == {"line", "headers", "size", "data"}
PCs == {"recv", "handler", "answer", "refuse", "close", "exited"} \cup Reading

(* left: to the deadline of the phase.  armed: the socket's read timeout.   *)
(* sock: what is left of it for the read under way.  need: reads that fill  *)
(* the chunk.  keep: may the connection be used again.  spent is history:   *)
(* the time since the request line was read.                                *)
Free == [pc |-> "recv", conn |-> NoConn, left |-> 0, armed |-> 0, sock |-> 0,
         need |-> 0, keep |-> FALSE, spent |-> 0]

Init ==
    /\ stop = FALSE /\ signalled = FALSE
    /\ live = Cardinality(Workers)
    /\ trig = "idle"
    /\ main = [pc |-> "wait", left |-> Grace]
    /\ acceptor = "accept"
    /\ backlog = <<>> /\ queue = <<>>
    /\ open = {}
    /\ job = [w \in Workers |-> Free]

Lower(a, b) == IF a < b THEN a ELSE b

Accepting == acceptor = "accept"
------------------------------------------------------------------------------
(* Faults: plausible bugs, which the properties below must rule out. *)

(* The read timeout is the cap, whatever is left to the deadline. *)
ArmWithCap(j, left) == [j EXCEPT !.left = left, !.armed = ReadTimeout, !.sock = ReadTimeout]

(* A panic in the parser ends the worker's thread. *)
ParserPanicEndsWorker(w) ==
    /\ job[w].pc \in Reading
    /\ open' = open \ {job[w].conn}
    /\ job' = [job EXCEPT ![w] = [Free EXCEPT !.pc = "exited"]]
    /\ live' = live - 1
    /\ UNCHANGED <<stop, signalled, trig, main, acceptor, backlog, queue>>

(* A connection that is shed is not closed. *)
AcceptForgets ==
    /\ Accepting /\ ~stop /\ backlog # <<>>
    /\ backlog' = Tail(backlog)
    /\ queue' = IF Len(queue) < MaxQueued THEN Append(queue, Head(backlog)) ELSE queue
    /\ UNCHANGED <<server, open, job>>

(* The connection is kept although the server stops. *)
AnswerKeeps(w) ==
    /\ job[w].pc = "answer"
    /\ LET j == job[w]
           again == [Free EXCEPT !.pc = "line", !.conn = j.conn, !.left = IdleTimeout,
                                 !.armed = IdleTimeout, !.sock = IdleTimeout]
       IN job' = [job EXCEPT ![w] = IF j.keep THEN again ELSE [j EXCEPT !.pc = "close"]]
    /\ UNCHANGED <<server, backlog, queue, open>>

(* shutdown waits for the workers, however long they take. *)
GraceNeverEnds ==
    /\ main.pc = "waitlive" /\ main.left = 0 /\ live = 0
    /\ main' = [main EXCEPT !.pc = "returned"]
    /\ UNCHANGED <<stop, signalled, live, trig, acceptor, backlog, queue, open, job>>

------------------------------------------------------------------------------
(* arm_read_timeout: the next read may take what is left, up to the cap.    *)
Arm(j, left) ==
    LET t == Lower(left, ReadTimeout)
    IN [j EXCEPT !.left = left, !.armed = t, !.sock = t]

(* A client connects; the system completes the connection. *)
Connect(c) ==
    /\ c \notin open /\ Accepting
    /\ \A w \in Workers : job[w].conn # c
    /\ \A i \in DOMAIN queue : queue[i] # c
    /\ \A i \in DOMAIN backlog : backlog[i] # c
    /\ open' = open \cup {c}
    /\ backlog' = Append(backlog, c)
    /\ UNCHANGED <<server, queue, job>>

(* The accept loop: a connection goes to the queue, or is shed if that is   *)
(* full; whatever accept returns, a stopped server ends the loop, and with  *)
(* the listener the backlog is gone.                                        *)
Accept ==
    /\ Accepting /\ ~stop /\ backlog # <<>>
    /\ backlog' = Tail(backlog)
    /\ IF Len(queue) < MaxQueued
       THEN queue' = Append(queue, Head(backlog)) /\ UNCHANGED open
       ELSE open' = open \ {Head(backlog)} /\ UNCHANGED queue
    /\ UNCHANGED <<server, job>>

AcceptFails ==
    /\ Accepting /\ ~stop /\ backlog # <<>>
    /\ backlog' = Tail(backlog)
    /\ open' = open \ {Head(backlog)}
    /\ UNCHANGED <<server, queue, job>>

AcceptStops ==
    /\ Accepting /\ stop /\ backlog # <<>>
    /\ acceptor' = "gone"
    /\ backlog' = <<>>
    /\ open' = open \ ToSet(backlog)
    /\ UNCHANGED <<stop, signalled, live, trig, main, queue, job>>

(* A worker takes a connection; handle_connection sets its timeouts.        *)
Recv(w) ==
    /\ job[w].pc = "recv" /\ queue # <<>>
    /\ queue' = Tail(queue)
    /\ job' = [job EXCEPT ![w] =
                 Arm([Free EXCEPT !.pc = "line", !.conn = Head(queue)], RequestTimeout)]
    /\ UNCHANGED <<server, backlog, open>>

(* The queue is empty and its sender gone: the loop ends; LiveGuard.        *)
WorkerExits(w) ==
    /\ job[w].pc = "recv" /\ queue = <<>> /\ ~Accepting
    /\ job' = [job EXCEPT ![w] = [Free EXCEPT !.pc = "exited"]]
    /\ live' = live - 1
    /\ UNCHANGED <<stop, signalled, trig, main, acceptor, backlog, queue, open>>

(* read_line_limited: bytes, but no end of line. *)
PartOfLine(w) ==
    /\ job[w].pc \in {"line", "headers", "size"}
    /\ job[w].left > 0
    /\ job' = [job EXCEPT ![w] = Arm(@, job[w].left)]
    /\ UNCHANGED <<server, backlog, queue, open>>

(* read_request: the request line; the request's own budget starts. *)
RequestLine(w) ==
    /\ job[w].pc = "line"
    /\ job' = [job EXCEPT ![w] = Arm([@ EXCEPT !.pc = "headers", !.spent = 0], RequestTimeout)]
    /\ UNCHANGED <<server, backlog, queue, open>>

(* The empty line after the headers: no body, or one of n reads, or chunks. *)
Headers(w, keep, n) ==
    /\ job[w].pc = "headers"
    /\ LET j == [job[w] EXCEPT !.keep = keep, !.need = n]
       IN job' = [job EXCEPT ![w] =
                    IF n = 0 THEN [j EXCEPT !.pc = "handler"]
                    ELSE IF j.left = 0 THEN [j EXCEPT !.pc = "refuse"]
                    ELSE Arm([j EXCEPT !.pc = "data"], j.left)]
    /\ UNCHANGED <<server, backlog, queue, open>>

HeadersOfChunked(w, keep) ==
    /\ job[w].pc = "headers" /\ job[w].left > 0
    /\ job' = [job EXCEPT ![w] = Arm([@ EXCEPT !.keep = keep, !.pc = "size"], job[w].left)]
    /\ UNCHANGED <<server, backlog, queue, open>>

(* read_chunked: the size of a chunk; the last one has none and ends the    *)
(* body (its trailers are lines like these).                                *)
ChunkSize(w, n) ==
    /\ job[w].pc = "size"
    /\ job' = [job EXCEPT ![w] =
                 IF n = 0 THEN [@ EXCEPT !.pc = "handler"]
                 ELSE IF @.left = 0 THEN [@ EXCEPT !.pc = "refuse"]
                 ELSE Arm([@ EXCEPT !.pc = "data", !.need = n], job[w].left)]
    /\ UNCHANGED <<server, backlog, queue, open>>

(* read_exact_timed: it arms the timeout once, and each of the reads that   *)
(* fill the buffer may take as long.  The last of a chunk leads to the next *)
(* size line; a body of known length ends here.                             *)
BodyRead(w, chunked) ==
    /\ job[w].pc = "data"
    /\ LET j == job[w]
       IN job' = [job EXCEPT ![w] =
                    IF j.need > 1 THEN [j EXCEPT !.need = j.need - 1, !.sock = j.armed]
                    ELSE IF ~chunked THEN [j EXCEPT !.pc = "handler", !.need = 0]
                    ELSE IF j.left = 0 THEN [j EXCEPT !.pc = "refuse", !.need = 0]
                    ELSE Arm([j EXCEPT !.pc = "size", !.need = 0], j.left)]
    /\ UNCHANGED <<server, backlog, queue, open>>

(* The read is out of time: a started request is answered 408; a connection *)
(* that is idle, or in its request line, is closed without a word.          *)
ReadTimesOut(w) ==
    /\ job[w].pc \in Reading /\ job[w].sock = 0
    /\ job' = [job EXCEPT ![w].pc = IF @ = "line" THEN "close" ELSE "refuse"]
    /\ UNCHANGED <<server, backlog, queue, open>>

(* The peer hangs up, or the bytes are refused: 400, 413, 431, 501, 505. *)
PeerCloses(w) ==
    /\ job[w].pc \in Reading
    /\ job' = [job EXCEPT ![w].pc = "close"]
    /\ UNCHANGED <<server, backlog, queue, open>>

BadRequest(w) ==
    /\ job[w].pc \in Reading
    /\ job' = [job EXCEPT ![w].pc = "refuse"]
    /\ UNCHANGED <<server, backlog, queue, open>>

(* A panic outside the handler is caught around handle_connection: the      *)
(* connection is dropped, the worker goes on.                               *)
ParserPanics(w) ==
    /\ job[w].pc \in Reading
    /\ open' = open \ {job[w].conn}
    /\ job' = [job EXCEPT ![w] = Free]
    /\ UNCHANGED <<server, backlog, queue>>

(* The handler returns, or panics and is answered for with 500. *)
HandlerReturns(w) ==
    /\ job[w].pc = "handler"
    /\ job' = [job EXCEPT ![w].pc = "answer"]
    /\ UNCHANGED <<server, backlog, queue, open>>

(* write_response; the connection is kept if the client and the server do.  *)
Answer(w) ==
    /\ job[w].pc = "answer"
    /\ LET j == job[w]
           again == Arm([Free EXCEPT !.pc = "line", !.conn = j.conn], IdleTimeout)
       IN job' = [job EXCEPT ![w] = IF j.keep /\ ~stop THEN again
                                    ELSE [j EXCEPT !.pc = "close"]]
    /\ UNCHANGED <<server, backlog, queue, open>>

AnswerFails(w) ==
    /\ job[w].pc = "answer"
    /\ job' = [job EXCEPT ![w].pc = "close"]
    /\ UNCHANGED <<server, backlog, queue, open>>

(* handle_connection ends, after an error answer or without. *)
Close(w) ==
    /\ job[w].pc \in {"refuse", "close"}
    /\ open' = open \ {job[w].conn}
    /\ job' = [job EXCEPT ![w] = Free]
    /\ UNCHANGED <<server, backlog, queue>>
------------------------------------------------------------------------------
(* trigger, from the signal handler's thread (shutdown and drop call it     *)
(* again, to no effect): the flag, ...                                      *)
TriggerStop ==
    /\ trig = "idle"
    /\ stop' = TRUE
    /\ trig' = "wake"
    /\ UNCHANGED <<signalled, live, main, acceptor, backlog, queue, open, job>>

(* ... a connection of its own, to one of wake_addrs, ... *)
TriggerWake ==
    /\ trig = "wake"
    /\ trig' = "woken"
    /\ backlog' = IF Accepting THEN Append(backlog, Wake) ELSE backlog
    /\ UNCHANGED <<stop, signalled, live, main, acceptor, queue, open, job>>

TriggerWakeFails ==
    /\ trig = "wake"
    /\ trig' = "unwoken"
    /\ UNCHANGED <<stop, signalled, live, main, acceptor, backlog, queue, open, job>>

(* ... and the word to wait. *)
TriggerSignal ==
    /\ trig \in {"woken", "unwoken"} /\ ~signalled
    /\ signalled' = TRUE
    /\ UNCHANGED <<stop, live, trig, main, acceptor, backlog, queue, open, job>>

(* wait returns and main calls shutdown. *)
MainWakes ==
    /\ main.pc = "wait" /\ signalled
    /\ main' = [main EXCEPT !.pc = "waitlive"]
    /\ UNCHANGED <<stop, signalled, live, trig, acceptor, backlog, queue, open, job>>

(* shutdown: all workers have returned, or the grace is over. *)
AllWorkersLeft ==
    /\ main.pc = "waitlive" /\ live = 0
    /\ main' = [main EXCEPT !.pc = "returned"]
    /\ UNCHANGED <<stop, signalled, live, trig, acceptor, backlog, queue, open, job>>

GraceEnds ==
    /\ main.pc = "waitlive" /\ main.left = 0
    /\ main' = [main EXCEPT !.pc = "returned"]
    /\ UNCHANGED <<stop, signalled, live, trig, acceptor, backlog, queue, open, job>>

(* The clock goes on, unless a wait is over that has not returned yet.      *)
InTime(w) == job[w].pc \in Reading /\ job[w].sock > 0

Tick ==
    /\ \A w \in Workers : job[w].pc \in Reading => job[w].sock > 0
    /\ main.pc = "waitlive" => main.left > 0
    /\ main.pc = "waitlive" \/ \E w \in Workers : InTime(w)
    /\ main' = IF main.pc = "waitlive" THEN [main EXCEPT !.left = @ - 1] ELSE main
    /\ job' = [w \in Workers |->
                 IF ~InTime(w) THEN job[w]
                 ELSE [job[w] EXCEPT
                         !.sock = @ - 1,
                         !.left = IF @ > 0 THEN @ - 1 ELSE 0,
                         !.spent = IF job[w].pc = "line" THEN 0
                                   ELSE Lower(@ + 1, RequestTimeout + 1)]]
    /\ UNCHANGED <<stop, signalled, live, trig, acceptor, backlog, queue, open>>
------------------------------------------------------------------------------
FromClient(w) ==
    \/ PartOfLine(w) \/ RequestLine(w) \/ PeerCloses(w) \/ BadRequest(w)
    \/ \E keep \in BOOLEAN : HeadersOfChunked(w, keep)
    \/ \E keep \in BOOLEAN, n \in 0..MaxReads : Headers(w, keep, n)
    \/ \E n \in 0..MaxReads : ChunkSize(w, n)
    \/ \E chunked \in BOOLEAN : BodyRead(w, chunked)

OfWorker(w) ==
    \/ Recv(w) \/ WorkerExits(w) \/ ReadTimesOut(w)
    \/ Answer(w) \/ AnswerFails(w) \/ Close(w)

Acceptor == Accept \/ AcceptFails \/ AcceptStops
Trigger == TriggerWake \/ TriggerWakeFails \/ TriggerSignal
Main == MainWakes \/ AllWorkersLeft \/ GraceEnds

Next ==
    \/ \E c \in Conns : Connect(c)
    \/ \E w \in Workers : FromClient(w) \/ OfWorker(w) \/ ParserPanics(w) \/ HandlerReturns(w)
    \/ Acceptor \/ TriggerStop \/ Trigger \/ Main \/ Tick

Spec == Init /\ [][Next]_vars

(* Threads go on and time passes.  Nothing is assumed of the clients, of    *)
(* the handlers, or of the moment shutdown is triggered.                    *)
FairSpec ==
    /\ Spec
    /\ WF_vars(Acceptor) /\ WF_vars(Trigger) /\ WF_vars(Main) /\ WF_vars(Tick)
    /\ \A w \in Workers : WF_vars(OfWorker(w))
------------------------------------------------------------------------------
Times == 0 .. ReadTimeout
Jobs == [pc : PCs, conn : Conns \cup {NoConn}, left : Nat, armed : Times, sock : Times,
         need : 0..MaxReads, keep : BOOLEAN, spent : 0 .. RequestTimeout + 1]

TypeOK ==
    /\ stop \in BOOLEAN /\ signalled \in BOOLEAN
    /\ live \in 0..Cardinality(Workers)
    /\ trig \in {"idle", "wake", "woken", "unwoken"}
    /\ main \in [pc : {"wait", "waitlive", "returned"}, left : 0..Grace]
    /\ acceptor \in {"accept", "gone"}
    /\ backlog \in Seq(Conns \cup {Wake})
    /\ queue \in Seq(Conns) /\ Len(queue) <= MaxQueued
    /\ open \subseteq Conns
    /\ job \in [Workers -> Jobs]

(* Every open connection waits in the backlog or in the queue, or is served *)
(* by one worker, and only open ones do: none is shed, dropped by a panic   *)
(* or left by the acceptor and yet kept open, and none is served twice.     *)
ConnsHaveOnePlace ==
    \A c \in Conns :
        LET inBacklog == Cardinality({i \in DOMAIN backlog : backlog[i] = c})
            inQueue == Cardinality({i \in DOMAIN queue : queue[i] = c})
            served == Cardinality({w \in Workers : job[w].conn = c})
        IN inBacklog + inQueue + served = IF c \in open THEN 1 ELSE 0

(* The pool keeps its size, whatever the handlers and the parser do: a      *)
(* worker leaves only after the shutdown, and never before the connections  *)
(* that were accepted are served.  live counts the others.                  *)
PoolKeepsItsSize ==
    /\ live = Cardinality({w \in Workers : job[w].pc # "exited"})
    /\ \A w \in Workers :
          job[w].pc = "exited" => stop /\ ~Accepting /\ queue = <<>>

(* However a client spreads its bytes, the lines of a request (all but the  *)
(* data of its body) are read within request_timeout.                       *)
LinesWithinBudget ==
    \A w \in Workers :
        job[w].pc \in {"headers", "size"} => job[w].spent <= RequestTimeout

(* Once trigger has the acceptor woken, every worker leaves, but for one    *)
(* whose handler does not return: a kept connection, a slow client and a    *)
(* full queue only delay it.                                                *)
WorkersLeave ==
    trig = "woken" ~> \A w \in Workers : job[w].pc \in {"exited", "handler"}

(* shutdown returns, also if a handler never does or the acceptor was not   *)
(* woken.                                                                   *)
ShutdownReturns == stop ~> main.pc = "returned"
------------------------------------------------------------------------------
(* What Config::request_timeout says: the budget for request line, headers  *)
(* and body is absolute.  read_exact_timed only limits each of its reads.   *)
RequestBudgetIsAbsolute ==
    \A w \in Workers : job[w].pc \in Reading => job[w].spent <= RequestTimeout
==============================================================================

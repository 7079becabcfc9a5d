------------------------------ MODULE Framing ------------------------------
(***************************************************************************)
(* How http.rs finds the requests in the bytes of one connection, and how   *)
(* it delimits its answers: read_request, read_body, read_chunked and       *)
(* read_line_limited over a BufReader that gets the bytes in segments of    *)
(* any length, and write_response.                                          *)
(*                                                                          *)
(* A byte is a symbol: "LF", "CR", or one that stands for the whole content *)
(* of a line: "get" is a request line, "len2" a Content-Length of 2, and    *)
(* "size2" a chunk size.  A body is made of the same symbols, so that what  *)
(* it holds may look like a request.  Limits count symbols.  How long a     *)
(* read may take is in module HttpServer: here a client just stops sending. *)
(***************************************************************************)
EXTENDS Integers, Sequences, FiniteSets, SequencesExt

CONSTANTS MaxHeader,     \* Config::max_header_bytes
          MaxBody,       \* Config::max_body_bytes
          MaxChunkLine,  \* MAX_CHUNK_LINE
          Symbols,       \* bytes that end no line, by what they say
          Scripts,       \* the sequences of messages a client may send
          Responses      \* what a handler may return: status, fields, body

ASSUME FramingAssumption == {MaxHeader, MaxBody, MaxChunkLine} \subseteq Nat

VARIABLES
    script,  \* what the client sends on this connection
    sent,    \* how many of its bytes it sends before it stops
    wire,    \* bytes that have not arrived
    buf,     \* the BufReader's buffer
    p,       \* the parser: where it is, and what it has
    got,     \* requests given to the handler
    out,     \* bytes written
    stopping \* Inner::stop

framingVars == <<script, sent, wire, buf, p, got, out, stopping>>

NoRequest == [line |-> "", fields |-> <<>>, body |-> <<>>]

(* line: the line so far.  used: bytes of the header block.  need: bytes of *)
(* the body, or of the chunk, still to read.                                *)
Fresh == [pc |-> "line", line |-> <<>>, used |-> 0, need |-> 0,
          req |-> NoRequest, status |-> 0]

InLine == {"line", "headers", "size", "trailer"}
InData == {"body", "chunk", "crlf"}

Lengths == [len0 |-> 0, len1 |-> 1, len2 |-> 2, len9 |-> 9]
Sizes == [size0 |-> 0, size1 |-> 1, size2 |-> 2, size9 |-> 9]
Lines == {"get", "head", "get10"}
Fields == {"te", "gzip", "close", "keep", "expect", "other"} \cup DOMAIN Lengths
CRLF == <<"CR", "LF">>
Octets == Symbols \cup {"CR", "LF"}

ASSUME SymbolsAssumption == Symbols \cap {"CR", "LF"} = {} /\ DOMAIN Sizes \subseteq Symbols

Least(a, b) == IF a < b THEN a ELSE b
Has(fields, f) == \E i \in DOMAIN fields : fields[i] = f
(* Headers::get: the first of the fields that have one name. *)
First(fields, named) ==
    LET at == {i \in DOMAIN fields : fields[i] \in named}
    IN IF at = {} THEN "none" ELSE fields[Min(at)]
Connection(fields) == First(fields, {"close", "keep"})
Coding(fields) == First(fields, {"te", "gzip"})
LengthsOf(fields) == {f \in DOMAIN Lengths : Has(fields, f)}
------------------------------------------------------------------------------
(* Faults: plausible bugs, which the properties below must rule out. *)

(* Only what the last read brought is counted against the limit. *)
OverOfLastRead(q, take) ==
    IF q.pc = "size" THEN take > MaxChunkLine ELSE q.used + take > MaxHeader

(* A body follows whatever the status and the method. *)
ResponseWithBody(res, headOnly, keep) ==
    <<[status |-> res.status, keep |-> keep, len |-> Len(res.body)]>>
        \o [i \in DOMAIN res.body |-> [status |-> 0, keep |-> FALSE, len |-> 0]]
------------------------------------------------------------------------------
(* trim_eol: one LF and one CR before it. *)
TrimEol(line) ==
    LET l == IF line # <<>> /\ Last(line) = "LF" THEN Front(line) ELSE line
    IN IF l # <<>> /\ Last(l) = "CR" THEN Front(l) ELSE l

(* read_line_limited: would take more bytes be too many for this line? *)
Over(q, take) ==
    IF q.pc = "size" THEN Len(q.line) + take > MaxChunkLine
    ELSE q.used + Len(q.line) + take > MaxHeader

Refuse(q, status) == [q EXCEPT !.pc = "closed", !.status = status]

(* The Connection header, or the default of the version. *)
KeepAlive(req) ==
    LET conn == Connection(req.fields)
    IN IF conn = "none" THEN req.line # "get10" ELSE conn = "keep"

(* read_body: by the framing headers; an empty body needs no read. *)
Body(q) ==
    LET coding == Coding(q.req.fields)
        lens == LengthsOf(q.req.fields)
        n == Lengths[CHOOSE f \in lens : TRUE]
    IN IF coding # "none" /\ lens # {} THEN Refuse(q, 400)
       ELSE IF coding = "te" THEN [q EXCEPT !.pc = "size"]
       ELSE IF coding # "none" THEN Refuse(q, 501)
       ELSE IF lens = {} THEN [q EXCEPT !.pc = "handler"]
       ELSE IF Cardinality(lens) > 1 THEN Refuse(q, 400)
       ELSE IF n > MaxBody THEN Refuse(q, 413)
       ELSE [q EXCEPT !.pc = IF n = 0 THEN "handler" ELSE "body", !.need = n]

OnRequestLine(q, text) ==
    IF text = <<>> THEN q
    ELSE IF text = <<"v2">> THEN Refuse(q, 505)
    ELSE IF Len(text) = 1 /\ text[1] \in Lines
      THEN [q EXCEPT !.pc = "headers", !.req.line = text[1]]
    ELSE Refuse(q, 400)

OnHeader(q, text) ==
    IF text = <<>> THEN Body(q)
    ELSE IF Len(text) = 1 /\ text[1] \in Fields
      THEN [q EXCEPT !.req.fields = Append(@, text[1])]
    ELSE Refuse(q, 400)

OnChunkSize(q, text) ==
    IF Len(text) # 1 \/ text[1] \notin DOMAIN Sizes THEN Refuse(q, 400)
    ELSE LET n == Sizes[text[1]]
         IN IF n = 0 THEN [q EXCEPT !.pc = "trailer"]
            ELSE IF Len(q.req.body) + n > MaxBody THEN Refuse(q, 413)
            ELSE [q EXCEPT !.pc = "chunk", !.need = n]

OnTrailer(q, text) == IF text = <<>> THEN [q EXCEPT !.pc = "handler"] ELSE q

(* What a whole line does, by where the parser is. *)
Line(q, line) ==
    LET counted == IF q.pc = "size" THEN q.used ELSE q.used + Len(line)
        read(r, text) == CASE q.pc = "line" -> OnRequestLine(r, text)
                           [] q.pc = "headers" -> OnHeader(r, text)
                           [] q.pc = "size" -> OnChunkSize(r, text)
                           [] q.pc = "trailer" -> OnTrailer(r, text)
    IN read([q EXCEPT !.line = <<>>, !.used = counted], TrimEol(line))

(* write_response: the head, and the body unless the status or the method   *)
(* forbids it; the length is the server's own.                              *)
Response(res, headOnly, keep) ==
    LET bodyless == res.status \in (100..199) \cup {204, 304}
        head == [status |-> res.status, keep |-> keep,
                 len |-> IF bodyless THEN 0 ELSE Len(res.body)]
        data == [i \in DOMAIN res.body |-> [status |-> 0, keep |-> FALSE, len |-> 0]]
    IN <<head>> \o IF bodyless \/ headOnly THEN <<>> ELSE data

ErrorText(status) == [status |-> status, body |-> <<"x">>]

Continue == [status |-> 100, keep |-> TRUE, len |-> 0]

(* An error is answered before the connection is closed, unless it is silent. *)
Spoken(q) == IF q.pc = "closed" /\ q.status # 0
             THEN Response(ErrorText(q.status), FALSE, FALSE) ELSE <<>>
Outcome(q) == p' = q /\ out' = out \o Spoken(q)
------------------------------------------------------------------------------
(* What the client sends: the bytes of a message, with some empty lines     *)
(* before it.                                                               *)
Lined(m, texts) == [i \in DOMAIN texts |-> texts[i] \o m.eol]

HeadTexts(m) ==
    [i \in 1..m.blanks |-> <<>>] \o <<m.line>>
        \o [i \in DOMAIN m.fields |-> <<m.fields[i]>>] \o << <<>> >>
TrailerTexts(m) == [i \in DOMAIN m.trailers |-> <<m.trailers[i]>>] \o << <<>> >>
HeadLines(m) == Lined(m, HeadTexts(m))
TrailerLines(m) == Lined(m, TrailerTexts(m))

SizeLine(m, n) == <<CHOOSE s \in DOMAIN Sizes : Sizes[s] = n>> \o m.eol
ChunksOf(m) ==
    [i \in DOMAIN m.chunks |-> SizeLine(m, Len(m.chunks[i])) \o m.chunks[i] \o m.after]

BodyBytes(m) ==
    IF Coding(m.fields) = "te"
    THEN FlattenSeq(ChunksOf(m)) \o SizeLine(m, 0) \o FlattenSeq(TrailerLines(m))
    ELSE FlattenSeq(m.chunks)
Bytes(m) == FlattenSeq(HeadLines(m)) \o BodyBytes(m)

(* A message that a client may send: lines are of symbols that end none,    *)
(* and a length, where it counts, is that of the body.                      *)
Messages ==
    [line : Seq(Symbols) \ {<<>>}, fields : Seq(Symbols), chunks : Seq(Seq(Octets)),
     trailers : Seq(Symbols), eol : {<<"LF">>, CRLF}, after : Seq(Octets), blanks : Nat]
SaysItsSize(m) ==
    LET lens == LengthsOf(m.fields)
        size == Len(FlattenSeq(m.chunks))
        declared == IF lens = {} THEN {0} ELSE {Lengths[f] : f \in lens}
    IN /\ Len(m.after) = 2
       /\ Coding(m.fields) = "te" => \A i \in DOMAIN m.chunks : Len(m.chunks[i]) \in {1, 2, 9}
       /\ Coding(m.fields) = "none" /\ Cardinality(lens) < 2 => declared = {size}

ASSUME ScriptsAssumption ==
    \A s \in Scripts : s \in Seq(Messages) /\ \A i \in DOMAIN s : SaysItsSize(s[i])

(* No handler answers 100: the server does.                                 *)
ASSUME ResponsesAssumption ==
    \A r \in Responses : r.status \in Nat \ {100} /\ r.body \in Seq(STRING)

BytesOfAll(messages) == [i \in DOMAIN messages |-> Bytes(messages[i])]

FramingInit ==
    /\ script \in Scripts
    /\ LET bytes == FlattenSeq(BytesOfAll(script))
       IN sent \in 0..Len(bytes) /\ wire = SubSeq(bytes, 1, sent)
    /\ buf = <<>> /\ p = Fresh /\ got = <<>> /\ out = <<>> /\ stopping = FALSE

(* fill_buf: a read returns any part of what has arrived. *)
Fill ==
    /\ p.pc \in InLine \cup InData /\ buf = <<>>
    /\ \E n \in 1..Len(wire) :
          buf' = SubSeq(wire, 1, n) /\ wire' = SubSeq(wire, n + 1, Len(wire))
    /\ UNCHANGED <<script, sent, p, got, out, stopping>>

(* read_line_limited: the buffer is part of a line, or ends it. *)
LinePart ==
    /\ p.pc \in InLine /\ buf # <<>> /\ ~Contains(buf, "LF")
    /\ Outcome(IF Over(p, Len(buf)) THEN Refuse(p, 431)
               ELSE [p EXCEPT !.line = @ \o buf])
    /\ buf' = <<>>
    /\ UNCHANGED <<script, sent, wire, got, stopping>>

LineEnd ==
    LET ended(line, take, q) ==
            IF Over(p, take) THEN Outcome(Refuse(p, 431))
            ELSE IF TrimEol(line) = <<>> /\ p.pc = "headers" /\ Has(p.req.fields, "expect")
              THEN p' = q /\ out' = Append(out, Continue) \o Spoken(q)
            ELSE Outcome(q)
        read(line, take) == ended(line, take, Line(p, line))
        taken(take) == /\ buf' = SubSeq(buf, take + 1, Len(buf))
                       /\ read(p.line \o SubSeq(buf, 1, take), take)
    IN
    /\ p.pc \in InLine /\ Contains(buf, "LF")
    /\ taken(Min({i \in DOMAIN buf : buf[i] = "LF"}))
    /\ UNCHANGED <<script, sent, wire, got, stopping>>

(* read_exact: of a body, of a chunk, ... *)
Data ==
    /\ p.pc \in {"body", "chunk"} /\ buf # <<>>
    /\ LET n == Least(p.need, Len(buf))
           full == IF p.pc = "body" THEN "handler" ELSE "crlf"
       IN /\ buf' = SubSeq(buf, n + 1, Len(buf))
          /\ p' = [p EXCEPT !.req.body = @ \o SubSeq(buf, 1, n),
                            !.pc = IF p.need = n THEN full ELSE @,
                            !.need = IF p.need = n /\ p.pc = "chunk" THEN 2 ELSE @ - n]
    /\ UNCHANGED <<script, sent, wire, got, out, stopping>>

(* ... and of the two bytes that follow a chunk. *)
AfterChunk ==
    /\ p.pc = "crlf" /\ buf # <<>>
    /\ LET n == Least(p.need, Len(buf))
           two == p.line \o SubSeq(buf, 1, n)
       IN /\ buf' = SubSeq(buf, n + 1, Len(buf))
          /\ Outcome(IF n < p.need THEN [p EXCEPT !.need = @ - n, !.line = two]
                     ELSE IF two = CRLF THEN [p EXCEPT !.pc = "size", !.need = 0, !.line = <<>>]
                     ELSE Refuse(p, 400))
    /\ UNCHANGED <<script, sent, wire, got, stopping>>

(* The client hangs up, or says nothing for too long: 408 if the request    *)
(* has begun.                                                               *)
NoMoreBytes(timeout) ==
    /\ p.pc \in InLine \cup InData /\ buf = <<>> /\ wire = <<>>
    /\ Outcome(Refuse(p, IF timeout /\ p.pc # "line" THEN 408 ELSE 0))
    /\ UNCHANGED <<script, sent, wire, buf, got, stopping>>

(* The handler answers, or panics; the connection is kept if both agree.    *)
Serve(res) ==
    /\ p.pc = "handler"
    /\ LET keep == KeepAlive(p.req) /\ ~stopping
       IN /\ got' = Append(got, p.req)
          /\ out' = out \o Response(res, p.req.line = "head", keep)
          /\ p' = IF keep THEN Fresh ELSE Refuse(p, 0)
    /\ UNCHANGED <<script, sent, wire, buf, stopping>>

Stop ==
    /\ ~stopping /\ p.pc # "closed"
    /\ stopping' = TRUE
    /\ UNCHANGED <<script, sent, wire, buf, p, got, out>>

Panic == ErrorText(500)

FramingNext ==
    \/ Fill \/ LinePart \/ LineEnd \/ Data \/ AfterChunk \/ Stop
    \/ \E timeout \in BOOLEAN : NoMoreBytes(timeout)
    \/ \E res \in Responses \cup {Panic} : Serve(res)

FramingSpec == FramingInit /\ [][FramingNext]_framingVars
------------------------------------------------------------------------------
(* The reference: what a message means, whatever way its bytes arrive.  A   *)
(* fault is the status that it is refused with, 0 if it is not; the first   *)
(* counts.                                                                  *)
HeadLen(m, i) == Len(FlattenSeq(SubSeq(HeadLines(m), 1, i)))

HeadFault(m, i) ==
    LET text == HeadTexts(m)[i]
    IN IF HeadLen(m, i) > MaxHeader THEN 431
       ELSE IF i = m.blanks + 1
         THEN IF text = <<"v2">> THEN 505
              ELSE IF Len(text) = 1 /\ text[1] \in Lines THEN 0 ELSE 400
       ELSE IF text = <<>> \/ text[1] \in Fields THEN 0 ELSE 400

BodyFault(m) ==
    LET coding == Coding(m.fields)
        lens == LengthsOf(m.fields)
        size == Len(FlattenSeq(m.chunks))
        head == Len(FlattenSeq(HeadLines(m)))
    IN IF (coding # "none" /\ lens # {}) \/ Cardinality(lens) > 1 THEN 400
       ELSE IF coding = "none" THEN IF size > MaxBody THEN 413 ELSE 0
       ELSE IF coding # "te" THEN 501
       ELSE IF Len(SizeLine(m, 0)) > MaxChunkLine THEN 431
       ELSE IF m.chunks # <<>> /\ Len(m.chunks[1]) > MaxBody THEN 413
       ELSE IF m.chunks # <<>> /\ m.after # CRLF THEN 400
       ELSE IF size > MaxBody THEN 413
       ELSE IF head + Len(FlattenSeq(TrailerLines(m))) > MaxHeader THEN 431
       ELSE 0

Verdict(m) ==
    LET bad == {i \in DOMAIN HeadTexts(m) : HeadFault(m, i) # 0}
    IN IF bad = {} THEN BodyFault(m) ELSE HeadFault(m, Min(bad))

Meaning(m) == [line |-> m.line[1], fields |-> m.fields, body |-> FlattenSeq(m.chunks)]

BytesUpTo(n) == Len(FlattenSeq(SubSeq(BytesOfAll(script), 1, n)))

(* The messages that are to be served: whole, well formed, and none before  *)
(* them that ends the connection.                                           *)
Served(n) ==
    /\ BytesUpTo(n) <= sent
    /\ \A i \in 1..n : Verdict(script[i]) = 0
    /\ \A i \in 1..(n - 1) : KeepAlive(Meaning(script[i]))

Expected ==
    LET upTo(k) == [i \in 1..k |-> Meaning(script[i])]
    IN upTo(Max({n \in 0..Len(script) : Served(n)}))

(* How a client makes answers of the bytes it gets, given the lines of its  *)
(* requests: it knows what has no body, trusts the length else, and reads   *)
(* no further than an answer that says the connection is to be closed.      *)
NothingRead == [answers |-> <<>>, body |-> 0, open |-> TRUE]

ReadByte(r, byte, lines) ==
    LET n == Len(r.answers) + 1
        bodyless == (n <= Len(lines) /\ lines[n] = "head") \/ byte.status \in {204, 304}
    IN IF r.body > 0 THEN [r EXCEPT !.body = @ - 1]
       ELSE IF ~r.open \/ byte.status = 100 THEN r
       ELSE [answers |-> Append(r.answers, byte.status), open |-> byte.keep,
             body |-> IF bodyless THEN 0 ELSE byte.len]

Reading(bytes, lines) ==
    LET read[n \in 0..Len(bytes)] ==
            IF n = 0 THEN NothingRead ELSE ReadByte(read[n - 1], bytes[n], lines)
    IN read[Len(bytes)]

(* http.rs:840, :1170 - a handler is never given a request the client did   *)
(* not send: one split out of a body, glued from two, or of a message that  *)
(* is to be refused.  And the outcome depends on the bytes, not on how they *)
(* came in: when the connection ends, every message to be served was, and   *)
(* the first that was not, if all its bytes were sent, got its own status.  *)
RequestsAreAsSent ==
    /\ IsPrefix(got, Expected)
    /\ p.pc = "closed" /\ ~stopping =>
          /\ got = Expected
          /\ LET k == Len(got) + 1
                 refused == /\ k <= Len(script) /\ BytesUpTo(k) <= sent
                            /\ \A i \in 1..(k - 1) : KeepAlive(Meaning(script[i]))
             IN refused => p.status = Verdict(script[k])

(* http.rs:1256 - the client finds as many answers in the bytes as requests *)
(* were served, each an answer and not a piece of a body, although some     *)
(* have no body, or one that must not be sent.                              *)
AnswersLineUp ==
    LET read == Reading(out, [i \in DOMAIN script |-> script[i].line[1]])
        refused == IF p.pc = "closed" /\ p.status # 0 THEN 1 ELSE 0
    IN /\ Len(read.answers) = Len(got) + refused /\ read.body = 0
       /\ \A i \in DOMAIN read.answers :
             read.answers[i] \in {r.status : r \in Responses} \cup
                                    {400, 408, 413, 431, 500, 501, 505}
==============================================================================

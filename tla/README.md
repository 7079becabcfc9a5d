# Verification of the fan-food-web backend

TLA+ specifications of the Rust backend in `src/backend/src`, model-checked with
TLC and, for the modules named below, proved with TLAPS. Every definition is
translated from the source; `PROJECT.json` (`map`) gives the lines.

Contents: 1 inventory · 2 modules and their correspondence to the code · 3 runs ·
4 fairness · 5 proofs · 6 disagreements · 7 not modelled · 8 plan · 9 how to run

## 1. Inventory

The program is one process without an async runtime. `main.rs` opens the
database pool, starts the Stripe worker threads and three cleanup threads, and
runs a blocking HTTP server: an accept loop feeds accepted connections into a
bounded queue, a fixed set of worker threads takes them out and runs one route
handler at a time. Handlers share

- the **connection pool** (`db.rs`), through `Pool::with` (one statement at a
  time, autocommit) and `Pool::transaction` (BEGIN IMMEDIATE … COMMIT);
- three **in-memory stores** (`stores.rs`), each a map behind one mutex: CSRF
  tokens, failed sign-ins, request times per address; the cleanup threads
  (CSRF hourly, lockout and rate limit every 15 minutes, webhook rows hourly)
  call the same stores and the database;
- the **Stripe workers** (`stripe_worker.rs`, `stripe.rs`), through a bounded
  channel with a reply channel per call.

Stripe itself calls back in through the webhook route. On SIGTERM the server
stops first (workers get 10 s), then `Pool::close_all` runs.

| component | state | operations | what makes it correct | modelled in |
|---|---|---|---|---|
| connection pool | idle list, closed flag, condition variable, open transactions | with, transaction, checkout, close_all, the Drops of Checkout and TxGuard | a connection has one holder, none is lost, none is shelved inside a transaction, no sleeper is forgotten, shutdown drains | `LeasePool`, `ConnPool` |
| Stripe webhook | subscription columns of Users, WebhookEvents | payment, process_webhook, apply_sub_patch, prune | the record follows the effect, replays do nothing, every event is handled in the end | `Webhook` |
| usage quota | usage_count, usage_reset_at | usage, consume_usage, reset_usage_window | nobody gets more than the limit; a unit is charged for what was granted, or for a COMMIT that nobody heard of | `Usage` |
| CSRF and session cookies | CsrfStore, the two cookies of each browser | require_csrf, csrf_retry, signin, signup, signout, cleanup | a dead token opens nothing; a client with a stale token recovers | `Session` |
| lockout and rate limit | LockoutStore, RateLimitStore | is_locked, record_failure, clear, check_and_record, cleanup, eviction | bounded guessing, bounded memory, a lock cannot be flushed out | `Signin` |
| Stripe workers and breaker | job channel, reply channels, deadlines, circuit state | enqueue, wait, worker_loop, run_job, send_with_retry | an answer reaches the call it belongs to; everybody is answered; the queue does not clog | `StripeWorker` |
| fan-food ordering and catalogue | Venues, MenuItems, VenueSections, Orders | place_order, the reads, create and update of each table | an order names what belonged together and was on sale; an update is lost by overlap only; a venue is refused under its own slug by overlap only | `Catalog` |
| HTTP server | backlog, bounded queue, workers and their `live` count, deadlines, stop flag | accept, shed, serve, keep-alive, trigger, shutdown | a connection has one place; the pool keeps its size; a request is read in time; shutdown ends | `HttpServer` |
| request parser and answers | one connection's buffer, budgets, keep-alive | read_request, read_body, read_chunked, write_response | requests are cut where the client cut them, whatever the segments; each answer lines up with its request | `Framing` |
| remote database sessions | stream, baton, transaction; the schema and the seed | execute, transaction, open_remote_with_retry, ensure_schema_remote, seed_if_empty | whole or nothing over lost and late statements; what is unique is written once; processes that start together all get up | `AtomicData`, `Remote` |
| accounts and password hashes | Users, Auths | signup, signin, verify, migration of hashes | the owner's password stays the account's; whoever is answered owns the account | `Accounts` |
| JSON, SHA-256 | parser position, partial block | parse, stringify; update, finalize | the grammar's reading; independence of the cuts | `JsonText`, `Digest` |
| HMAC, PBKDF2, scrypt | the lanes' working buffers | hmac_sha256, pbkdf2_hmac_sha256, scrypt | the RFCs' keys, whatever the lengths and parameters | `Kdf` |
| hex, base64, escapes, cookies, query, targets, client_ip | none | encode, decode, look up | what is sent is read; a client chooses neither its address nor a path above the root | `Codec` |
| session tokens, Stripe signatures | none | jwt_sign, jwt_verify, verify_signature | what is accepted, its signer wrote | `Signed` |
| eviction, dates | a bounded heap; none | evict_oldest_entries; http_date | the oldest go; the date is the second's | `Eviction`, `Calendar` |
| validation, configuration, response headers, browser client | none that changes | pure functions, views | – | not modelled |

Behaviours that are hard to test here: threads that run between an unlock and
the notification that follows it; a row or an in-memory record read in one call
and acted upon in a later one; webhook deliveries that are duplicated, reordered,
retried, cut off by a crash; callers that time out and call again while their
first job is still being worked on; stores at their limit; restarts that empty
the stores while cookies live on; two administrators who edit one row; a client
that sends a byte at a time, or two requests in one segment; a statement whose
answer is lost, or that is executed after its sender gave up; servers of two builds
that migrate the same hashes. `PROJECT.json` lists each at the line where it
bites (`hazards`) with the properties that watch it.

## 2. Modules

Common conventions. One action is what no other thread can interrupt: a critical
section of a mutex, one SQL statement or transaction, one Stripe call. `pc` (or
a job's `pc` field) is the place between two of them; a handler's local variables
that live across such a point are variables of the module. Definitions marked
*history* in a module's VARIABLES are read by properties only, never by guards.
Each module has a section *Faults*: operators that state plausible bugs of the
actions below them. No specification uses them; they are what the properties are
tested against (substituting the fault for the definition must break the
property; `PROJECT.json` pairs them under `mutants`).

**LeasePool** – what the pool promises: each connection is free, leased to one
thread, or gone; a transaction is inside one lease; after shutdown nothing is
leased and what comes back is closed.

**ConnPool** – `idle`, `closed` are `PoolState`; `conn[t]` is the `Checkout` guard
of thread t; `txn` the connections inside BEGIN…COMMIT. `CheckoutTake`,
`CheckoutWait`, `CheckoutClosed` are one turn of the loop in `Pool::checkout`;
`Return` is the critical section of Checkout's Drop and `NotifyOne` the
notification *after* the unlock; `Close`/`NotifyAll` split `close_all` the same
way. A closure may return, fail or panic (`WithEnds`, `BodyFails`); COMMIT may
fail with or without the transaction being gone (`CommitFails`). Wake-ups may be
spurious. `lessee` maps the state to LeasePool's.

**Webhook** – Stripe is the environment: one subscription whose versions 1, 2, …
each emit an event, delivered any number of times, in any order, to several
workers at once. `sub` is the version the Users row holds; `overtaken` is *history*: another
handler wrote after this one got its answer from Stripe. The steps of a handler (`stage`)
are the calls of `payment` in order: look up the event, (retrieve the
subscription,) resolve the email, find the user, update, insert the event row,
answer. Every call may fail, the answer may be lost, the process may crash; these
are counted by `faults`. `Prune` is the retention of 30 days, which Stripe's
retries (about three days) do not outlast: its guard asks that Stripe is done with
the event.

**Usage** – one user's row (`count`, `resetAt`) and the workers in `usage`: read the
row, decide on what was read, then either `reset_usage_window` or `consume_usage`, each
one transaction (`Transact`). `limit` and whether the database is `remote` are chosen
once; whether the user subscribes may be different at each reading. On a remote database
the answer to COMMIT may be lost (`AnswerLost`), or the call is given up on and its COMMIT
stays with the server (`late`), which executes it later or lets the stream expire; the
process may crash before or after a COMMIT. `granted` and `unheard` are *history*: the units
charged to requests that were told so, and to those that were not.

**Session** – one user's CSRF entry, the cookies of that user's browsers, and the
requests under way. The store look-up and the later `csrf_retry` are separate
steps. Tokens are numbers, a fresh one being any that is nowhere in use; an
entry's timestamp is an age. Restart empties the store and cuts requests off.

**Signin** – both stores of `stores.rs` as functions with a domain, the clock, and
the workers between rate limit, `is_locked`, scrypt and `record_failure` or
`clear`. Eviction is specified (`Evictions`): what is left are the entries of
largest rank, ties open; `LockoutRanks` and `RateRanks` are the two stores' keys of age.
The Vec of times of an address is a set: a request is its time and its number among those
of that time (`Stamp`), and `Within` is `retain`. Only the first time and the length of
the Vec are ever used, and both are those of the set.

**StripeWorker** – the channel (`queue`), the call each caller waits for
(`asked`; the number of a job stands for its reply channel), deadlines that have
passed (`late`), the workers through breaker, attempts, `record_success` or
`record_failure` and reply, and the circuit. A worker may die of a panic.

**Catalog** – the rows of the four tables with the columns an order depends on, and
one request per worker. Each SELECT, INSERT and UPDATE of `place_order`, the reads,
the three creates and the three updates is an action; what a handler read earlier
stays in its `req` entry until it writes. An update writes every column, the ones
the body omits from the row read before (`Merge`). A slug is a sequence of words; one that
is taken gets the head of the new id (`Heads`), which other ids may share and a body may have
asked for. What a request saw is compared with the catalogue as it stands unless another
request wrote after its first SELECT (`dirty`, *history*).

**HttpServer** – `backlog` (the kernel's), `queue` (the bounded channel), `job[w]` (what
each worker does with its connection), `live`, `stop`, and the acceptor, the shutdown
trigger and the main thread. Time is in ticks: `left` and `spent` are what remains of
and went into the budget of a request, `sock` is the socket's own timeout as armed
last. A parser that panics is caught (`ParserPanics`); a handler may never return.

**Framing** – the bytes of one connection, in segments of any length, through
`read_line_limited`, the header and body limits, Content-Length, chunks and trailers,
keep-alive, and `write_response`. A byte is a symbol (`Octets`: the two of a line end, and
`Symbols`, which stand for what a line says); a body may look like a request. The client's
side is beside it: `Messages` is what a client may send, with empty lines before a request
(`blanks`) and either line end, `Bytes` how it writes a message, `Meaning` and `Verdict` what
the message means and what the limits and the rules of HTTP make of it, and `Reading` what a
client makes of the bytes that come back.

**JsonText** – the recursive-descent parser (`Value`, `Items`, `Members`, `Char`, `Unit`,
`Numeral`) and `Stringify` with `FormatNumber`, and beside them `Denoted`, what a text means by the
grammar, found by cutting the text in every way, and `Kept`, what writing keeps of a value. A
number is its sign, digits and decimal point; beyond `MaxPoint`, which stands for f64's range, it
is infinite or zero (`Float`, for `str::parse`). **Digest** – a hasher and what it was `fed`: `Update` and
`Finalize` over a partial block, and `Padded`, the padding of FIPS 180-4.

**Kdf** – what is built on the hash: `Hmac`, `Pbkdf2`, `Salsa`, `BlockMix`, `RoMix` with its
working buffer (`v` keeps what the lane before left in it), and `Scrypt` with its refusals.
The compression function (`Chain`) and, for the modules above it, Salsa (`Core`) are
parameters: any function will do, since what can go wrong here is what is hashed in
which order and which word goes where. Salsa itself is compared with its definition
by rows and columns. Each has a reference beside it (`HmacRef` … `ScryptRef`), written from RFC
2104, 8018 and 7914.

**Codec** – hex, base64, percent-encoding, `Cookie`, `QueryParam`, `ParseTarget`, `ClientIp`
and Stripe's form encoding, over byte codes, with references that describe the result
by sets of positions rather than by scanning. **Signed** – `JwtSign`, `JwtVerify`, and
`WebhookVerify` (`construct_event`'s check) over texts in which a signature is a
value that names the secret and the message. **Eviction** – the heap of
`evict_oldest_entries`, against what Signin takes eviction to be. **Calendar** – `http_date`
and `civil_from_days`, against the count of days before a date.

**Wire** composes Framing and these for one run. A behaviour is one of three: a
connection, a hasher that is fed a piece at a time, or a text that is typed a symbol
at a time from a seed (`Seeds`) that says who reads it; the seed of kind `hash` gives the
turn to the hasher.

**Remote** – each process's session (`run`, the statement it is `at`, its baton), the
server's streams, the statements given up on and not yet executed (`late`), and the
rows. `NextBaton` is what the client keeps after an answer, `Follows` the next
statement, `Recovers` the errors that start-up takes for success. A statement is
heard of, lost, executed unheard, or executed late. **AtomicData** is what this is to
amount to: rows that appear in one step per table, seed or account, and an account that is
acknowledged, if it is, by the step in which it appears. Remote refines it under the
identity: its `data` and `acked` are AtomicData's, the sessions and streams are hidden.

**Accounts** – `auths` and `users` per email, one request per worker, `build[w]` the cost a
worker's server hashes at. `Verifies` and `NeedsRehash` are `verify_password` and
`needs_rehash`; `Deploy` replaces a server. `Start` says which passwords share their first
72 bytes, all that bcrypt reads.

**MC…** modules only fix symmetry sets and constant definitions; **…Proofs**
modules hold theorems and proofs.

How the modules are composed. Wire extends Framing, JsonText, Digest,
Kdf, Codec, Signed, Eviction and Calendar; ConnPool implements LeasePool,
and Remote AtomicData. Signin takes of
Eviction what `OldestAreEvicted` says, Session and Webhook of Signed that a cookie or an
event that is accepted is the signer's, Accounts of Kdf that a key is a function of the
password. The others rest on what a neighbour establishes: Webhook, Usage,
Session and Accounts treat a transaction as atomic, which is what ConnPool
establishes within a process (a transaction belongs to one thread), SQLite for one
statement, and Remote's `WholeOrNothing` for the remote database. Webhook's and
checkout's Stripe calls may time out, which is what StripeWorker's `CallerIsAnswered`
gives. HttpServer takes from Framing that a request ends with a line, the headers,
or its data; the limits on guessing that Accounts leaves out are Signin's.

## 3. Runs

| run | instance | states | what it shows |
|---|---|---|---|
| ConnPool | 2 connections, 4 threads | 28 thousand | `ExclusiveLease`, `TransactionsEndBeforeReturn`, `NoLostWakeup`, refinement of LeasePool, and `CloseDrains`. Four threads: two holding, one about to notify or to barge in, one asleep – the smallest case in which a notification can be stolen twice. |
| Webhook | 2 handlers, 2 events, 2 faults, every kind of event | 829 thousand | `RecordFollowsEffect`, `ReplayIsSkipped`, `EventuallyHandled`, and `SetBackOnlyByRace`: the row goes back to an older state of the subscription only by a snapshot event or by an overtaken write, never by retrieving events that do not overlap, in whatever order. Two events are needed for reordering, two handlers for concurrent duplicates, two faults for a failed call followed by a crash or a lost answer. Deadlock is off: Stripe may have nothing left to send. |
| Usage | 3 requests, limits 0 and 2, window 1, time 0..2, a local or a remote database, 2 COMMITs nobody is told of | 1.22 million | `CountIsSound` (within the limit, and covered by what was granted or charged unheard), `OverlapNeededToErase`. Three requests: two that reset and one granted in between; time sees a window open, end and open anew; of two untold COMMITs one may be late while the other is lost. |
| Session | 2 browsers, 2 workers, entries that expire at once | 1.58 million | `DeadTokenIsRefused`, `BrowserKeepsInStep`. Eight tokens always leave a fresh one (assumption of the module), so the bound cuts nothing off. |
| Signin | 3 pairs over 2 addresses, 2 workers, thresholds 2, stores of 2 and 1 entries, time 0..3 | 1.23 million | `StoresAreBounded`, `GuessesAreBounded`, `RateIsLimited`, `LocksOutliveJunk`. Stores are smaller than the key sets, so that eviction happens; a rate window of two ticks slides; time lets a lock and a window expire and begin anew. |
| StripeWorker | 2 callers, 2 workers, queue of 1, 1 retry, breaker at 2 | 692 thousand | `JobsHaveOnePlace`, `OnlyLateJobsAreLeft`: a caller that timed out and calls again is not answered by the result of its earlier job, and nobody waits for a job that died with its worker. `CallerIsAnswered` with nothing assumed of the workers, `QueueMoves` if attempts end. Two calls per caller can be under way in the workers and the queue at once. |
| Catalog | 2 workers, 3 venues, 2 slugs of which one is the other with its suffix, 1 head, 2 items of one price, 2 sections, 1 order, 2 prices, 2 catalogue writes beside 1 order or read | 1.27 million | `OrdersFitTheirVenue`: venue, item and section of an order belong together; codes within a venue and slugs stay unique. `QuietAnswersAreCurrent`: a request that no write overtook answers from the catalogue as it stands. `LostOnlyByOverlap`: columns are lost only when two requests overlap. `RefusedOnlyByOverlap`: a venue gets a suffix only if its slug is another's, and is refused under its own slug only when two requests overlap; with the suffix it may be refused at any time, and with three venues it is. Two writes suffice for one to come between another's read and write, or between two steps of an order. |
| HttpServer | 2 connections, 2 workers, queue of 1, read timeout 2, request 1, idle 2, grace 1 | 279 thousand | `ConnsHaveOnePlace`, `PoolKeepsItsSize`, `LinesWithinBudget`, `WorkersLeave`, `ShutdownReturns`, with slow, silent and pipelining clients, sheds, panics and handlers that hang. The backlog, the queue and a worker each hold a connection at once; the request timeout is shorter than the read timeout, so the two limits can be told apart. Deadlock is off: a server that has returned stops. |
| Remote | 2 processes, one creates an account, 2 streams, 1 statement under way late; a new database, or one whose table lacks a column | 182 thousand | `WholeOrNothing`, `SessionsRestClean`, `EveryoneStarts` (once faults cease), and refinement of AtomicData, which says that the seed and each account come once and that what was acknowledged is kept (as theorems also `AckedIsKept` and `RowsAreWrittenOnce`). Two processes run every statement of start-up against each other; one late statement suffices to reach a transaction whose session has gone on. |
| Wire | scripts of two messages (7 good kinds, 15 bad); header limit 10, body limit 3; JSON texts up to 8 symbols over six alphabets (13 for an object with a key twice), depth 2; numerals up to 6 symbols, finite up to 3 digits before or zeros behind the point; texts of 4 to 8 symbols for each codec, over the characters its code tells apart; tokens and signature headers of up to 12; maps of up to 7 entries and 4 ages; some 480 days around leap years, centuries and year ends; 14 bytes hashed in blocks of 5; scrypt with N up to 4, r and p up to 2, bytes of 4 bits | 1.35 million | `RequestsAreAsSent`, `AnswersLineUp` over every segmentation and every cut-off. `TextsAreReadAndWritten`: what `Parse` accepts and returns is what the grammar says, and what `Stringify` writes is read back, but that an infinite number becomes null and zero loses its sign, and a second trip changes no more; likewise each codec, cookie, parameter and target; a token or an event is accepted only for what its signer wrote, in time; the heap evicts the oldest; dates are right; and derived keys are the standards': keys below, at and beyond the block for HMAC, one and several digests for PBKDF2, one and two lanes and blocks for scrypt, and each of its refusals. `DigestIsStandard`: a message hashed in any cuts (lengths through two blocks, so that the padding's two cases occur at every fill). Some messages and texts pass a limit by one. Deadlock is off: a closed connection stays closed. |
| Accounts | 2 emails, 2 ids, 3 passwords of which 2 begin alike, 2 workers, builds of 2 costs | 2.39 million | `PasswordStaysTheOwners`, `AnsweredOwnTheirAccount`, with bcrypt and old scrypt rows there from the start, failing statements, and servers that are replaced between any two steps. |
| WebhookClaim | as Webhook | – | refutes a comment, see section 6. |

Each module with a state of its own but the byte-level ones (Framing, Wire) has one type
invariant, `TypeOK` (`WebhookTypeOK`, `CatalogTypeOK`, `RemoteTypeOK`), and for each it is a
theorem. Framing's types are part of `FramingInv`, Digest's of `DigestInv`.

Bounds on time (`MaxTime`), on versions (`MaxVer`), on faults (`MaxFaults`), and in the
newer modules on catalogue writes and readers (`MaxWrites`, `MaxReaders`, `MaxPatch`),
on the reads that fill a chunk (`MaxReads`), on late statements (`MaxLate`), on COMMITs nobody is told of (`MaxUntold`), on the bytes
hashed (`MaxFed`) and the texts typed (`Seeds`) are the only guards that the code does
not have; each is a CONSTANT of its module.
`NumTokens` and `NumCalls` name finite pools of values and cut nothing off. In
ConnPool and StripeWorker nothing is bounded but the sets. In StripeWorker
`failures` stops at the threshold, beyond which the code does not tell values
apart.

## 4. Fairness

- ConnPool: weak fairness of each thread that is inside the pool and of
  `NotifyAll`. Closures and statements end because SQLite's busy timeout and the
  transport's timeout bound them. None for calling, closing or spurious wake-ups.
- Webhook: weak fairness of a handler's successful steps, since every call has a
  timeout, and of Stripe's redelivery of an event not answered 200. Failures are
  not fair, and bounded. No fairness for Prune, sign-up, changes at Stripe.
- StripeWorker: only the passage of time for a caller that waits (its deadline,
  then `recv_timeout`). `QueueMoves` assumes in addition, and says so, that a
  worker's attempts end (libcurl's own timeout).
- HttpServer: weak fairness of the acceptor, the trigger, the main thread, the clock
  and each worker's own steps. Nothing of clients, of handlers, or of when
  shutdown is asked for. A read that is out of time fails before the clock goes on:
  that is what SO_RCVTIMEO does.
- Remote: weak fairness of starting and of statements being answered, of late
  statements and of idle streams expiring (the server's timers). `EveryoneStarts` is
  about behaviours that become `calm`: nothing more is lost, crashes, or expires
  under way.
- Session has a `FairSpec` for the statement of section 6 that it does not meet:
  workers go on, and a browser keeps trying to sign out.

Usage, Signin, Catalog, Wire and Accounts state no liveness.

## 5. Proofs

TLAPS proves the following for all values of the constants that satisfy the
module's ASSUME (`ConnPoolAssumption`: non-empty finite set of connections,
finite set of threads, the two markers distinct from them and from each other;
`WebhookAssumption`, `UsageAssumption`: the bounds are numbers; and so on, one per
module).

*ConnRemoteProofs*, the pool – `ConnPoolTypeCorrect`, `LeasesAreExclusive`, `NoTransactionIsPooled`,
`WakeupsAreNotLost`, `PoolImplementsLeases`. The inductive invariant is the
conjunction of the type invariant, the lease invariant and the transaction
invariant: exclusivity alone is not inductive, since `Return` shelves `conn[t]`
without looking at `txn`, and only the place of the thread says that no transaction
is open. The wake-up invariant is inductive relative to these: `Return` adds one to
the idle list and one to the notifiers, `CheckoutTake` takes one from the idle list
and one from those about to look, `NotifyOne` turns a notifier into one about to
look; the counting uses the library's facts about cardinalities. The
refinement theorem shows that each step is a step of LeasePool or a stutter.

Remote sessions – `RemoteTypeCorrect`, `TransactionsAreWhole`, `AcknowledgedAccountsAreKept`,
`RowsStayUnique`, `SessionsStayClean`, `RemoteImplementsAtomicData`, for any numbers of
processes, accounts, streams and late statements (assumption: the markers are distinct from
the processes and streams). `WholeOrNothing` says nothing of a transaction under way, so `RemoteInv`
adds: `TransactionsInv` (at most one stream is in a transaction, the others have nothing
pending, and what is pending is not in the database); `OneHolder` (a stream is named by one
session or by one message that was given up on, never by two); `SessionInv` (a session
holds a baton exactly within a transaction); and for every message, of a session or late,
`Formed` (what the client sends with which baton) and `Agrees` (the stream that it names has expired, or has
pending exactly what the statements before this one wrote, `Fits`). The last is the heart: a
statement that arrives late meets either the state that it was sent for or a stream that is
gone, because its sender dropped the baton and nobody else has it. `CommitsOwn` ties a COMMIT to the
account of its process, and with it an acknowledgement to the row. For the refinement, a
COMMIT that executes, late or not, is `Seed` or `CreateAccount`; `data` changes by no other
statement of a transaction; a failed or unheard step is a stutter.

*StripeProofs*, the webhook – `WebhookTypeCorrect`, `EffectComesFirst`, `ReplaysAreSkipped`,
`RowGoesBackOnlyByRace`, from one invariant (`WebhookInv`): types, record follows effect, "a worker
flagged as a replay has a recorded event" (needed because `ReplayIsSkipped` says
nothing of `recorded`; the retention keeps it), and `FreshInv`: neither the row nor what a
worker is going to write is newer than Stripe's state, and a retrieved state, from its
retrieval to its write, is as new as the row or overtaken. The last is what carries
the action property: retrieving reads Stripe's state of that moment, so it starts true, and only
another worker's write, which marks the others overtaken, can raise the row.

The workers – `TypeCorrect`, `JobsAreNotShared`, `LateResultsGoNowhere`
(assumption: finite sets of callers and workers, and more reply channels than places
in the queue and workers). The invariant is the conjunction of the type invariant,
`JobsHaveOnePlace`, `OnlyLateJobsAreLeft` and `OwnJobs` (a caller waits for a job of
its own). That a new call finds an unused channel is a counting argument
(`NewJobIsFresh`, by the pigeonhole principle): this is what makes `NumCalls` a bound
that cuts nothing off. `TailElements` and `AppendElements` say what taking from and
putting into a queue of distinct jobs does to its set of elements.

*UsageCatalogProofs*, the quota – `UsageTypeCorrect`, `CountStaysWithinLimit`, `ChargesAreGrants`, and from
these two `CountStaysSound`; `OnlyOverlapErases`, on a local or a remote database, with any number of
lost answers, late COMMITs and crashes. The invariant is the type invariant, the two bounds and
`DecisionsHold`: a transaction, a worker's or the late one, that resets saw a window that is
over *now*, which time preserves, and charges only under a limit of at least 1. The action property needs
the first half, `CountWithinLimit` the second. `ChargesAreGrants` counts the unheard units
apart: without a lost answer, a late COMMIT or a crash there are none, and the count is at most what
was granted.

The catalogue – `CatalogTypeCorrect`, `OrdersKeepTheirVenue`, `QuietAnswersStayCurrent`,
`ColumnsAreLostOnlyByOverlap`, `VenuesAreRefusedOnlyByOverlap`, for any numbers of requests,
rows, writes and readers. The invariant `CatalogInv` is the conjunction of the type
invariant; `Distinct` (the UNIQUE keys); `OrdersFit`; and for each request
`OnCourse` (which request can be at which statement, with what body), `Located` (the rows
that it read are there and belong together: nothing is deleted, the columns in
`Fixed` are written by no update, and a slug with a suffix was found taken without it), `Current` (until another request writes, what it read is
what the tables hold) and `QuietAnswer`. `OrdersFit` is not inductive without `Located`, as
an INSERT into Orders checks nothing; nor `QuietAnswer` without `Current`, which is what a
step of another request ends by setting `dirty`. `RowsStay` says what every step does to rows
that are there, and carries `Located` and `OrdersFit` across all writes at once. The two
action properties follow from `Current`: at an UPDATE, or at an INSERT that is refused,
either the request is dirty or the row read and the slug looked up are as they were (a
slug that got its suffix was not looked up, and nothing is claimed of it).

*HttpServerProofs* – `TypeCorrect`, `ConnectionsAreKept`, `WorkersAreKept`,
`LinesAreInTime` (assumption: finite sets of connections and workers, positive
timeouts). The invariant is the conjunction of the type invariant; `StopsFirst` (the
listener is closed, and the wake-up connection in the backlog, only when stopped),
which says why a worker that finds the queue empty may leave; `PoolKeepsItsSize`;
`JobsFit` (a free worker holds no connection; while lines are read, what is spent and
what is left make no more than the request timeout, and the socket is armed with no
more than what is left), without which the timing property is not inductive; and
`ConnsHaveOnePlace`. That property counts places in sequences, so the proof rests on
`CountOfAppend`, `CountOfTail` and `ServedAfter`, which say what a step does to the
count.

*AccountsProofs* – `TypeCorrect`, `PasswordsAreKept`, `AnsweredAreOwners` (assumption: the
builds' costs are within the limit that `verify_password` checks; `hash_password`
does not check it). The invariant is the conjunction of the type invariant;
`RowsMatch` and `IdsDiffer` (a user and its auth name one id, two emails two);
`HashesFit` (a stored hash is of a password that its account may take, which bcrypt
widens to those that begin alike); `JobsFit` (a request past the look-up carries a
password that passed against the row, and a hash that is of that password), which
outlives the steps of other servers because hashes change within the passwords that
pass; and `ToldFits`.

*SessionProofs* – `TypeCorrect`, `DeadTokensAreRefused`, `BrowsersKeepInStep`
(assumption: finite sets of browsers and workers, and more tokens than can be in use
at once). The invariant is the conjunction of the type invariant; `DeadStaysDead` (a
request whose token was dead when it was sent is not let through, and what its header
says is not the token that the store has by now), without which a new token could
revive it; `GiftsAreCurrent` (an answer under way carries the store's token) and
`StepIsComing` (a browser is in step or its answer is under way), which say why a browser
at rest is in step. All rest on `FreshTokenIsFresh`: the store, the cookies, the headers and
the answers hold fewer tokens than there are, counted with `ImageIsSmall` and
`UnionIsSmall`. So the number of tokens is a bound that cuts nothing off.

*SigninProofs* – `TypeCorrect`, `StoresStayBounded`, `GuessesStayBounded`, `LocksAreNotFlushed`,
`RatesStayLimited` (assumption: a finite, non-empty set of workers, positive limits and times). The
invariant is `StoresHaveType`, `StoresAreBounded` and `GuessesFit`: the failures in a record and
the workers past `is_locked` that may still add one make no more than the threshold and
the other workers, and a record without a lock is below the threshold. The sum is what
is inductive: `is_locked` lets a worker in only when the record is below, and
`record_failure` turns a worker into a failure. `EvictionIsPart` says what eviction leaves, and
`OutrankedByLocks` that a lock in force ranks above every other entry; the action property
follows from these. `RateIsLimited` is about the history of an address and not about its window,
so `RateInv` adds that the two agree on what is recent (`Recent`; an address without a window
has nothing recent), which eviction keeps because it takes the history along, and `cleanup` because
it drops only what is over: it never evicts, as the store is within its limit on the way in
(`CleanRateKeepsRate`). Counting needs that a request is not one of those counted before it
(`StampIsNew`, from `Numbered`), and that `retain` of a later time leaves less (`WithinIs`).

*WireProofs*, the connection – `FramingIsInvariant`, `RequestsSent`, `AnswersInLine`, for any
limits, any scripts, any segments, any point at which the client stops and any answers. The
assumptions say what a byte and a client are. `SymbolsAssumption`: no symbol ends a line, and a chunk
size has one. `ScriptsAssumption`: a message is lines of symbols, and where its
Content-Length counts it is that of its body (`SaysItsSize`), since a client that lies about it
does not say where its message ends; all else may be wrong: the version, the request line, the
fields, two lengths, a coding beside a length, what follows a chunk, any size.
`ResponsesAssumption`: no handler answers 100, which is the server's own.

`RequestsAreAsSent` compares what was served with what was sent, and says nothing of the bytes
between: it is not inductive. `FramingInv` says where the connection is. Some k messages were
served, and either the parser is in message k + 1, or it waits behind the last one, or the
connection has ended. Where it is in a message is `Parsing`, one case for each place of
the parser (`InHead`, `InBody`, `InSize`, `InChunk`, `InCrlf`, `InTrailer`, `Ready`, `Refused`), and each case
says: these lines were read and are in the request, this part of a line or of the data
is kept, and kept part, buffer, wire and unsent bytes, one after the other, are the rest of
the message and the messages behind it. A read only moves bytes from the wire to the buffer, so
the equation stays; a line end moves the place by one (`SubSeq` of the buffer up to its
first LF is the rest of the line, because a line has only one); each of the parser's
refusals is the first fault of the reference. TLC had found `FramingInv` to hold on an
instance of 699 thousand states before it was proved.

`AnswersLineUp` reads the whole output from its beginning, at every step. `OutInv` says that
the client that has read it is at the end of an answer, has as many as were served and
refused, and still reads if the connection is open; reading on over one answer (`HasRead`) then
gives one more, whatever its body, because the client knows the method of the request
that it answers: here `FramingInv` is needed.

The hasher – `DigestIsRight`, for any size of block, any message and any pieces (assumption:
a block holds more than the length). `DigestInv` says that the blocks compressed, put one after the other,
and what counts of the buffer are the message so far. `TopUpFits` and `AbsorbFits` are the two
halves of `update`; between them the buffer is empty or the data is used up, and that is
why the second may overwrite the buffer. `ZerosAreRight` shows that the padding which
`finalize` computes from the buffer alone is the least that fills a block, which is how the
standard puts it for the message.

The dates – `EveryDayIsRight`, `EverySecondIsRight`, for every day and second from 1970 on; the run
looks at some 480 days. The code counts 400-year eras from 1 March: `YearIs` says that the
quotients it divides by give a year of the era and a day of that year, and the 366th day only
to a leap year (`YearArithmetic`, from the bounds of the quotients alone); `MonthIs` the same of
months; `DaysBeforeIn` adds up the days of the date and has the day again.

The connection and the hasher rest on facts about recursive functions: `FlattenSeq` puts sequences one after the other, `Reading` reads
bytes one by one. They are proved by induction. The library's induction
theorems take a predicate and cannot be used; the module has induction over *sets* of numbers
instead (`NatInd`, `IndUpTo`), from the fact that a set of numbers has a least element
(`LeastNumber`), which the library states of well-founded relations. `SumsExist` shows that the
recursive function exists at all, and `FlatAppend`, `FlatCons` and `FlatSplits` are the equations that
the proofs use.

The invariants are checked by TLC on the runs' instances before they are proved, and every
invariant and action property of the passing runs but one is a theorem
(of that one, the part about dates is: `EverySecondIsRight`).
Model-checked only:

- the liveness properties (`CloseDrains`, `EventuallyHandled`, `CallerIsAnswered`, `QueueMoves`,
  `WorkersLeave`, `ShutdownReturns`, `EveryoneStarts`): fairness and ENABLED are out of the
  prover's reach;
- `TextsAreReadAndWritten` of Wire: JSON's `Stringify` and `Denoted` and the heap's sifts are `RECURSIVE`
  operators, for which tlapm has no SMT, and Kdf uses bitwise operations.

## 6. Disagreements

Statements in comments that are not what the code does, as met while modelling.
The first has a run that expects the violation. For each of the others the module
states the comment as a definition; add its name to the run's .cfg (as INVARIANT, or as
PROPERTY where so marked) and TLC prints the scenario.

- **WebhookClaim** (`RecordNeverClaimsTooMuch`) – `routes.rs:1043`: "the record can never
  claim an event was handled when it was not". `apply_sub_patch` turns a database error
  into `false`, nobody looks at it, and the event is recorded and answered 200.
- `ApplyingTwiceIsSafe` (Webhook, PROPERTY) – `routes.rs:1049`: applying an event twice
  "is safe here". The first of two handlings that overlap writes the state that it had read
  from Stripe over the newer one that the second wrote; a subscription event writes its
  own snapshot, and applied again after a newer one it brings the old subscription back.
  `SetBackOnlyByRace` says that it takes one of the two.
- `GrantsAreNotErased` (Usage) – `routes.rs:737`, `db.rs:1486`: reset and first
  increment together are to keep a concurrent increment from being erased. The reset
  has no condition on the row; two requests that saw the elapsed window both reset it,
  and what was granted between them is no longer counted.
- `SignOutSucceeds` (Session, PROPERTY, under `FairSpec`, with one worker) –
  `routes.rs:564`: "A refusal still hands back a usable token". A missing or mismatched
  header gets a plain 403; the csrf cookie lives 24 hours, the session cookie 30 days.
- `ExpiredWorkIsDropped` (StripeWorker, PROPERTY) – `stripe_worker.rs:8`: workers drop expired work
  "instead of still hitting Stripe". The deadline is looked at once; retries go on.
- `OmittedFieldsStay` (Catalog, PROPERTY) – `fanfood.rs:767`: fields omitted from an
  update stay as stored. They are written back as read before; what another
  administrator wrote in between is undone.
- `FailedIsRolledBack` (Remote, PROPERTY) – `db.rs:774`: "rolled back if `f` returns an error,
  if the commit fails". When the answer to COMMIT is lost, the caller gets an error, and the
  account exists. `NothingIsChargedInVain` (Usage) is the same of the quota: the unit is charged,
  and the request answered 500; a crash after COMMIT does it on a local database too.
- `RequestBudgetIsAbsolute` (HttpServer) – `http.rs:440`: the budget for request line,
  headers and body "is absolute". For lines it is (`LinesWithinBudget`, proved); `read_exact_timed`
  arms the socket with the whole read timeout for each read of the data.
- `OwnersStayIn` (Accounts) – `validation.rs:104`: passwords keep bcrypt's limit "so
  existing accounts keep working unchanged". The limit counts UTF-16 units, not bytes,
  and a signin is not limited: another password
  that begins like the owner's passes against a bcrypt hash, is re-hashed whole, and
  the owner's own password no longer passes. `PasswordStaysTheOwners` is the strongest
  statement that holds.

Observations without a definition. The suffix that makes a slug unique is the first 6 characters of
the new id (`fanfood.rs:730`) and is not looked up itself, so a second name can be refused with 500 and
nothing beside it; `RefusedOnlyByOverlap` says when. `format_number`'s branch for exponents
(`json.rs:527`) is never taken, since Rust's Display of an f64 prints all digits: 1e21 is written
as 22 digits, not as the comment's "1e+21"; it is read back as the same number. `Request::cookie` (`http.rs:120-130`) uses `?` on a
cookie pair without "=", which hides the cookies after it. Codec models it as it is: `Cookie` and
its reference end the scan there.

## 7. Not modelled, and why

- The compression function of SHA-256 and bcrypt: rounds over tables of constants, without
  state, tested with published vectors. In Accounts a derived key is one value per
  password and cost. Constant-time comparison is equality here: what sets it apart is
  its time.
- UTF-8 beyond single bytes that stand for no character, validation of fields, the
  text of response headers, static files, configuration: conversions of text with no
  state that changes.
- `me_get`, `me_put` (one read, one write of a name) and the guards of checkout and portal
  before their Stripe calls: no state is shared with another step.
- In JsonText the precision of an f64: a number has all the digits of its numeral, and Display's
  shortest text that reads back the same is taken to do so. Literals are one symbol.
- Accounts takes keys for free of collisions. HMAC pads a short key with zeros, so that a password
  and the same one with a NUL behind it give one key; that is HMAC's definition, which Kdf has.
- Usage restarts with the limit it had: another FREE_USAGE_LIMIT at a restart is left out.
- Start-up gives up after 180 s (`state.rs:16`) and leaves the process to a supervisor.
  `EveryoneStarts` counts what the supervisor does then as one more retry.
- SQLite's C layer: a statement is one atomic step, as it promises.
- The browser client: it appears in Session as the holder of cookies.
- The circuit breaker has no property of its own: its steps are in StripeWorker
  because they decide whether an attempt is made, but the code promises nothing
  about the order of two operations' outcomes.

## 8. Plan

Done, in this order: LeasePool and ConnPool with proofs, Webhook with proofs, Usage
with proofs, Session, Signin, StripeWorker with proofs, Catalog, HttpServer, Remote,
Framing, JsonText and Digest in Wire, Accounts; proofs for Accounts, HttpServer, Session
and Signin; Kdf, Codec, Signed, Eviction and Calendar in Wire; AtomicData, and proofs for
Catalog, Remote and Signin's rate limit; Framing's reference in terms of messages, and proofs
for Framing, Digest and Calendar; COMMITs nobody hears of in Usage, suffixes that clash in Catalog,
numbers in JsonText.

Left: the server's shutdown composed with the pool's `close_all`, in the order of
`main.rs`: handlers that outlive the grace period meet a closed pool.

## 9. How to run

In this directory: `tlc -workers 2 -config MCConnPool.cfg MCConnPool` and likewise
for every pair listed under `runs`; `tlapm ConnRemoteProofs.tla` and likewise for
the other seven proof modules. The longest run takes about three minutes.

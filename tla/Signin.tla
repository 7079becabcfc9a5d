------------------------------- MODULE Signin --------------------------------
(***************************************************************************)
(* The two limits on guessing passwords: the LockoutStore and the           *)
(* RateLimitStore of stores.rs, as signin and signup of routes.rs and the   *)
(* cleanup thread use them.                                                 *)
(*                                                                          *)
(* A call on a store holds its mutex and is one action.  The clock is read  *)
(* just before; a tick is minutes long, so the call and the reading are at  *)
(* one time.  Between is_locked and record_failure the handler looks up the *)
(* account and runs scrypt, and other requests come in between.             *)
(*                                                                          *)
(* A window, the Vec of the times of an address, is a set here: a request   *)
(* is its time and its number among those of that time.  Times are pushed   *)
(* in order, and only the first of them is ever asked for.                  *)
(***************************************************************************)
EXTENDS Integers, FiniteSets

CONSTANTS Keys,         \* the pairs (email, address) of LockoutStore
          Addresses,
          AddressOf,    \* the address of a pair
          Workers,      \* HTTP workers
          Threshold,    \* LOCKOUT_THRESHOLD
          LockTime,     \* LOCKOUT_DURATION_MS, in ticks
          AttemptTime,  \* LOCKOUT_ATTEMPT_WINDOW_MS, in ticks
          MaxRecords,   \* LOCKOUT_MAX_ENTRIES
          RateLimit,    \* AUTH_RATE_LIMIT
          RateTime,     \* AUTH_RATE_WINDOW_MS, in ticks
          MaxWindows,   \* AUTH_RATE_MAX_ENTRIES
          MaxTime       \* bound: ticks of the clock

ASSUME SigninAssumption ==
    /\ AddressOf \in [Keys -> Addresses]
    /\ IsFiniteSet(Workers) /\ Workers # {}
    /\ Threshold \in Nat \ {0} /\ RateLimit \in Nat \ {0}
    /\ LockTime \in Nat \ {0} /\ AttemptTime \in Nat \ {0} /\ RateTime \in Nat \ {0}
    /\ MaxRecords \in Nat \ {0} /\ MaxWindows \in Nat \ {0}
    /\ MaxTime \in Nat

VARIABLES
    now,      \* the clock
    lockout,  \* LockoutStore: the record of each pair it has one for
    rate,     \* RateLimitStore: the window of each address it has one for
    pc, key,  \* per worker: where it is, and the pair it signs in
    janitor,  \* the lockout-cleanup thread: the store it cleans next
    log       \* history: per address, the requests admitted

vars == <<now, lockout, rate, pc, key, janitor, log>>

Times == 0..MaxTime
NotLocked == -1
PCs == {"idle", "is_locked", "verify", "record_failure", "clear"}

Init ==
    /\ now = 0
    /\ lockout = <<>>
    /\ rate = <<>>
    /\ pc = [w \in Workers |-> "idle"]
    /\ \E k \in Keys : key = [w \in Workers |-> k]  \* any pair will do
    /\ janitor = "lockout"
    /\ log = [a \in Addresses |-> {}]

Goto(w, label) == pc' = [pc EXCEPT ![w] = label]

Locked(r) == r.until # NotLocked
Live(k) == k \in DOMAIN lockout /\ now < lockout[k].until

Keep(store, kept) == [x \in kept |-> store[x]]
Put(store, x, value) == [y \in DOMAIN store \cup {x} |-> IF y = x THEN value ELSE store[y]]

Within(window, t) == {s \in window : s[1] > t - RateTime}
First(window) ==
    CHOOSE t \in {s[1] : s \in window} : \A s \in window : t <= s[1]

(* The request of this moment, in a window. *)
Stamp(window) == <<now, Cardinality({s \in window : s[1] = now})>>
------------------------------------------------------------------------------
(* Faults: plausible bugs, which the properties below must rule out. *)

(* Eviction goes by the last attempt alone. *)
RanksByAttempt(store) == [k \in DOMAIN store |-> store[k].last]

(* The lock is looked up, and an expired one is left where it is. *)
IsLockedKeepsExpired(w) ==
    /\ pc[w] = "is_locked"
    /\ Goto(w, IF Live(key[w]) THEN "idle" ELSE "verify")
    /\ UNCHANGED <<now, lockout, rate, key, janitor, log>>

(* A new record is inserted with no room made for it. *)
NoRoomMade(store, x) == {store}

(* The cleanup judges a window by its first request, not by its last. *)
CleanRateByFirst ==
    /\ janitor = "rate"
    /\ rate' = Keep(rate, {a \in DOMAIN rate : First(rate[a]) > now - RateTime})
    /\ janitor' = "lockout"
    /\ UNCHANGED <<now, lockout, pc, key, log>>

------------------------------------------------------------------------------
(* LockoutStore::evict ranks a record by the end of its lock, or by its     *)
(* last attempt; RateLimitStore ranks a window by its first request.        *)
LockoutRanks(store) ==
    [k \in DOMAIN store |-> IF Locked(store[k]) THEN store[k].until ELSE store[k].last]

RateRanks(store) ==
    [a \in DOMAIN store |-> IF store[a] = {} THEN 0 ELSE First(store[a])]

(* evict_oldest_entries: what may be left of a store, given by the ranks of *)
(* its entries, when it is brought down to a size; which of two entries of  *)
(* one rank goes is open.                                                   *)
Evictions(ranks, size) ==
    {kept \in SUBSET DOMAIN ranks :
        /\ Cardinality(kept) = IF Cardinality(DOMAIN ranks) > size
                               THEN size ELSE Cardinality(DOMAIN ranks)
        /\ \A x \in kept, y \in DOMAIN ranks \ kept : ranks[y] <= ranks[x]}

Tick ==
    /\ now < MaxTime
    /\ now' = now + 1
    /\ UNCHANGED <<lockout, rate, pc, key, janitor, log>>

(* RateLimitStore::check_and_record makes room for a new address. *)
RoomForAddress(a) ==
    IF a \in DOMAIN rate \/ Cardinality(DOMAIN rate) < MaxWindows THEN {rate}
    ELSE {Keep(rate, kept) : kept \in Evictions(RateRanks(rate), MaxWindows - 1)}

(* enforce_auth_rate_limit on a request from address a: refused, or its     *)
(* time is recorded.  An evicted window takes its history along.            *)
Admit(a, admitted) ==
    \E room \in RoomForAddress(a) :
        LET times == Within(IF a \in DOMAIN room THEN room[a] ELSE {}, now)
            new == IF admitted THEN {Stamp(times)} ELSE {}
        IN /\ admitted <=> Cardinality(times) < RateLimit
           /\ rate' = Put(room, a, times \cup new)
           /\ log' = [b \in Addresses |->
                        IF b \in DOMAIN rate \ DOMAIN room THEN {}
                        ELSE IF b = a /\ admitted THEN Within(log[b], now) \cup new
                        ELSE log[b]]

(* signin or signup is refused by the rate limit. *)
Refuse(w, k) ==
    /\ pc[w] = "idle"
    /\ Admit(AddressOf[k], FALSE)
    /\ UNCHANGED <<now, lockout, pc, key, janitor>>

(* signin passes the rate limit, with a body that parses. *)
Arrive(w, k) ==
    /\ pc[w] = "idle"
    /\ Admit(AddressOf[k], TRUE)
    /\ Goto(w, "is_locked")
    /\ key' = [key EXCEPT ![w] = k]
    /\ UNCHANGED <<now, lockout, janitor>>

(* signup passes the rate limit, or signin with a malformed body. *)
PassBy(a) ==
    /\ Admit(a, TRUE)
    /\ UNCHANGED <<now, lockout, pc, key, janitor>>

(* LockoutStore::is_locked: a live lock is a 429, an expired one is removed. *)
IsLocked(w) ==
    LET k == key[w] IN
    /\ pc[w] = "is_locked"
    /\ IF Live(k)
       THEN Goto(w, "idle") /\ UNCHANGED lockout
       ELSE /\ Goto(w, "verify")
            /\ lockout' = IF k \in DOMAIN lockout /\ Locked(lockout[k])
                          THEN Keep(lockout, DOMAIN lockout \ {k}) ELSE lockout
    /\ UNCHANGED <<now, rate, key, janitor, log>>

(* find_auth and verify_password: the password is right; or it is wrong or  *)
(* there is no such account; or the database fails, here or in find_user.   *)
Verify(w) ==
    /\ pc[w] = "verify"
    /\ \E label \in {"clear", "record_failure", "idle"} : Goto(w, label)
    /\ UNCHANGED <<now, lockout, rate, key, janitor, log>>

(* LockoutStore::make_room, for a pair that has no record. *)
MakeRoom(store, k) ==
    IF k \in DOMAIN store \/ Cardinality(DOMAIN store) < MaxRecords THEN {store}
    ELSE {Keep(store, kept) : kept \in Evictions(LockoutRanks(store), MaxRecords - 1)}

(* The record of a pair after one more failure: a stale streak starts anew, *)
(* and a streak that reaches the threshold locks, or extends the lock.      *)
Failed(k) ==
    LET fresh == k \notin DOMAIN lockout \/ now - lockout[k].last > AttemptTime
        n == IF fresh THEN 1 ELSE lockout[k].attempts + 1
    IN [attempts |-> n,
        until |-> IF n >= Threshold THEN now + LockTime
                  ELSE IF fresh THEN NotLocked ELSE lockout[k].until,
        last |-> now]

(* LockoutStore::record_failure, and the 401. *)
RecordFailure(w) ==
    /\ pc[w] = "record_failure"
    /\ \E room \in MakeRoom(lockout, key[w]) :
          lockout' = Put(room, key[w], Failed(key[w]))
    /\ Goto(w, "idle")
    /\ UNCHANGED <<now, rate, key, janitor, log>>

(* LockoutStore::clear, and the 200. *)
Clear(w) ==
    /\ pc[w] = "clear"
    /\ lockout' = Keep(lockout, DOMAIN lockout \ {key[w]})
    /\ Goto(w, "idle")
    /\ UNCHANGED <<now, rate, key, janitor, log>>

(* run_lockout_cleanup, first half: LockoutStore::cleanup. *)
CleanLockout ==
    /\ janitor = "lockout"
    /\ LET kept == {k \in DOMAIN lockout :
                      IF Locked(lockout[k]) THEN now < lockout[k].until
                      ELSE now - lockout[k].last <= AttemptTime}
       IN \E left \in Evictions(LockoutRanks(Keep(lockout, kept)), MaxRecords) :
             lockout' = Keep(lockout, left)
    /\ janitor' = "rate"
    /\ UNCHANGED <<now, rate, pc, key, log>>

(* run_lockout_cleanup, second half: RateLimitStore::cleanup. *)
CleanRate ==
    /\ janitor = "rate"
    /\ LET recent == [a \in DOMAIN rate |-> Within(rate[a], now)]
           kept == {a \in DOMAIN rate : recent[a] # {}}
       IN \E left \in Evictions(RateRanks(Keep(recent, kept)), MaxWindows) :
             rate' = Keep(recent, left)
    /\ janitor' = "lockout"
    /\ UNCHANGED <<now, lockout, pc, key, log>>

(* The process restarts with empty stores. *)
Restart ==
    /\ lockout' = <<>>
    /\ rate' = <<>>
    /\ pc' = [w \in Workers |-> "idle"]
    /\ janitor' = "lockout"
    /\ log' = [a \in Addresses |-> {}]
    /\ UNCHANGED <<now, key>>
------------------------------------------------------------------------------
Next ==
    \/ Tick \/ CleanLockout \/ CleanRate \/ Restart
    \/ \E a \in Addresses : PassBy(a)
    \/ \E w \in Workers :
          \/ \E k \in Keys : Refuse(w, k) \/ Arrive(w, k)
          \/ IsLocked(w) \/ Verify(w) \/ RecordFailure(w) \/ Clear(w)

Spec == Init /\ [][Next]_vars
------------------------------------------------------------------------------
Stamps == Times \X Nat
Records == [attempts : Nat \ {0}, until : {NotLocked} \cup Nat, last : Times]

TypeOK ==
    /\ now \in Times
    /\ DOMAIN lockout \subseteq Keys
    /\ \A k \in DOMAIN lockout : lockout[k] \in Records
    /\ DOMAIN rate \subseteq Addresses
    /\ \A a \in DOMAIN rate : rate[a] \in SUBSET Stamps
    /\ pc \in [Workers -> PCs]
    /\ key \in [Workers -> Keys]
    /\ janitor \in {"lockout", "rate"}
    /\ log \in [Addresses -> SUBSET Stamps]

(* The stores are bounded on the way in, not only by the cleanup thread. *)
StoresAreBounded ==
    /\ Cardinality(DOMAIN lockout) <= MaxRecords
    /\ Cardinality(DOMAIN rate) <= MaxWindows

(* Requests that passed is_locked together can all guess, but no more than  *)
(* that: a pair has at most the threshold of failures and one for each      *)
(* other worker before its lock stops the next request; a lock that expired *)
(* does not let the count run on.                                           *)
GuessesAreBounded ==
    \A k \in DOMAIN lockout :
        lockout[k].attempts <= Threshold + Cardinality(Workers) - 1

(* A lock that is in force goes only by a sign-in with the right password,  *)
(* a restart, or when the store is full of locks: junk entries do not push  *)
(* it out.                                                                  *)
LocksOutliveJunk ==
    [][\A k \in Keys :
          Live(k) /\ k \notin DOMAIN lockout' =>
              \/ \E w \in Workers : Clear(w) /\ key[w] = k
              \/ Restart
              \/ \A j \in DOMAIN lockout \cap DOMAIN lockout' : Live(j)]_vars

(* As long as its window is not evicted, no address has more than RateLimit *)
(* requests admitted in any span of RateTime.                               *)
RateIsLimited ==
    \A a \in Addresses : Cardinality(Within(log[a], now)) <= RateLimit
==============================================================================

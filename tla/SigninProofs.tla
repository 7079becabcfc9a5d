---------------------------- MODULE SigninProofs -----------------------------
(* Theorems about module Signin, for any numbers of pairs, addresses and    *)
(* workers, and any limits.                                                 *)
EXTENDS Signin, FiniteSetTheorems, TLAPS

(* The types of what the theorems on the stores are about; those of the     *)
(* windows and their history are part of RateInv.                           *)
StoresHaveType ==
    /\ now \in Times
    /\ IsFiniteSet(DOMAIN lockout) /\ DOMAIN lockout \subseteq Keys
    /\ \A k \in DOMAIN lockout : lockout[k] \in Records /\ lockout[k].last <= now
    /\ IsFiniteSet(DOMAIN rate)
    /\ pc \in [Workers -> PCs]
    /\ key \in [Workers -> Keys]

(* The workers that may still add a failure to the record of a pair. *)
Guessing(k) == {w \in Workers : key[w] = k /\ pc[w] \in {"verify", "record_failure"}}

(* The failures that a record has and those that may be added to it under   *)
(* way are bounded together; without a lock there are not enough for one.   *)
GuessesFit ==
    \A k \in DOMAIN lockout :
        /\ Locked(lockout[k]) \/ lockout[k].attempts < Threshold
        /\ lockout[k].attempts + Cardinality(Guessing(k))
             <= Threshold + Cardinality(Workers) - 1

Inv == StoresHaveType /\ StoresAreBounded /\ GuessesFit
------------------------------------------------------------------------------
(* No more workers guess than there are.                                    *)
LEMMA GuessingIsSmall ==
    ASSUME NEW k
    PROVE  /\ IsFiniteSet(Guessing(k))
           /\ Cardinality(Guessing(k)) \in Nat
           /\ Cardinality(Workers) \in Nat
           /\ Cardinality(Guessing(k)) <= Cardinality(Workers)
<1>1. Guessing(k) \in SUBSET Workers
  BY DEF Guessing
<1>2. QED
  BY <1>1, SigninAssumption, FS_Subset, FS_CardinalityType

(* Eviction leaves part of the store, no larger than it is to be. *)
LEMMA EvictionIsPart ==
    ASSUME NEW ranks, IsFiniteSet(DOMAIN ranks), NEW size \in Nat,
           NEW kept \in Evictions(ranks, size)
    PROVE  /\ kept \subseteq DOMAIN ranks /\ IsFiniteSet(kept)
           /\ Cardinality(kept) \in Nat /\ Cardinality(kept) <= size
           /\ \A x \in kept, y \in DOMAIN ranks \ kept : ranks[y] <= ranks[x]
<1>1. /\ kept \in SUBSET DOMAIN ranks
      /\ Cardinality(kept) = IF Cardinality(DOMAIN ranks) > size
                             THEN size ELSE Cardinality(DOMAIN ranks)
      /\ \A x \in kept, y \in DOMAIN ranks \ kept : ranks[y] <= ranks[x]
  BY DEF Evictions
<1>2. Cardinality(DOMAIN ranks) \in Nat
  BY FS_CardinalityType
<1>3. IsFiniteSet(kept)
  BY <1>1, FS_Subset
<1>4. QED
  BY <1>1, <1>2, <1>3

(* A set with room for one more does not outgrow its limit by one element. *)
LEMMA OneMoreFits ==
    ASSUME NEW S, IsFiniteSet(S), NEW x, NEW max \in Nat,
           Cardinality(S) <= max, x \in S \/ Cardinality(S) <= max - 1
    PROVE  IsFiniteSet(S \cup {x}) /\ Cardinality(S \cup {x}) <= max
<1>1. Cardinality(S) \in Nat
  BY FS_CardinalityType
<1>2. /\ IsFiniteSet(S \cup {x})
      /\ Cardinality(S \cup {x}) = IF x \in S THEN Cardinality(S) ELSE Cardinality(S) + 1
  BY FS_AddElement
<1>3. QED
  BY <1>1, <1>2

(* What is kept of a store is as it was.                                    *)
LEMMA KeepIs ==
    ASSUME NEW store, NEW kept
    PROVE  /\ DOMAIN Keep(store, kept) = kept
           /\ \A y \in kept : Keep(store, kept)[y] = store[y]
  BY DEF Keep

(* What making room leaves: part of the store, with room for the pair.      *)
LEMMA RoomIsPart ==
    ASSUME StoresHaveType, StoresAreBounded, NEW k \in Keys, NEW room \in MakeRoom(lockout, k)
    PROVE  /\ DOMAIN room \subseteq DOMAIN lockout /\ IsFiniteSet(DOMAIN room)
           /\ \A x \in DOMAIN room : room[x] = lockout[x]
           /\ Cardinality(DOMAIN room) <= MaxRecords
           /\ k \in DOMAIN room \/ Cardinality(DOMAIN room) <= MaxRecords - 1
           /\ k \in DOMAIN lockout => room = lockout
           /\ room # lockout =>
                 \A x \in DOMAIN room, y \in DOMAIN lockout \ DOMAIN room :
                     LockoutRanks(lockout)[y] <= LockoutRanks(lockout)[x]
<1> USE SigninAssumption
<1>1. Cardinality(DOMAIN lockout) \in Nat
  BY FS_CardinalityType DEF StoresHaveType
<1>2. CASE k \in DOMAIN lockout \/ Cardinality(DOMAIN lockout) < MaxRecords
  <2>1. room = lockout
    BY <1>2 DEF MakeRoom
  <2>2. QED
    BY <1>1, <1>2, <2>1 DEF StoresHaveType, StoresAreBounded
<1>3. CASE ~(k \in DOMAIN lockout \/ Cardinality(DOMAIN lockout) < MaxRecords)
  <2>1. PICK kept \in Evictions(LockoutRanks(lockout), MaxRecords - 1) :
            room = Keep(lockout, kept)
    BY <1>3 DEF MakeRoom
  <2>2. DOMAIN LockoutRanks(lockout) = DOMAIN lockout
    BY DEF LockoutRanks
  <2>3. /\ kept \subseteq DOMAIN lockout /\ IsFiniteSet(kept)
        /\ Cardinality(kept) \in Nat /\ Cardinality(kept) <= MaxRecords - 1
        /\ \A x \in kept, y \in DOMAIN lockout \ kept :
               LockoutRanks(lockout)[y] <= LockoutRanks(lockout)[x]
    <3>1. MaxRecords - 1 \in Nat
      OBVIOUS
    <3>2. IsFiniteSet(DOMAIN LockoutRanks(lockout))
      BY <2>2 DEF StoresHaveType
    <3>3. QED
      BY <2>1, <2>2, <3>1, <3>2, EvictionIsPart
  <2>4. DOMAIN room = kept /\ \A x \in kept : room[x] = lockout[x]
    BY <2>1, KeepIs
  <2>5. QED
    BY <1>3, <2>3, <2>4
<1>4. QED
  BY <1>2, <1>3

(* What making room leaves of the windows: no more than fit with a new one. *)
LEMMA RoomForAddressIsPart ==
    ASSUME StoresHaveType, StoresAreBounded, NEW a, NEW room \in RoomForAddress(a)
    PROVE  /\ IsFiniteSet(DOMAIN room)
           /\ Cardinality(DOMAIN room) <= MaxWindows
           /\ a \in DOMAIN room \/ Cardinality(DOMAIN room) <= MaxWindows - 1
<1> USE SigninAssumption
<1>1. Cardinality(DOMAIN rate) \in Nat
  BY FS_CardinalityType DEF StoresHaveType
<1>2. CASE a \in DOMAIN rate \/ Cardinality(DOMAIN rate) < MaxWindows
  <2>1. room = rate
    BY <1>2 DEF RoomForAddress
  <2>2. QED
    BY <1>1, <1>2, <2>1 DEF StoresHaveType, StoresAreBounded
<1>3. CASE ~(a \in DOMAIN rate \/ Cardinality(DOMAIN rate) < MaxWindows)
  <2>1. PICK kept \in Evictions(RateRanks(rate), MaxWindows - 1) : room = Keep(rate, kept)
    BY <1>3 DEF RoomForAddress
  <2>2. DOMAIN RateRanks(rate) = DOMAIN rate
    BY DEF RateRanks
  <2>3. MaxWindows - 1 \in Nat
    OBVIOUS
  <2>4. IsFiniteSet(DOMAIN RateRanks(rate))
    BY <2>2 DEF StoresHaveType
  <2>5. /\ IsFiniteSet(kept)
        /\ Cardinality(kept) \in Nat /\ Cardinality(kept) <= MaxWindows - 1
    BY <2>3, <2>4, EvictionIsPart
  <2>6. DOMAIN room = kept
    BY <2>1, KeepIs
  <2>7. QED
    BY <2>5, <2>6
<1>4. QED
  BY <1>2, <1>3

(* check_and_record keeps the windows within their limit.                   *)
LEMMA AdmitFits ==
    ASSUME StoresHaveType, StoresAreBounded, NEW a, NEW admitted, Admit(a, admitted)
    PROVE  IsFiniteSet(DOMAIN rate') /\ Cardinality(DOMAIN rate') <= MaxWindows
<1>1. PICK room \in RoomForAddress(a) : \E new : rate' = Put(room, a, new)
  BY DEF Admit
<1>2. DOMAIN rate' = DOMAIN room \cup {a}
  BY <1>1 DEF Put
<1>3. QED
  BY <1>2, RoomForAddressIsPart, OneMoreFits, SigninAssumption
------------------------------------------------------------------------------
(* Both stores start empty.                                                 *)
LEMMA InvInit == Init => Inv
<1> SUFFICES ASSUME Init PROVE Inv
  OBVIOUS
<1>1. DOMAIN lockout = {} /\ DOMAIN rate = {}
  BY DEF Init
<1>2. StoresHaveType
  BY <1>1, FS_EmptySet, SigninAssumption DEF Init, StoresHaveType, PCs, Times
<1>3. StoresAreBounded
  BY <1>1, FS_EmptySet, SigninAssumption DEF StoresAreBounded
<1>4. GuessesFit
  BY <1>1 DEF GuessesFit
<1>5. QED
  BY <1>2, <1>3, <1>4 DEF Inv

(* A step that keeps part of the records, and adds no worker that guesses.  *)
LEMMA FewerKeeps ==
    ASSUME Inv, now' = now \/ (now' \in Times /\ now <= now'),
           DOMAIN lockout' \subseteq DOMAIN lockout,
           \A k \in DOMAIN lockout' : lockout'[k] = lockout[k],
           IsFiniteSet(DOMAIN rate'), Cardinality(DOMAIN rate') <= MaxWindows,
           pc' \in [Workers -> PCs], key' \in [Workers -> Keys],
           \A w \in Workers : pc'[w] \in {"verify", "record_failure"} =>
               pc[w] \in {"verify", "record_failure"} /\ key'[w] = key[w]
    PROVE  Inv'
<1> USE SigninAssumption DEF Inv
<1>1. /\ IsFiniteSet(DOMAIN lockout')
      /\ Cardinality(DOMAIN lockout') <= Cardinality(DOMAIN lockout)
      /\ Cardinality(DOMAIN lockout') \in Nat /\ Cardinality(DOMAIN lockout) \in Nat
  <2>1. DOMAIN lockout' \in SUBSET DOMAIN lockout /\ IsFiniteSet(DOMAIN lockout)
    BY DEF StoresHaveType
  <2>2. QED
    BY <2>1, FS_Subset, FS_CardinalityType
<1>2. StoresHaveType'
  <2>0. now' \in Times
    BY DEF StoresHaveType
  <2>1. \A k \in DOMAIN lockout' : lockout'[k] \in Records' /\ lockout'[k].last <= now'
    BY DEF StoresHaveType, Records, Times
  <2>2. QED
    BY <1>1, <2>0, <2>1 DEF StoresHaveType
<1>3. StoresAreBounded'
  BY <1>1 DEF StoresAreBounded
<1>4. GuessesFit'
  <2> SUFFICES ASSUME NEW k \in DOMAIN lockout'
               PROVE  /\ Locked(lockout[k]) \/ lockout[k].attempts < Threshold
                      /\ lockout[k].attempts + Cardinality(Guessing(k)')
                           <= Threshold + Cardinality(Workers) - 1
    BY DEF GuessesFit, Locked
  <2>1. k \in DOMAIN lockout /\ lockout[k].attempts \in Nat
    BY DEF StoresHaveType, Records
  <2>2. /\ Cardinality(Guessing(k)') \in Nat
        /\ Cardinality(Guessing(k)') <= Cardinality(Guessing(k))
    <3>1. Guessing(k)' \in SUBSET Guessing(k)
      BY DEF Guessing
    <3>2. QED
      BY <3>1, GuessingIsSmall, FS_Subset, FS_CardinalityType
  <2>3. Cardinality(Guessing(k)) \in Nat /\ Cardinality(Workers) \in Nat
    BY GuessingIsSmall
  <2>4. QED
    BY <2>1, <2>2, <2>3 DEF GuessesFit
<1>5. QED
  BY <1>2, <1>3, <1>4

(* A request arrives: its worker was idle, and does not guess yet. *)
LEMMA ArriveKeeps ==
    ASSUME Inv, NEW w \in Workers, NEW k \in Keys, Arrive(w, k)
    PROVE  Inv'
<1> USE DEF Inv
<1>1. IsFiniteSet(DOMAIN rate') /\ Cardinality(DOMAIN rate') <= MaxWindows
  BY AdmitFits DEF Arrive
<1>2. /\ pc[w] = "idle" /\ pc' = [pc EXCEPT ![w] = "is_locked"]
      /\ key' = [key EXCEPT ![w] = k] /\ UNCHANGED <<now, lockout>>
  BY DEF Arrive, Goto
<1>3. pc' \in [Workers -> PCs] /\ key' \in [Workers -> Keys]
  BY <1>2 DEF StoresHaveType, PCs
<1>4. \A v \in Workers : pc'[v] \in {"verify", "record_failure"} =>
         pc[v] \in {"verify", "record_failure"} /\ key'[v] = key[v]
  BY <1>2 DEF StoresHaveType
<1>5. QED
  BY <1>1, <1>2, <1>3, <1>4, FewerKeeps DEF StoresHaveType

(* is_locked lets a worker guess only if the pair has no lock. *)
LEMMA IsLockedKeeps ==
    ASSUME Inv, NEW w \in Workers, IsLocked(w)
    PROVE  Inv'
<1> USE SigninAssumption DEF Inv
<1> DEFINE k == key[w]
<1>0. k \in Keys /\ pc[w] = "is_locked" /\ UNCHANGED <<now, rate, key>>
  BY DEF IsLocked, StoresHaveType
<1>1. IsFiniteSet(DOMAIN rate') /\ Cardinality(DOMAIN rate') <= MaxWindows
  BY <1>0 DEF StoresHaveType, StoresAreBounded
<1>2. CASE Live(k)
  <2>1. pc' = [pc EXCEPT ![w] = "idle"] /\ UNCHANGED lockout
    BY <1>2 DEF IsLocked, Goto
  <2>2. pc' \in [Workers -> PCs] /\ key' \in [Workers -> Keys]
    BY <1>0, <2>1 DEF StoresHaveType, PCs
  <2>3. \A v \in Workers : pc'[v] \in {"verify", "record_failure"} =>
           pc[v] \in {"verify", "record_failure"} /\ key'[v] = key[v]
    BY <1>0, <2>1 DEF StoresHaveType
  <2>4. QED
    BY <1>0, <1>1, <2>1, <2>2, <2>3, FewerKeeps DEF StoresHaveType
<1>3. CASE ~Live(k)
  <2>1. /\ pc' = [pc EXCEPT ![w] = "verify"]
        /\ lockout' = IF k \in DOMAIN lockout /\ Locked(lockout[k])
                      THEN Keep(lockout, DOMAIN lockout \ {k}) ELSE lockout
    BY <1>3 DEF IsLocked, Goto
  <2>2. pc' \in [Workers -> PCs] /\ key' \in [Workers -> Keys]
    BY <1>0, <2>1 DEF StoresHaveType, PCs
  <2>3. /\ DOMAIN lockout' \subseteq DOMAIN lockout
        /\ \A j \in DOMAIN lockout' : lockout'[j] = lockout[j]
        /\ k \in DOMAIN lockout' => ~Locked(lockout[k])
    <3>1. CASE k \in DOMAIN lockout /\ Locked(lockout[k])
      BY <2>1, <3>1, KeepIs
    <3>2. CASE ~(k \in DOMAIN lockout /\ Locked(lockout[k]))
      BY <2>1, <3>2
    <3>3. QED
      BY <3>1, <3>2
  <2>4. /\ IsFiniteSet(DOMAIN lockout')
        /\ Cardinality(DOMAIN lockout') <= Cardinality(DOMAIN lockout)
        /\ Cardinality(DOMAIN lockout') \in Nat /\ Cardinality(DOMAIN lockout) \in Nat
    <3>1. DOMAIN lockout' \in SUBSET DOMAIN lockout /\ IsFiniteSet(DOMAIN lockout)
      BY <2>3 DEF StoresHaveType
    <3>2. QED
      BY <3>1, FS_Subset, FS_CardinalityType
  <2>5. StoresHaveType'
    BY <1>0, <1>1, <2>2, <2>3, <2>4 DEF StoresHaveType
  <2>6. StoresAreBounded'
    BY <1>1, <2>4 DEF StoresAreBounded
  <2>7. GuessesFit'
    <3> SUFFICES ASSUME NEW j \in DOMAIN lockout'
                 PROVE  /\ Locked(lockout'[j]) \/ lockout'[j].attempts < Threshold
                        /\ lockout'[j].attempts + Cardinality(Guessing(j)')
                             <= Threshold + Cardinality(Workers) - 1
      BY DEF GuessesFit, Locked
    <3>1. j \in DOMAIN lockout /\ lockout'[j] = lockout[j] /\ lockout[j].attempts \in Nat
      BY <2>3 DEF StoresHaveType, Records
    <3>2. CASE j = k
      <4>1. lockout[j].attempts < Threshold
        BY <2>3, <3>1, <3>2 DEF GuessesFit
      <4>2. Guessing(j)' \in SUBSET Workers
        BY DEF Guessing
      <4>3. Cardinality(Guessing(j)') \in Nat /\ Cardinality(Workers) \in Nat
            /\ Cardinality(Guessing(j)') <= Cardinality(Workers)
        BY <4>2, FS_Subset, FS_CardinalityType
      <4>4. QED
        BY <3>1, <4>1, <4>3
    <3>3. CASE j # k
      <4>1. Guessing(j)' = Guessing(j)
        BY <1>0, <2>1, <3>3 DEF Guessing, StoresHaveType
      <4>2. QED
        BY <3>1, <4>1 DEF GuessesFit
    <3>4. QED
      BY <3>2, <3>3
  <2>8. QED
    BY <2>5, <2>6, <2>7
<1>4. QED
  BY <1>2, <1>3

(* record_failure: one more failure in the record, one worker less to add   *)
(* another.                                                                 *)
LEMMA RecordFailureKeeps ==
    ASSUME Inv, NEW w \in Workers, RecordFailure(w), NEW k, k = key[w]
    PROVE  Inv'
<1> USE SigninAssumption DEF Inv
<1> DEFINE r == Failed(k)
<1>1. PICK room \in MakeRoom(lockout, k) : lockout' = Put(room, k, r)
  BY DEF RecordFailure
<1>2. /\ k \in Keys /\ pc[w] = "record_failure" /\ pc' = [pc EXCEPT ![w] = "idle"]
      /\ UNCHANGED <<now, rate, key>>
  BY DEF RecordFailure, Goto, StoresHaveType
<1>3. /\ DOMAIN room \subseteq DOMAIN lockout /\ IsFiniteSet(DOMAIN room)
      /\ \A x \in DOMAIN room : room[x] = lockout[x]
      /\ Cardinality(DOMAIN room) <= MaxRecords
      /\ k \in DOMAIN room \/ Cardinality(DOMAIN room) <= MaxRecords - 1
  BY <1>2, RoomIsPart
<1>4. /\ DOMAIN lockout' = DOMAIN room \cup {k}
      /\ lockout'[k] = r
      /\ \A j \in DOMAIN room \ {k} : lockout'[j] = lockout[j]
  BY <1>1, <1>3 DEF Put
<1>5. /\ r \in Records /\ r.last = now
      /\ Locked(r) \/ r.attempts < Threshold
      /\ \/ r.attempts = 1
         \/ k \in DOMAIN lockout /\ r.attempts = lockout[k].attempts + 1
  <2> DEFINE fresh == k \notin DOMAIN lockout \/ now - lockout[k].last > AttemptTime
             n == IF fresh THEN 1 ELSE lockout[k].attempts + 1
             u == IF n >= Threshold THEN now + LockTime
                  ELSE IF fresh THEN NotLocked ELSE lockout[k].until
  <2>1. r = [attempts |-> n, until |-> u, last |-> now]
    BY DEF Failed
  <2>2. ~fresh => /\ k \in DOMAIN lockout /\ lockout[k].attempts \in Nat \ {0}
                  /\ lockout[k].until \in {NotLocked} \cup Nat
    BY DEF StoresHaveType, Records
  <2>3. now \in Times /\ now \in Nat
    BY DEF StoresHaveType, Times
  <2> HIDE DEF fresh, r
  <2>4. /\ n \in Nat \ {0}
        /\ \/ n = 1
           \/ k \in DOMAIN lockout /\ n = lockout[k].attempts + 1
    <3>1. CASE fresh
      BY <3>1
    <3>2. CASE ~fresh
      BY <2>2, <3>2
    <3>3. QED
      BY <3>1, <3>2
  <2>5. u \in {NotLocked} \cup Nat /\ (n >= Threshold => u # NotLocked)
    <3>1. CASE n >= Threshold
      BY <2>3, <3>1 DEF NotLocked
    <3>2. CASE ~(n >= Threshold)
      BY <2>2, <3>2
    <3>3. QED
      BY <3>1, <3>2
  <2> HIDE DEF n, u
  <2>6. QED
    BY <2>1, <2>3, <2>4, <2>5 DEF Records, Locked, NotLocked
<1> HIDE DEF r
<1>6. IsFiniteSet(DOMAIN lockout') /\ Cardinality(DOMAIN lockout') <= MaxRecords
  BY <1>3, <1>4, OneMoreFits
<1>7. StoresHaveType'
  <2>1. pc' \in [Workers -> PCs]
    BY <1>2 DEF StoresHaveType, PCs
  <2>2. \A j \in DOMAIN lockout' : lockout'[j] \in Records /\ lockout'[j].last <= now
    <3> TAKE j \in DOMAIN lockout'
    <3>1. CASE j = k
      BY <1>4, <1>5, <3>1 DEF StoresHaveType, Times
    <3>2. CASE j # k
      BY <1>3, <1>4, <3>2 DEF StoresHaveType
    <3>3. QED
      BY <3>1, <3>2
  <2>3. QED
    BY <1>2, <1>3, <1>4, <1>6, <2>1, <2>2 DEF StoresHaveType
<1>8. StoresAreBounded'
  BY <1>2, <1>6 DEF StoresAreBounded
<1>9. GuessesFit'
  <2> SUFFICES ASSUME NEW j \in DOMAIN lockout'
               PROVE  /\ Locked(lockout'[j]) \/ lockout'[j].attempts < Threshold
                      /\ lockout'[j].attempts + Cardinality(Guessing(j)')
                           <= Threshold + Cardinality(Workers) - 1
    BY DEF GuessesFit, Locked
  <2>1. CASE j = k
    <3>1. w \in Guessing(k) /\ Guessing(k)' = Guessing(k) \ {w}
      BY <1>2 DEF Guessing, StoresHaveType
    <3>2. Cardinality(Guessing(k)') = Cardinality(Guessing(k)) - 1
      <4>1. IsFiniteSet(Guessing(k))
        BY GuessingIsSmall
      <4>2. Cardinality(Guessing(k) \ {w}) = Cardinality(Guessing(k)) - 1
        BY <3>1, <4>1, FS_RemoveElement
      <4>3. QED
        BY <3>1, <4>2
    <3>3. /\ Cardinality(Guessing(k)) \in Nat /\ Cardinality(Workers) \in Nat
          /\ Cardinality(Guessing(k)) <= Cardinality(Workers)
      BY GuessingIsSmall
    <3>4. CASE r.attempts = 1
      BY <1>4, <1>5, <2>1, <3>2, <3>3, <3>4
    <3>5. CASE k \in DOMAIN lockout /\ r.attempts = lockout[k].attempts + 1
      <4>1. lockout[k].attempts \in Nat
        BY <3>5 DEF StoresHaveType, Records
      <4>2. lockout[k].attempts + Cardinality(Guessing(k))
              <= Threshold + Cardinality(Workers) - 1
        BY <3>5 DEF GuessesFit
      <4>3. QED
        BY <1>4, <1>5, <2>1, <3>2, <3>3, <3>5, <4>1, <4>2
    <3>6. QED
      BY <1>5, <3>4, <3>5
  <2>2. CASE j # k
    <3>1. j \in DOMAIN lockout /\ lockout'[j] = lockout[j]
      BY <1>3, <1>4, <2>2
    <3>2. Guessing(j)' = Guessing(j)
      BY <1>2, <2>2 DEF Guessing, StoresHaveType
    <3>3. QED
      BY <3>1, <3>2 DEF GuessesFit
  <2>3. QED
    BY <2>1, <2>2
<1>10. QED
  BY <1>7, <1>8, <1>9

(* What cleanup leaves of the records. *)
LEMMA CleanLockoutIsPart ==
    ASSUME Inv, CleanLockout
    PROVE  /\ DOMAIN lockout' \subseteq DOMAIN lockout
           /\ \A k \in DOMAIN lockout' : lockout'[k] = lockout[k]
           /\ \A x \in DOMAIN lockout', y \in DOMAIN lockout \ DOMAIN lockout' :
                  Live(y) => LockoutRanks(lockout)[y] <= LockoutRanks(lockout)[x]
<1> USE SigninAssumption DEF Inv
<1> DEFINE kept == {k \in DOMAIN lockout :
                      IF Locked(lockout[k]) THEN now < lockout[k].until
                      ELSE now - lockout[k].last <= AttemptTime}
           store == Keep(lockout, kept)
<1>1. PICK left \in Evictions(LockoutRanks(store), MaxRecords) :
          lockout' = Keep(lockout, left)
  BY DEF CleanLockout
<1>2. DOMAIN store = kept /\ \A k \in kept : store[k] = lockout[k]
  BY KeepIs
<1>3. IsFiniteSet(kept) /\ kept \subseteq DOMAIN lockout
  <2>1. kept \in SUBSET DOMAIN lockout /\ IsFiniteSet(DOMAIN lockout)
    BY DEF StoresHaveType
  <2>2. QED
    BY <2>1, FS_Subset
<1>4. \A y \in DOMAIN lockout : Live(y) => y \in kept
  BY DEF Live, Locked, NotLocked, StoresHaveType, Records, Times
<1> HIDE DEF kept, store
<1>5. /\ DOMAIN LockoutRanks(store) = kept
      /\ \A k \in kept : LockoutRanks(store)[k] = LockoutRanks(lockout)[k]
  BY <1>2, <1>3 DEF LockoutRanks
<1>6. /\ left \subseteq kept
      /\ \A x \in left, y \in kept \ left :
             LockoutRanks(store)[y] <= LockoutRanks(store)[x]
  <2>1. IsFiniteSet(DOMAIN LockoutRanks(store)) /\ MaxRecords \in Nat
    BY <1>3, <1>5
  <2>2. QED
    BY <1>5, <2>1, EvictionIsPart
<1>7. DOMAIN lockout' = left /\ \A k \in left : lockout'[k] = lockout[k]
  BY <1>1, KeepIs
<1>8. QED
  BY <1>3, <1>4, <1>5, <1>6, <1>7

(* cleanup leaves no more windows than the limit.                           *)
LEMMA CleanRateFits ==
    ASSUME Inv, CleanRate
    PROVE  IsFiniteSet(DOMAIN rate') /\ Cardinality(DOMAIN rate') <= MaxWindows
<1> USE SigninAssumption DEF Inv
<1> DEFINE recent == [a \in DOMAIN rate |-> Within(rate[a], now)]
           kept == {a \in DOMAIN rate : recent[a] # {}}
<1>1. PICK left \in Evictions(RateRanks(Keep(recent, kept)), MaxWindows) :
          rate' = Keep(recent, left)
  BY DEF CleanRate
<1>2. IsFiniteSet(kept)
  <2>1. kept \in SUBSET DOMAIN rate /\ IsFiniteSet(DOMAIN rate)
    BY DEF StoresHaveType
  <2>2. QED
    BY <2>1, FS_Subset
<1> HIDE DEF kept, recent
<1>3. DOMAIN RateRanks(Keep(recent, kept)) = kept
  BY KeepIs DEF RateRanks
<1>4. IsFiniteSet(left) /\ Cardinality(left) <= MaxWindows
  <2>1. IsFiniteSet(DOMAIN RateRanks(Keep(recent, kept))) /\ MaxWindows \in Nat
    BY <1>2, <1>3
  <2>2. QED
    BY <2>1, EvictionIsPart
<1>5. DOMAIN rate' = left
  BY <1>1, KeepIs
<1>6. QED
  BY <1>4, <1>5

(* A restart empties both stores.                                           *)
LEMMA RestartKeeps == Inv /\ Restart => Inv'
<1> SUFFICES ASSUME Inv, Restart PROVE Inv'
  OBVIOUS
<1> USE DEF Inv
<1>1. DOMAIN lockout' = {} /\ DOMAIN rate' = {}
  BY DEF Restart
<1>2. StoresHaveType'
  BY <1>1, FS_EmptySet DEF Restart, StoresHaveType, PCs
<1>3. StoresAreBounded'
  BY <1>1, FS_EmptySet, SigninAssumption DEF StoresAreBounded
<1>4. GuessesFit'
  BY <1>1 DEF GuessesFit
<1>5. QED
  BY <1>2, <1>3, <1>4

(* Every step keeps the invariant of the stores.                            *)
LEMMA InvNext == Inv /\ [Next]_vars => Inv'
<1> SUFFICES ASSUME Inv, [Next]_vars PROVE Inv'
  OBVIOUS
<1> USE DEF Inv
<1>1. /\ now \in Times /\ pc \in [Workers -> PCs] /\ key \in [Workers -> Keys]
      /\ IsFiniteSet(DOMAIN rate) /\ Cardinality(DOMAIN rate) <= MaxWindows
  BY DEF StoresHaveType, StoresAreBounded
<1>3. CASE Tick \/ UNCHANGED vars
  BY <1>1, <1>3, FewerKeeps, SigninAssumption DEF Tick, vars, Times
<1>4. CASE CleanLockout
  BY <1>1, <1>4, CleanLockoutIsPart, FewerKeeps DEF CleanLockout
<1>5. CASE CleanRate
  BY <1>1, <1>5, CleanRateFits, FewerKeeps DEF CleanRate
<1>6. CASE Restart
  BY <1>6, RestartKeeps
<1>7. ASSUME NEW a \in Addresses, PassBy(a)
      PROVE  Inv'
  BY <1>1, <1>7, AdmitFits, FewerKeeps DEF PassBy
<1>8. ASSUME NEW w \in Workers, NEW k \in Keys, Refuse(w, k)
      PROVE  Inv'
  BY <1>1, <1>8, AdmitFits, FewerKeeps DEF Refuse
<1>9. ASSUME NEW w \in Workers, NEW k \in Keys, Arrive(w, k)
      PROVE  Inv'
  BY <1>9, ArriveKeeps
<1>10. ASSUME NEW w \in Workers, IsLocked(w) \/ RecordFailure(w)
       PROVE  Inv'
  BY <1>10, IsLockedKeeps, RecordFailureKeeps
<1>11. ASSUME NEW w \in Workers, Verify(w)
       PROVE  Inv'
  <2>1. PICK label \in {"clear", "record_failure", "idle"} : Goto(w, label)
    BY <1>11 DEF Verify
  <2>2. pc[w] = "verify" /\ UNCHANGED <<now, lockout, rate, key>>
    BY <1>11 DEF Verify
  <2>3. pc' \in [Workers -> PCs]
    BY <1>1, <2>1 DEF Goto, PCs
  <2>4. \A v \in Workers : pc'[v] \in {"verify", "record_failure"} =>
           pc[v] \in {"verify", "record_failure"} /\ key'[v] = key[v]
    BY <1>1, <2>1, <2>2 DEF Goto
  <2>5. QED
    BY <1>1, <2>2, <2>3, <2>4, FewerKeeps
<1>12. ASSUME NEW w \in Workers, Clear(w)
       PROVE  Inv'
  <2>1. /\ pc[w] = "clear" /\ pc' = [pc EXCEPT ![w] = "idle"]
        /\ UNCHANGED <<now, rate, key>>
        /\ lockout' = Keep(lockout, DOMAIN lockout \ {key[w]})
    BY <1>12 DEF Clear, Goto
  <2>2. pc' \in [Workers -> PCs]
    BY <1>1, <2>1 DEF PCs
  <2>3. /\ DOMAIN lockout' \subseteq DOMAIN lockout
        /\ \A k \in DOMAIN lockout' : lockout'[k] = lockout[k]
    BY <2>1, KeepIs
  <2>4. \A v \in Workers : pc'[v] \in {"verify", "record_failure"} =>
           pc[v] \in {"verify", "record_failure"} /\ key'[v] = key[v]
    BY <1>1, <2>1
  <2>5. QED
    BY <1>1, <2>1, <2>2, <2>3, <2>4, FewerKeeps
<1>13. QED
  BY <1>3, <1>4, <1>5, <1>6, <1>7, <1>8, <1>9, <1>10, <1>11, <1>12 DEF Next

(* So it holds throughout.                                                  *)
LEMMA InvHolds == Spec => []Inv
  BY InvInit, InvNext, PTL DEF Spec
------------------------------------------------------------------------------
(* stores.rs make_room, check_and_record - neither store ever has more      *)
(* entries than its limit, also between two runs of the cleanup thread.     *)
THEOREM StoresStayBounded == Spec => []StoresAreBounded
<1>1. Inv => StoresAreBounded
  BY DEF Inv
<1>2. QED
  BY <1>1, InvHolds, PTL

(* stores.rs is_locked, record_failure - however the workers interleave,    *)
(* they add to a record no more failures than the threshold and one for     *)
(* each other worker.                                                       *)
THEOREM GuessesStayBounded == Spec => []GuessesAreBounded
<1>1. Inv => GuessesAreBounded
  <2> SUFFICES ASSUME Inv, NEW k \in DOMAIN lockout
               PROVE  lockout[k].attempts <= Threshold + Cardinality(Workers) - 1
    BY DEF GuessesAreBounded
  <2>1. lockout[k].attempts \in Nat
    BY DEF Inv, StoresHaveType, Records
  <2>2. Cardinality(Guessing(k)) \in Nat /\ Cardinality(Workers) \in Nat
    BY GuessingIsSmall
  <2>3. QED
    BY <2>1, <2>2, SigninAssumption DEF Inv, GuessesFit
<1>2. QED
  BY <1>1, InvHolds, PTL

(* A record that outranks a live lock is a live lock: one without a lock    *)
(* ranks by a time that is over.                                            *)
LEMMA OutrankedByLocks ==
    ASSUME StoresHaveType, NEW k \in DOMAIN lockout, NEW j \in DOMAIN lockout,
           Live(k), LockoutRanks(lockout)[k] <= LockoutRanks(lockout)[j]
    PROVE  Live(j)
<1>1. /\ lockout[k].until \in {NotLocked} \cup Nat /\ lockout[j].until \in {NotLocked} \cup Nat
      /\ lockout[j].last \in Nat /\ lockout[j].last <= now /\ now \in Nat
      /\ now < lockout[k].until
  BY SigninAssumption DEF StoresHaveType, Records, Live, Times
<1>2. LockoutRanks(lockout)[k] = lockout[k].until
  BY <1>1 DEF LockoutRanks, Locked, NotLocked
<1>3. CASE Locked(lockout[j])
  BY <1>1, <1>2, <1>3 DEF LockoutRanks, Live, NotLocked, Locked
<1>4. CASE ~Locked(lockout[j])
  BY <1>1, <1>2, <1>4 DEF LockoutRanks, NotLocked
<1>5. QED
  BY <1>3, <1>4

(* stores.rs LockoutStore::evict - whatever requests fill the store, a lock *)
(* in force goes only if all that is left of it are locks in force.         *)
THEOREM LocksAreNotFlushed == Spec => LocksOutliveJunk
<1> DEFINE Outlives == \A k \in Keys :
               Live(k) /\ k \notin DOMAIN lockout' =>
                   \/ \E w \in Workers : Clear(w) /\ key[w] = k
                   \/ Restart
                   \/ \A j \in DOMAIN lockout \cap DOMAIN lockout' : Live(j)
<1>1. Inv /\ [Next]_vars => [Outlives]_vars
  <2> SUFFICES ASSUME Inv, Next, NEW k \in Keys, Live(k), k \notin DOMAIN lockout',
                      ~Restart, ~\E w \in Workers : Clear(w) /\ key[w] = k
               PROVE  \A j \in DOMAIN lockout \cap DOMAIN lockout' : Live(j)
    OBVIOUS
  <2> USE DEF Inv
  <2>1. k \in DOMAIN lockout
    BY DEF Live
  <2>2. CASE CleanLockout
    BY <2>1, <2>2, CleanLockoutIsPart, OutrankedByLocks
  <2>3. ASSUME NEW w \in Workers, RecordFailure(w)
        PROVE  \A j \in DOMAIN lockout \cap DOMAIN lockout' : Live(j)
    <3>1. PICK room \in MakeRoom(lockout, key[w]) : lockout' = Put(room, key[w], Failed(key[w]))
      BY <2>3 DEF RecordFailure
    <3>2. DOMAIN lockout' = DOMAIN room \cup {key[w]}
      BY <3>1 DEF Put
    <3>3. key[w] \in Keys
      BY DEF StoresHaveType
    <3>4. room # lockout
      BY <2>1, <3>2
    <3>5. /\ key[w] \notin DOMAIN lockout
          /\ \A x \in DOMAIN room, y \in DOMAIN lockout \ DOMAIN room :
                 LockoutRanks(lockout)[y] <= LockoutRanks(lockout)[x]
      BY <3>1, <3>3, <3>4, RoomIsPart
    <3>6. QED
      BY <2>1, <3>2, <3>5, OutrankedByLocks
  <2>4. ASSUME NEW w \in Workers, IsLocked(w)
        PROVE  FALSE
    <3>1. key[w] = k \/ k \in DOMAIN lockout'
      BY <2>1, <2>4, KeepIs DEF IsLocked
    <3>2. QED
      BY <2>1, <2>4, <3>1 DEF IsLocked
  <2>5. ASSUME NEW w \in Workers, Clear(w)
        PROVE  FALSE
    BY <2>1, <2>5 DEF Clear, Keep
  <2>6. CASE UNCHANGED lockout
    BY <2>1, <2>6
  <2>7. QED
    BY <2>2, <2>3, <2>4, <2>5, <2>6
       DEF Next, Tick, CleanRate, PassBy, Refuse, Arrive, Verify
<1>2. QED
  BY <1>1, InvHolds, PTL DEF Spec, LocksOutliveJunk
------------------------------------------------------------------------------
(* Requests of one moment are numbered from 0, so that no two are one.      *)
Numbered(window) ==
    \A s \in window : s[2] < Cardinality({q \in window : q[1] = s[1]})

(* A window holds all that was admitted and is recent; an address without   *)
(* one has admitted nothing that is.                                        *)
Recent(a) == IF a \in DOMAIN rate THEN Within(rate[a], now) ELSE {}

RateInv ==
    /\ DOMAIN rate \subseteq Addresses
    /\ \A a \in DOMAIN rate :
          /\ rate[a] \in SUBSET Stamps /\ IsFiniteSet(rate[a])
          /\ Numbered(rate[a])
    /\ log \in [Addresses -> SUBSET Stamps]
    /\ \A a \in Addresses : IsFiniteSet(log[a]) /\ Within(log[a], now) = Recent(a)
    /\ RateIsLimited

(* What retain leaves of a window: a part, and less of it at a later time.  *)
LEMMA WithinIs ==
    ASSUME NEW window \in SUBSET Stamps, IsFiniteSet(window),
           NEW t \in Int, NEW u \in Int, t <= u
    PROVE  /\ Within(window, t) \in SUBSET Stamps /\ IsFiniteSet(Within(window, t))
           /\ Within(Within(window, t), u) = Within(window, u)
           /\ Within(window, u) \subseteq Within(window, t)
           /\ Cardinality(Within(window, u)) \in Nat
           /\ Cardinality(Within(window, t)) \in Nat
           /\ Cardinality(Within(window, u)) <= Cardinality(Within(window, t))
           /\ Numbered(window) => Numbered(Within(window, t))
<1>1. Within(window, t) \in SUBSET window
  BY DEF Within
<1>2. \A s \in window : s[1] \in Int
  BY DEF Stamps, Times
<1>3. Within(window, u) \in SUBSET Within(window, t)
  BY <1>2, SigninAssumption DEF Within
<1>4. Within(Within(window, t), u) = Within(window, u)
  BY <1>2, SigninAssumption DEF Within
<1>5. IsFiniteSet(Within(window, t))
  BY <1>1, FS_Subset
<1>6. /\ Cardinality(Within(window, u)) <= Cardinality(Within(window, t))
      /\ Cardinality(Within(window, u)) \in Nat /\ Cardinality(Within(window, t)) \in Nat
  BY <1>3, <1>5, FS_Subset, FS_CardinalityType
<1>7. ASSUME Numbered(window)
      PROVE  Numbered(Within(window, t))
  <2> SUFFICES ASSUME NEW s \in Within(window, t)
               PROVE  s[2] < Cardinality({q \in Within(window, t) : q[1] = s[1]})
    BY DEF Numbered
  <2>1. {q \in Within(window, t) : q[1] = s[1]} = {q \in window : q[1] = s[1]}
    BY DEF Within
  <2>2. QED
    BY <1>1, <1>7, <2>1 DEF Numbered
<1>8. QED
  BY <1>1, <1>3, <1>4, <1>5, <1>6, <1>7

(* check_and_record pushes one more: the number of the request is not taken. *)
LEMMA StampIsNew ==
    ASSUME now \in Times, NEW window \in SUBSET Stamps, IsFiniteSet(window), Numbered(window)
    PROVE  /\ Stamp(window) \notin window /\ Stamp(window) \in Stamps
           /\ Stamp(window)[1] = now
           /\ Numbered(window \cup {Stamp(window)})
<1> DEFINE At(t) == {q \in window : q[1] = t}
<1>1. \A t : IsFiniteSet(At(t)) /\ Cardinality(At(t)) \in Nat
  <2>1. \A t : At(t) \in SUBSET window
    OBVIOUS
  <2>2. QED
    BY <2>1, FS_Subset, FS_CardinalityType
<1>2. PICK c \in Nat : c = Cardinality(At(now))
  BY <1>1
<1>3. PICK x : x = Stamp(window)
  OBVIOUS
<1>4. x = <<now, c>> /\ x[1] = now /\ x[2] = c /\ x \in Stamps
  BY <1>2, <1>3 DEF Stamp, Stamps
<1>5. \A s \in window : s[2] \in Nat /\ s[2] < Cardinality(At(s[1]))
  BY DEF Numbered, Stamps
<1>6. PICK here : here = At(now)
  OBVIOUS
<1>7. x \notin window
  <2> SUFFICES ASSUME x \in window PROVE FALSE
    OBVIOUS
  <2>1. x[2] < Cardinality(At(x[1]))
    BY <1>5
  <2>2. QED
    BY <1>2, <1>4, <2>1
<1>8. {q \in window \cup {x} : q[1] = now} = here \cup {x}
  BY <1>4, <1>6
<1>9. Cardinality({q \in window \cup {x} : q[1] = now}) = c + 1
  <2>1. x \notin here /\ IsFiniteSet(here) /\ Cardinality(here) = c
    BY <1>1, <1>2, <1>6, <1>7
  <2>2. Cardinality(here \cup {x}) = Cardinality(here) + 1
    BY <2>1, FS_AddElement
  <2>3. QED
    BY <1>8, <2>1, <2>2
<1>10. ASSUME NEW s \in window \cup {x}
       PROVE  s[2] < Cardinality({q \in window \cup {x} : q[1] = s[1]})
  <2>1. CASE s = x
    <3>1. s[2] = c /\ s[1] = now
      BY <1>4, <2>1
    <3>2. QED
      BY <1>9, <3>1
  <2>2. CASE s \in window /\ s[1] = now
    <3>1. s[2] \in Nat /\ s[2] < c
      BY <1>2, <1>5, <2>2
    <3>2. QED
      BY <1>9, <2>2, <3>1
  <2>3. CASE s \in window /\ s[1] # now
    <3>1. {q \in window \cup {x} : q[1] = s[1]} = At(s[1])
      BY <1>4, <2>3
    <3>2. QED
      BY <1>5, <2>3, <3>1
  <2>4. QED
    BY <2>1, <2>2, <2>3
<1>11. Numbered(window \cup {x})
  BY <1>10 DEF Numbered
<1>12. QED
  BY <1>3, <1>4, <1>7, <1>11

(* At the start nothing has been admitted.                                  *)
LEMMA RateInvInit == Init => RateInv
<1> SUFFICES ASSUME Init PROVE RateInv
  OBVIOUS
<1>1. DOMAIN rate = {} /\ \A a \in Addresses : log[a] = {}
  BY DEF Init
<1>2. log \in [Addresses -> SUBSET Stamps]
  BY DEF Init
<1>3. Within({}, now) = {}
  BY DEF Within
<1>4. \A a \in Addresses : IsFiniteSet(log[a]) /\ Within(log[a], now) = Recent(a)
  BY <1>1, <1>3, FS_EmptySet DEF Recent
<1>5. RateIsLimited
  <2>1. \A a \in Addresses : Within(log[a], now) = {}
    BY <1>1, <1>3
  <2>2. Cardinality({}) <= RateLimit
    BY FS_EmptySet, SigninAssumption
  <2>3. QED
    BY <2>1, <2>2 DEF RateIsLimited
<1>6. QED
  BY <1>1, <1>2, <1>4, <1>5 DEF RateInv

(* What making room leaves: of the windows a part, and an address that has  *)
(* one keeps all of them.                                                   *)
LEMMA RoomForAddressKeeps ==
    ASSUME StoresHaveType, StoresAreBounded, NEW a, NEW room \in RoomForAddress(a)
    PROVE  /\ DOMAIN room \subseteq DOMAIN rate
           /\ \A x \in DOMAIN room : room[x] = rate[x]
           /\ a \in DOMAIN rate => room = rate
<1>1. CASE a \in DOMAIN rate \/ Cardinality(DOMAIN rate) < MaxWindows
  BY <1>1 DEF RoomForAddress
<1>2. CASE ~(a \in DOMAIN rate \/ Cardinality(DOMAIN rate) < MaxWindows)
  <2>1. PICK kept \in Evictions(RateRanks(rate), MaxWindows - 1) : room = Keep(rate, kept)
    BY <1>2 DEF RoomForAddress
  <2>2. kept \subseteq DOMAIN rate
    BY DEF Evictions, RateRanks
  <2>3. QED
    BY <1>2, <2>1, <2>2, KeepIs
<1>3. QED
  BY <1>1, <1>2

(* A request is answered: its address has a window of what is recent, with  *)
(* the request if it is admitted, and its history has the same.             *)
LEMMA AdmitKeepsRate ==
    ASSUME Inv, RateInv, NEW a \in Addresses, NEW admitted \in BOOLEAN,
           Admit(a, admitted), now' = now
    PROVE  RateInv'
<1> USE DEF Inv
<1>0. now \in Times /\ now \in Int
  BY SigninAssumption DEF StoresHaveType, Times
<1>1. PICK room \in RoomForAddress(a) :
        LET times == Within(IF a \in DOMAIN room THEN room[a] ELSE {}, now)
            new == IF admitted THEN {Stamp(times)} ELSE {}
        IN /\ admitted <=> Cardinality(times) < RateLimit
           /\ rate' = Put(room, a, times \cup new)
           /\ log' = [b \in Addresses |->
                        IF b \in DOMAIN rate \ DOMAIN room THEN {}
                        ELSE IF b = a /\ admitted THEN Within(log[b], now) \cup new
                        ELSE log[b]]
  BY DEF Admit
<1>2. /\ DOMAIN room \subseteq DOMAIN rate
      /\ \A x \in DOMAIN room : room[x] = rate[x]
      /\ a \in DOMAIN rate => room = rate
  BY RoomForAddressKeeps
<1>3. PICK times : times = Recent(a)
  OBVIOUS
<1>4. times = Within(IF a \in DOMAIN room THEN room[a] ELSE {}, now)
  <2>1. Within({}, now) = {}
    BY DEF Within
  <2>2. QED
    BY <1>2, <1>3, <2>1 DEF Recent
<1>5. PICK new : new = IF admitted THEN {Stamp(times)} ELSE {}
  OBVIOUS
<1>6. /\ admitted <=> Cardinality(times) < RateLimit
      /\ rate' = Put(room, a, times \cup new)
      /\ log' = [b \in Addresses |->
                   IF b \in DOMAIN rate \ DOMAIN room THEN {}
                   ELSE IF b = a /\ admitted THEN Within(log[b], now) \cup new
                   ELSE log[b]]
  BY <1>1, <1>4, <1>5
<1>7. /\ times \in SUBSET Stamps /\ IsFiniteSet(times) /\ Numbered(times)
      /\ times = Within(log[a], now) /\ Cardinality(times) \in Nat
      /\ Cardinality(times) <= RateLimit
      /\ Within(times, now) = times
  <2>1. times = Within(log[a], now)
    BY <1>3 DEF RateInv
  <2>2. log[a] \in SUBSET Stamps /\ IsFiniteSet(log[a])
    BY DEF RateInv
  <2>3. /\ times \in SUBSET Stamps /\ IsFiniteSet(times) /\ Cardinality(times) \in Nat
        /\ Within(times, now) = times
    BY <1>0, <2>1, <2>2, WithinIs
  <2>4. Numbered(times)
    <3>1. CASE a \in DOMAIN rate
      <4>1. rate[a] \in SUBSET Stamps /\ IsFiniteSet(rate[a]) /\ Numbered(rate[a])
        BY <3>1 DEF RateInv
      <4>2. times = Within(rate[a], now)
        BY <1>3, <3>1 DEF Recent
      <4>3. QED
        BY <1>0, <4>1, <4>2, WithinIs
    <3>2. CASE a \notin DOMAIN rate
      BY <1>3, <3>2 DEF Recent, Numbered
    <3>3. QED
      BY <3>1, <3>2
  <2>5. Cardinality(times) <= RateLimit
    BY <2>1 DEF RateInv, RateIsLimited
  <2>6. QED
    BY <2>1, <2>3, <2>4, <2>5
<1>8. PICK w : w = times \cup new
  OBVIOUS
<1>9. /\ w \in SUBSET Stamps /\ IsFiniteSet(w) /\ Numbered(w)
      /\ Within(w, now) = w /\ Cardinality(w) <= RateLimit
  <2>1. CASE admitted
    <3>1. w = times \cup {Stamp(times)}
      BY <1>5, <1>8, <2>1
    <3>2. /\ Stamp(times) \notin times /\ Stamp(times) \in Stamps
          /\ Stamp(times)[1] = now /\ Numbered(w)
      BY <1>0, <1>7, <3>1, StampIsNew
    <3>3. IsFiniteSet(w) /\ Cardinality(w) = Cardinality(times) + 1
      BY <1>7, <3>1, <3>2, FS_AddElement
    <3>4. Within(w, now) = w
      BY <1>0, <1>7, <3>1, <3>2, SigninAssumption DEF Within
    <3>5. Cardinality(w) <= RateLimit
      BY <1>6, <1>7, <2>1, <3>3, SigninAssumption
    <3>6. QED
      BY <1>7, <3>1, <3>2, <3>3, <3>4, <3>5
  <2>2. CASE ~admitted
    <3>1. w = times
      BY <1>5, <1>8, <2>2
    <3>2. QED
      BY <1>7, <3>1
  <2>3. QED
    BY <2>1, <2>2
<1>10. /\ DOMAIN rate' = DOMAIN room \cup {a}
       /\ rate'[a] = w
       /\ \A b \in DOMAIN room \ {a} : rate'[b] = rate[b]
  BY <1>2, <1>6, <1>8 DEF Put
<1>11. ASSUME NEW b \in DOMAIN rate'
       PROVE  /\ b \in Addresses /\ rate'[b] \in SUBSET Stamps
              /\ IsFiniteSet(rate'[b]) /\ Numbered(rate'[b])
  <2>1. CASE b = a
    BY <1>9, <1>10, <2>1
  <2>2. CASE b # a
    <3>1. b \in DOMAIN rate /\ rate'[b] = rate[b]
      BY <1>2, <1>10, <2>2
    <3>2. QED
      BY <3>1 DEF RateInv
  <2>3. QED
    BY <2>1, <2>2
<1>12. ASSUME NEW b \in Addresses
       PROVE  /\ log'[b] \in SUBSET Stamps /\ IsFiniteSet(log'[b])
              /\ Within(log'[b], now) = IF b \in DOMAIN rate' THEN Within(rate'[b], now) ELSE {}
              /\ Cardinality(Within(log'[b], now)) <= RateLimit
  <2>0. /\ log[b] \in SUBSET Stamps /\ IsFiniteSet(log[b])
        /\ Within(log[b], now) = Recent(b)
        /\ Cardinality(Within(log[b], now)) <= RateLimit
    BY DEF RateInv, RateIsLimited
  <2>1. CASE b = a /\ admitted
    <3>1. log'[b] = w
      BY <1>2, <1>6, <1>7, <1>8, <2>1
    <3>2. QED
      BY <1>9, <1>10, <2>1, <3>1
  <2>2. CASE b = a /\ ~admitted
    <3>1. log'[b] = log[b]
      BY <1>2, <1>6, <2>2
    <3>2. w = times
      BY <1>5, <1>8, <2>2
    <3>3. QED
      BY <1>7, <1>10, <2>0, <2>2, <3>1, <3>2
  <2>3. CASE b # a /\ b \in DOMAIN rate \ DOMAIN room
    <3>1. log'[b] = {} /\ b \notin DOMAIN rate'
      BY <1>6, <1>10, <2>3
    <3>2. Within({}, now) = {}
      BY DEF Within
    <3>3. QED
      BY <3>1, <3>2, FS_EmptySet, SigninAssumption
  <2>4. CASE b # a /\ b \notin DOMAIN rate \ DOMAIN room
    <3>1. log'[b] = log[b]
      BY <1>6, <2>4
    <3>2. /\ b \in DOMAIN rate' <=> b \in DOMAIN rate
          /\ b \in DOMAIN rate => rate'[b] = rate[b]
      BY <1>2, <1>10, <2>4
    <3>3. QED
      BY <2>0, <3>1, <3>2 DEF Recent
  <2>5. QED
    BY <2>1, <2>2, <2>3, <2>4
<1>13. log' \in [Addresses -> SUBSET Stamps]
  <2>1. log' = [b \in Addresses |-> log'[b]]
    BY <1>6
  <2>2. QED
    BY <1>12, <2>1
<1>14. RateIsLimited'
  BY <1>12 DEF RateIsLimited
<1>15. QED
  BY <1>11, <1>12, <1>13, <1>14 DEF RateInv, Recent, Stamps

(* The clock moves on: what is recent then is part of what is recent now.   *)
LEMMA TickKeepsRate ==
    ASSUME Inv, RateInv, Tick
    PROVE  RateInv'
<1>1. /\ now \in Int /\ now' \in Int /\ now <= now' /\ UNCHANGED <<rate, log>>
  BY SigninAssumption DEF Tick, Inv, StoresHaveType, Times
<1>2. PICK t \in Int : t = now'
  BY <1>1
<1>3. ASSUME NEW a \in Addresses
      PROVE  /\ Within(log[a], t) = IF a \in DOMAIN rate THEN Within(rate[a], t) ELSE {}
             /\ Cardinality(Within(log[a], t)) <= RateLimit
  <2>1. /\ log[a] \in SUBSET Stamps /\ IsFiniteSet(log[a])
        /\ Within(log[a], now) = Recent(a)
        /\ Cardinality(Within(log[a], now)) <= RateLimit
    BY DEF RateInv, RateIsLimited
  <2>2. /\ Within(Within(log[a], now), t) = Within(log[a], t)
        /\ Cardinality(Within(log[a], t)) \in Nat
        /\ Cardinality(Within(log[a], now)) \in Nat
        /\ Cardinality(Within(log[a], t)) <= Cardinality(Within(log[a], now))
    BY <1>1, <1>2, <2>1, WithinIs
  <2>3. Within(Recent(a), t) = IF a \in DOMAIN rate THEN Within(rate[a], t) ELSE {}
    <3>1. CASE a \in DOMAIN rate
      <4>1. rate[a] \in SUBSET Stamps /\ IsFiniteSet(rate[a])
        BY <3>1 DEF RateInv
      <4>2. Within(Within(rate[a], now), t) = Within(rate[a], t)
        BY <1>1, <1>2, <4>1, WithinIs
      <4>3. QED
        BY <3>1, <4>2 DEF Recent
    <3>2. CASE a \notin DOMAIN rate
      BY <3>2 DEF Recent, Within
    <3>3. QED
      BY <3>1, <3>2
  <2>4. QED
    BY <2>1, <2>2, <2>3, SigninAssumption
<1>4. RateIsLimited'
  BY <1>1, <1>2, <1>3 DEF RateIsLimited
<1>5. \A a \in Addresses : IsFiniteSet(log'[a]) /\ Within(log'[a], now') = Recent(a)'
  BY <1>1, <1>2, <1>3 DEF RateInv, Recent
<1>6. QED
  BY <1>1, <1>4, <1>5 DEF RateInv, Stamps

(* RateLimitStore::cleanup drops what is no longer recent, and no more: the *)
(* store is within its limit already.                                       *)
LEMMA CleanRateKeepsRate ==
    ASSUME Inv, RateInv, CleanRate
    PROVE  RateInv'
<1> USE DEF Inv
<1> DEFINE recent == [a \in DOMAIN rate |-> Within(rate[a], now)]
           kept == {a \in DOMAIN rate : recent[a] # {}}
<1>0. now \in Int /\ UNCHANGED <<now, log>>
  BY SigninAssumption DEF CleanRate, StoresHaveType, Times
<1>1. PICK left \in Evictions(RateRanks(Keep(recent, kept)), MaxWindows) :
          rate' = Keep(recent, left)
  BY DEF CleanRate
<1>2. kept \subseteq DOMAIN rate /\ IsFiniteSet(kept)
  <2>1. kept \in SUBSET DOMAIN rate /\ IsFiniteSet(DOMAIN rate)
    BY DEF StoresHaveType
  <2>2. QED
    BY <2>1, FS_Subset
<1>3. Cardinality(kept) \in Nat /\ ~(Cardinality(kept) > MaxWindows)
  <2>1. kept \in SUBSET DOMAIN rate /\ IsFiniteSet(DOMAIN rate)
    BY DEF StoresHaveType
  <2>2. /\ Cardinality(kept) <= Cardinality(DOMAIN rate)
        /\ Cardinality(kept) \in Nat /\ Cardinality(DOMAIN rate) \in Nat
    BY <1>2, <2>1, FS_Subset, FS_CardinalityType
  <2>3. QED
    BY <2>2, SigninAssumption DEF StoresAreBounded
<1>4. \A a \in DOMAIN rate : recent[a] = Within(rate[a], now)
  OBVIOUS
<1>5. \A a \in DOMAIN rate : a \in kept <=> Within(rate[a], now) # {}
  OBVIOUS
<1> HIDE DEF kept, recent
<1>6. DOMAIN RateRanks(Keep(recent, kept)) = kept
  BY KeepIs DEF RateRanks
<1>7. left = kept
  <2>1. left \in SUBSET kept /\ Cardinality(left) = Cardinality(kept)
    BY <1>1, <1>3, <1>6 DEF Evictions
  <2>2. QED
    BY <1>2, <2>1, FS_Subset
<1>8. DOMAIN rate' = kept /\ \A a \in kept : rate'[a] = Within(rate[a], now)
  BY <1>1, <1>2, <1>4, <1>7, KeepIs
<1>9. ASSUME NEW a \in DOMAIN rate
      PROVE  /\ a \in Addresses
             /\ Within(rate[a], now) \in SUBSET Stamps
             /\ IsFiniteSet(Within(rate[a], now)) /\ Numbered(Within(rate[a], now))
             /\ Within(Within(rate[a], now), now) = Within(rate[a], now)
  <2>1. /\ a \in Addresses /\ rate[a] \in SUBSET Stamps /\ IsFiniteSet(rate[a])
        /\ Numbered(rate[a])
    BY DEF RateInv
  <2>2. QED
    BY <1>0, <2>1, WithinIs
<1>10. \A a \in DOMAIN rate' :
         /\ a \in Addresses /\ rate'[a] \in SUBSET Stamps
         /\ IsFiniteSet(rate'[a]) /\ Numbered(rate'[a])
  BY <1>2, <1>8, <1>9
<1>11. ASSUME NEW a \in Addresses
       PROVE  Within(log'[a], now') = Recent(a)'
  <2>1. Within(log'[a], now') = Recent(a)
    BY <1>0 DEF RateInv
  <2>2. CASE a \in kept
    BY <1>0, <1>2, <1>8, <1>9, <2>1, <2>2 DEF Recent
  <2>3. CASE a \notin kept
    BY <1>0, <1>5, <1>8, <2>1, <2>3 DEF Recent
  <2>4. QED
    BY <2>2, <2>3
<1>12. RateIsLimited'
  BY <1>0 DEF RateInv, RateIsLimited, Within
<1>13. \A a \in Addresses : IsFiniteSet(log'[a])
  BY <1>0 DEF RateInv
<1>14. log' \in [Addresses -> SUBSET Stamps]
  BY <1>0 DEF RateInv
<1>15. QED
  BY <1>10, <1>11, <1>12, <1>13, <1>14 DEF RateInv, Stamps

(* Every step keeps windows and history in step.                            *)
LEMMA RateInvNext == Inv /\ RateInv /\ [Next]_vars => RateInv'
<1> SUFFICES ASSUME Inv, RateInv, [Next]_vars PROVE RateInv'
  OBVIOUS
<1>1. CASE UNCHANGED <<now, rate, log>>
  BY <1>1 DEF RateInv, RateIsLimited, Recent, Within, Numbered, Stamps
<1>2. CASE Tick
  BY <1>2, TickKeepsRate
<1>3. CASE CleanRate
  BY <1>3, CleanRateKeepsRate
<1>4. CASE Restart
  <2>1. DOMAIN rate' = {} /\ log' = [a \in Addresses |-> {}]
    BY <1>4 DEF Restart
  <2>2. Within({}, now') = {}
    BY DEF Within
  <2>3. \A a \in Addresses : IsFiniteSet(log'[a]) /\ Within(log'[a], now') = Recent(a)'
    BY <2>1, <2>2, FS_EmptySet DEF Recent
  <2>4. RateIsLimited'
    BY <2>1, <2>2, FS_EmptySet, SigninAssumption DEF RateIsLimited
  <2>5. log' \in [Addresses -> SUBSET Stamps]
    BY <2>1
  <2>6. QED
    BY <2>1, <2>3, <2>4, <2>5 DEF RateInv, Stamps
<1>5. ASSUME NEW a \in Addresses, PassBy(a)
      PROVE  RateInv'
  BY <1>5, AdmitKeepsRate DEF PassBy
<1>6. ASSUME NEW w \in Workers, NEW k \in Keys, Refuse(w, k) \/ Arrive(w, k)
      PROVE  RateInv'
  <2>1. PICK a \in Addresses : a = AddressOf[k]
    BY SigninAssumption
  <2>2. PICK admitted \in BOOLEAN : Admit(a, admitted)
    BY <1>6, <2>1 DEF Refuse, Arrive
  <2>3. now' = now
    BY <1>6 DEF Refuse, Arrive
  <2>4. QED
    BY <2>2, <2>3, AdmitKeepsRate
<1>7. QED
  BY <1>1, <1>2, <1>3, <1>4, <1>5, <1>6
     DEF Next, vars, CleanLockout, IsLocked, Verify, RecordFailure, Clear

(* Both stores' invariants together, and the cleanup thread's place. *)
LEMMA SigninInvariance == Spec => [](Inv /\ RateInv /\ janitor \in {"lockout", "rate"})
<1> DEFINE Cleaning == janitor \in {"lockout", "rate"}
<1>1. Init => Inv /\ RateInv /\ Cleaning
  BY InvInit, RateInvInit DEF Init
<1>2. Cleaning /\ [Next]_vars => Cleaning'
  BY DEF Next, vars, Tick, CleanLockout, CleanRate, Restart, PassBy, Refuse, Arrive,
         IsLocked, Verify, RecordFailure, Clear
<1>3. Inv /\ RateInv /\ Cleaning /\ [Next]_vars => (Inv /\ RateInv /\ Cleaning)'
  BY <1>2, InvNext, RateInvNext
<1>4. QED
  BY <1>1, <1>3, PTL DEF Spec

(* Both stores, the handlers' places and the history keep their types.      *)
THEOREM TypeCorrect == Spec => []TypeOK
<1>1. Inv /\ RateInv /\ janitor \in {"lockout", "rate"} => TypeOK
  BY DEF Inv, StoresHaveType, RateInv, TypeOK
<1>2. QED
  BY <1>1, SigninInvariance, PTL

(* stores.rs check_and_record, retain - however the requests of an address  *)
(* come, no more than the limit of them are admitted in a span of the       *)
(* window, unless its window is evicted.                                    *)
THEOREM RatesStayLimited == Spec => []RateIsLimited
<1>1. Inv /\ RateInv /\ janitor \in {"lockout", "rate"} => RateIsLimited
  BY DEF RateInv
<1>2. QED
  BY <1>1, SigninInvariance, PTL
==============================================================================

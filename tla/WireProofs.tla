------------------------------ MODULE WireProofs ------------------------------
(***************************************************************************)
(* Theorems about the modules that Wire composes and that keep state.       *)
(*                                                                          *)
(* Module Framing, for any limits, any script of messages that a client     *)
(* may send, any cut of its bytes into reads, any point at which it stops,  *)
(* and any answers of the handler.  FramingInv says where the connection    *)
(* is: which messages were served, and of the one being read what the       *)
(* parser keeps and what is still to come.  That the latter two are the     *)
(* message from some point on is what makes the parser independent of the   *)
(* reads.  OutInv says that a client which reads all that was written is    *)
(* at the end of an answer.                                                 *)
(*                                                                          *)
(* Module Digest, for any messages in any pieces: DigestInv says that the   *)
(* blocks compressed, and what counts of the buffer, are what was fed.      *)
(*                                                                          *)
(* Module Calendar, for every day and second from 1970 on: the date is the  *)
(* Gregorian calendar's.                                                    *)
(*                                                                          *)
(* Sequences are flattened, and bytes read, by recursive functions: what    *)
(* they do is proved by induction, which rests on the least element of a    *)
(* set of numbers.                                                          *)
(***************************************************************************)
EXTENDS Framing, Digest, Calendar, FiniteSetTheorems, SequenceTheorems, WellFoundedInduction,
        TLAPS

------------------------------------------------------------------------------
(* Numbers: a least element, and induction. *)

(* A set of numbers that is not empty has a least element. *)
LEMMA LeastNumber ==
    ASSUME NEW S \in SUBSET Nat, S # {}
    PROVE  \E n \in S : \A m \in S : n <= m
<1> DEFINE R == {ss \in Nat \X Nat : ss[1] < ss[2]}
<1>1. R = OpToRel(<, Nat)
  BY Zenon DEF OpToRel
<1>2. IsWellFoundedOn(R, Nat)
  BY <1>1, NatLessThanWellFounded, Zenon
<1>3. PICK x \in S : \A y \in S : ~ (<<y, x>> \in R)
  <2> HIDE DEF R
  <2> QED BY <1>2, WFMin, Zenon
<1>4. ASSUME NEW y \in S PROVE x <= y
  <2>1. <<y, x>> \in R <=> y < x
    OBVIOUS
  <2> QED BY <1>3, <2>1
<1> QED BY <1>4

(* Induction, with a set in the place of a predicate, ... *)
LEMMA NatInd ==
    ASSUME NEW S, 0 \in S, \A n \in Nat : n \in S => n + 1 \in S
    PROVE  Nat \subseteq S
<1> SUFFICES ASSUME Nat \ S # {} PROVE FALSE
  OBVIOUS
<1>1. PICK n \in Nat \ S : \A m \in Nat \ S : n <= m
  BY LeastNumber
<1>2. n - 1 \in Nat /\ n - 1 \notin Nat \ S
  BY <1>1
<1> QED BY <1>1, <1>2

(* ... and induction up to a bound. *)
LEMMA IndUpTo ==
    ASSUME NEW N \in Nat, NEW S, 0 \in S, \A n \in Nat : n < N /\ n \in S => n + 1 \in S
    PROVE  0..N \subseteq S
<1> DEFINE U == {n \in Nat : n <= N => n \in S}
<1>1. 0 \in U
  OBVIOUS
<1>2. \A n \in Nat : n \in U => n + 1 \in U
  OBVIOUS
<1>3. Nat \subseteq U
  <2> HIDE DEF U
  <2> QED BY <1>1, <1>2, NatInd
<1> QED BY <1>3

------------------------------------------------------------------------------
(* Sequences of sequences: FlattenSeq, and its parts. *)

(* The running sums of the first n parts of s. *)
Sums(s, n, f) ==
    /\ f = [i \in 1..n |-> f[i]]
    /\ \A i \in 1..n : f[i] = IF i = 1 THEN s[i] ELSE f[i - 1] \o s[i]

(* Running sums are what the recursive function of FlattenSeq is. *)
LEMMA SumsEquation ==
    ASSUME NEW s, NEW n, NEW f
    PROVE  f = [i \in 1..n |-> IF i = 1 THEN s[i] ELSE f[i - 1] \o s[i]] <=> Sums(s, n, f)
<1> DEFINE e(i) == IF i = 1 THEN s[i] ELSE f[i - 1] \o s[i]
<1> SUFFICES f = [i \in 1..n |-> e(i)] <=> Sums(s, n, f)
  BY Zenon
<1>0. Sums(s, n, f) <=> f = [i \in 1..n |-> f[i]] /\ \A i \in 1..n : f[i] = e(i)
  BY DEF Sums
<1> HIDE DEF e
<1>1. QED
  BY <1>0

(* There are running sums of any number of parts. *)
LEMMA SumsExist ==
    ASSUME NEW s PROVE \A n \in Nat : \E f : Sums(s, n, f)
<1> DEFINE S == {n \in Nat : \E f : Sums(s, n, f)}
<1>1. 0 \in S
  <2>1. Sums(s, 0, <<>>)
    BY DEF Sums
  <2> QED BY <2>1
<1>2. ASSUME NEW n \in Nat, n \in S PROVE n + 1 \in S
  <2>1. PICK f : Sums(s, n, f)
    BY <1>2
  <2> DEFINE g == [i \in 1..(n + 1) |-> IF i <= n THEN f[i]
                                       ELSE IF n = 0 THEN s[1] ELSE f[n] \o s[n + 1]]
  <2>2. ASSUME NEW i \in 1..(n + 1)
        PROVE  g[i] = IF i = 1 THEN s[i] ELSE g[i - 1] \o s[i]
    <3>1. CASE i <= n
      <4>0. i \in 1..n
        BY <3>1
      <4>1. f[i] = IF i = 1 THEN s[i] ELSE f[i - 1] \o s[i]
        BY <2>1, <4>0, Zenon DEF Sums
      <4> QED BY <4>1, <3>1
    <3>2. CASE i = n + 1
      BY <3>2
    <3> QED BY <3>1, <3>2
  <2>3. g = [i \in 1..(n + 1) |-> g[i]]
    OBVIOUS
  <2>4. Sums(s, n + 1, g)
    <3> HIDE DEF g
    <3> QED BY <2>2, <2>3 DEF Sums
  <2> QED BY <2>4
<1>3. Nat \subseteq S
  <2> HIDE DEF S
  <2> QED BY <1>1, <1>2, NatInd
<1> QED BY <1>3

(* A sequence that is flattened is the last of its running sums. *)
LEMMA FlatDef ==
    ASSUME NEW s, Len(s) \in Nat, Len(s) # 0
    PROVE  \E f : Sums(s, Len(s), f) /\ FlattenSeq(s) = f[Len(s)]
<1> DEFINE n == Len(s)
           E(f) == f = [i \in 1..n |-> IF i = 1 THEN s[i] ELSE f[i - 1] \o s[i]]
           F == CHOOSE f : E(f)
<1>1. \E f : E(f)
  <2>1. PICK f : Sums(s, n, f)
    BY SumsExist
  <2>2. E(f)
    BY <2>1, SumsEquation, Zenon
  <2> QED BY <2>2
<1>2. E(F)
  <2> HIDE DEF E
  <2> QED BY <1>1
<1>3. Sums(s, n, F)
  <2> HIDE DEF F
  <2> QED BY <1>2, SumsEquation
<1>4. FlattenSeq(s) = F[n]
  BY Zenon DEF FlattenSeq
<1> QED BY <1>3, <1>4

(* Running sums agree as long as their sequences do. *)
LEMMA SumsAgree ==
    ASSUME NEW s, NEW t, NEW f, NEW g, NEW n \in Nat, NEW l \in Nat, l <= n,
           Sums(s, l, f), Sums(t, n, g), \A i \in 1..l : s[i] = t[i]
    PROVE  \A i \in 1..l : f[i] = g[i]
<1> DEFINE S == {i \in Nat : i \in 1..l => f[i] = g[i]}
<1>1. 0 \in S
  OBVIOUS
<1>2. ASSUME NEW i \in Nat, i \in S PROVE i + 1 \in S
  <2> SUFFICES ASSUME i + 1 \in 1..l PROVE f[i + 1] = g[i + 1]
    OBVIOUS
  <2>0. i + 1 \in 1..n /\ (i + 1) - 1 = i
    OBVIOUS
  <2>1. f[i + 1] = IF i + 1 = 1 THEN s[i + 1] ELSE f[(i + 1) - 1] \o s[i + 1]
    BY Zenon DEF Sums
  <2>2. g[i + 1] = IF i + 1 = 1 THEN t[i + 1] ELSE g[(i + 1) - 1] \o t[i + 1]
    BY <2>0, Zenon DEF Sums
  <2>3. i # 0 => f[i] = g[i]
    BY <1>2
  <2> QED BY <2>1, <2>2, <2>3
<1>3. Nat \subseteq S
  <2> HIDE DEF S
  <2> QED BY <1>1, <1>2, NatInd
<1> QED BY <1>3

LEMMA FlatEmpty == FlattenSeq(<<>>) = <<>>
BY DEF FlattenSeq

(* A longer sequence has the running sums of a shorter one, and more. *)
LEMMA FlatLonger ==
    ASSUME NEW s, NEW t, Len(s) \in Nat, Len(t) \in Nat, Len(t) = Len(s) + 1,
           \A i \in 1..Len(s) : s[i] = t[i]
    PROVE  FlattenSeq(t) = IF Len(t) = 1 THEN t[1] ELSE FlattenSeq(s) \o t[Len(t)]
<1>1. PICK g : Sums(t, Len(t), g) /\ FlattenSeq(t) = g[Len(t)]
  BY FlatDef
<1>2. g[Len(t)] = IF Len(t) = 1 THEN t[Len(t)] ELSE g[Len(t) - 1] \o t[Len(t)]
  <2>1. Len(t) \in 1..Len(t)
    OBVIOUS
  <2> QED BY <2>1, <1>1, Zenon DEF Sums
<1>3. CASE Len(s) = 0
  BY <1>1, <1>2, <1>3
<1>4. CASE Len(s) # 0
  <2>1. PICK f : Sums(s, Len(s), f) /\ FlattenSeq(s) = f[Len(s)]
    BY <1>4, FlatDef
  <2>2. Len(s) <= Len(t)
    OBVIOUS
  <2>3. \A i \in 1..Len(s) : f[i] = g[i]
    BY <1>1, <2>1, <2>2, SumsAgree
  <2>4. f[Len(s)] = g[Len(t) - 1]
    BY <1>4, <2>3
  <2> QED BY <1>1, <1>2, <1>4, <2>1, <2>4
<1> QED BY <1>3, <1>4

(* One more part is one more at the end. *)
LEMMA FlatAppend ==
    ASSUME NEW T, NEW s \in Seq(Seq(T)), NEW x \in Seq(T)
    PROVE  FlattenSeq(Append(s, x)) = FlattenSeq(s) \o x
<1> DEFINE t == Append(s, x)
<1>1. /\ Len(t) = Len(s) + 1 /\ Len(t) \in Nat /\ Len(s) \in Nat
      /\ t[Len(t)] = x
  OBVIOUS
<1>2. \A i \in 1..Len(s) : s[i] = t[i]
  OBVIOUS
<1> HIDE DEF t
<1>3. FlattenSeq(t) = IF Len(t) = 1 THEN t[1] ELSE FlattenSeq(s) \o t[Len(t)]
  BY <1>1, <1>2, FlatLonger
<1>4. CASE Len(s) = 0
  <2>1. s = <<>>
    BY <1>4
  <2> QED BY <1>1, <1>3, <2>1, <1>4, FlatEmpty DEF t
<1>5. CASE Len(s) # 0
  BY <1>1, <1>3, <1>5 DEF t
<1> QED BY <1>4, <1>5

(* Concatenation. *)
Cat(a, b) == a \o b

(* Concatenation is that of sequences; its length is the sum; ... *)
LEMMA CatType ==
    ASSUME NEW T, NEW a \in Seq(T), NEW b \in Seq(T)
    PROVE  Cat(a, b) \in Seq(T) /\ Len(Cat(a, b)) = Len(a) + Len(b)
BY DEF Cat

(* ... it is associative, ... *)
LEMMA CatAssoc ==
    ASSUME NEW T, NEW a \in Seq(T), NEW b \in Seq(T), NEW c \in Seq(T)
    PROVE  Cat(Cat(a, b), c) = Cat(a, Cat(b, c))
BY ConcatAssociative DEF Cat

(* ... and an empty sequence changes nothing. *)
LEMMA CatEmpty ==
    ASSUME NEW T, NEW a \in Seq(T)
    PROVE  Cat(a, <<>>) = a /\ Cat(<<>>, a) = a
BY DEF Cat

(* A prefix of a given length, and what follows it, are unique. *)
LEMMA CatCancel ==
    ASSUME NEW T, NEW a \in Seq(T), NEW b \in Seq(T), NEW c \in Seq(T), NEW d \in Seq(T),
           Cat(a, b) = Cat(c, d), Len(a) = Len(c)
    PROVE  a = c /\ b = d
<1>1. PICK e : e = Cat(a, b) /\ e = Cat(c, d)
  OBVIOUS
<1>2. \A i \in 1..(Len(a) + Len(b)) : e[i] = IF i <= Len(a) THEN a[i] ELSE b[i - Len(a)]
  BY <1>1 DEF Cat
<1>3. \A i \in 1..(Len(c) + Len(d)) : e[i] = IF i <= Len(c) THEN c[i] ELSE d[i - Len(c)]
  BY <1>1 DEF Cat
<1>4. Len(b) = Len(d)
  <2>1. Len(e) = Len(a) + Len(b)
    BY <1>1, CatType
  <2>2. Len(e) = Len(c) + Len(d)
    BY <1>1, CatType
  <2> QED BY <2>1, <2>2
<1>5. ASSUME NEW i \in 1..Len(a) PROVE a[i] = c[i]
  <2>1. i \in 1..(Len(a) + Len(b)) /\ i \in 1..(Len(c) + Len(d)) /\ i <= Len(a)
    BY <1>4
  <2> QED BY <1>2, <1>3, <2>1
<1>6. ASSUME NEW i \in 1..Len(b) PROVE b[i] = d[i]
  <2>1. i + Len(a) \in 1..(Len(a) + Len(b)) /\ ~(i + Len(a) <= Len(a))
          /\ (i + Len(a)) - Len(a) = i
    OBVIOUS
  <2> QED BY <1>2, <1>3, <1>4, <2>1
<1>7. a = c
  BY <1>5, SeqEqual
<1>8. b = d
  BY <1>4, <1>6, SeqEqual
<1> QED BY <1>7, <1>8

(* The first n parts, and those after them. *)
UpTo(s, n) == FlattenSeq(SubSeq(s, 1, n))
From(s, n) == FlattenSeq(SubSeq(s, n + 1, Len(s)))

(* The next part: after those before it, ... *)
LEMMA UpToStep ==
    ASSUME NEW T, NEW s \in Seq(Seq(T)), NEW n \in Nat, n < Len(s)
    PROVE  UpTo(s, n + 1) = Cat(UpTo(s, n), s[n + 1])
<1>1. SubSeq(s, 1, n) \in Seq(Seq(T)) /\ s[n + 1] \in Seq(T)
  OBVIOUS
<1>2. SubSeq(s, 1, n + 1) = Append(SubSeq(s, 1, n), s[n + 1])
  OBVIOUS
<1> QED BY <1>1, <1>2, FlatAppend DEF UpTo, Cat

(* ... with none, and with all, of the parts. *)
LEMMA UpToEnds ==
    ASSUME NEW T, NEW s \in Seq(Seq(T))
    PROVE  UpTo(s, 0) = <<>> /\ UpTo(s, Len(s)) = FlattenSeq(s)
<1>1. SubSeq(s, 1, 0) = <<>> /\ SubSeq(s, 1, Len(s)) = s
  OBVIOUS
<1>2. UpTo(s, 0) = FlattenSeq(<<>>) /\ UpTo(s, Len(s)) = FlattenSeq(s)
  BY <1>1, Zenon DEF UpTo
<1> QED BY <1>2, FlatEmpty

(* A part is a sequence of the same things. *)
LEMMA PartType ==
    ASSUME NEW T, NEW s \in Seq(Seq(T)), NEW n \in Nat, n < Len(s)
    PROVE  s[n + 1] \in Seq(T)
OBVIOUS

(* The first parts are a sequence. *)
LEMMA UpToType ==
    ASSUME NEW T, NEW s \in Seq(Seq(T))
    PROVE  \A n \in 0..Len(s) : UpTo(s, n) \in Seq(T)
<1> DEFINE S == {n \in Nat : UpTo(s, n) \in Seq(T)}
<1>1. 0 \in S
  <2>1. <<>> \in Seq(T)
    OBVIOUS
  <2>2. UpTo(s, 0) \in Seq(T)
    BY <2>1, UpToEnds, Zenon
  <2> QED BY <2>2
<1>2. ASSUME NEW n \in Nat, n < Len(s), n \in S PROVE n + 1 \in S
  <2>1. UpTo(s, n) \in Seq(T)
    BY <1>2
  <2>2. UpTo(s, n + 1) = Cat(UpTo(s, n), s[n + 1]) /\ s[n + 1] \in Seq(T)
    BY <1>2, UpToStep, PartType
  <2>3. UpTo(s, n + 1) \in Seq(T)
    BY <2>1, <2>2, CatType
  <2> QED BY <2>3
<1>3. 0..Len(s) \subseteq S
  <2> HIDE DEF S
  <2>1. Len(s) \in Nat
    OBVIOUS
  <2> QED BY <1>1, <1>2, <2>1, IndUpTo
<1> QED BY <1>3

(* So is the whole. *)
LEMMA FlatType ==
    ASSUME NEW T, NEW s \in Seq(Seq(T))
    PROVE  FlattenSeq(s) \in Seq(T)
<1>1. Len(s) \in 0..Len(s)
  OBVIOUS
<1>2. UpTo(s, Len(s)) \in Seq(T)
  BY <1>1, UpToType
<1> QED BY <1>2, UpToEnds

(* One part more is one more at the beginning. *)
LEMMA FlatCons ==
    ASSUME NEW T, NEW s \in Seq(Seq(T)), NEW x \in Seq(T)
    PROVE  FlattenSeq(Cat(<<x>>, s)) = Cat(x, FlattenSeq(s))
<1> DEFINE P(n) == FlattenSeq(Cat(<<x>>, SubSeq(s, 1, n))) = Cat(x, UpTo(s, n))
<1>1. P(0)
  <2>1. SubSeq(s, 1, 0) = <<>> /\ <<x>> \o <<>> = Append(<<>>, x) /\ <<>> \in Seq(Seq(T))
    OBVIOUS
  <2>2. FlattenSeq(Append(<<>>, x)) = FlattenSeq(<<>>) \o x
    BY <2>1, FlatAppend
  <2>3. <<>> \o x = x \o <<>>
    OBVIOUS
  <2> QED BY <2>1, <2>2, <2>3, FlatEmpty, UpToEnds, Zenon DEF Cat
<1>2. ASSUME NEW n \in Nat, n < Len(s), P(n) PROVE P(n + 1)
  <2>0. FlattenSeq(Cat(<<x>>, SubSeq(s, 1, n))) = Cat(x, UpTo(s, n))
    BY <1>2
  <2> HIDE DEF P
  <2>1. PICK u \in Seq(Seq(T)) : u = SubSeq(s, 1, n)
    <3>1. SubSeq(s, 1, n) \in Seq(Seq(T))
      BY <1>2
    <3> QED BY <3>1, Zenon
  <2>2. PICK e \in Seq(T) : e = s[n + 1]
    BY <1>2, PartType
  <2>3. PICK v \in Seq(T) : v = UpTo(s, n)
    <3>1. n \in 0..Len(s)
      BY <1>2
    <3> QED BY <3>1, UpToType, Zenon
  <2>4. SubSeq(s, 1, n + 1) = Append(u, e)
    BY <2>1, <2>2
  <2>5. UpTo(s, n + 1) = Cat(v, e)
    BY <1>2, <2>2, <2>3, UpToStep
  <2>6. FlattenSeq(Cat(<<x>>, u)) = Cat(x, v)
    BY <2>0, <2>1, <2>3
  <2>7. Cat(<<x>>, Append(u, e)) = Append(Cat(<<x>>, u), e)
    BY DEF Cat
  <2>8. FlattenSeq(Append(Cat(<<x>>, u), e)) = Cat(FlattenSeq(Cat(<<x>>, u)), e)
    <3>1. Cat(<<x>>, u) \in Seq(Seq(T))
      BY DEF Cat
    <3> QED BY <3>1, FlatAppend, Zenon DEF Cat
  <2>9. Cat(Cat(x, v), e) = Cat(x, Cat(v, e))
    BY CatAssoc
  <2> QED BY <2>4, <2>5, <2>6, <2>7, <2>8, <2>9 DEF P
<1>3. P(Len(s))
  <2> DEFINE S == {n \in Nat : P(n)}
  <2> HIDE DEF P
  <2>1. 0 \in S /\ \A n \in Nat : n < Len(s) /\ n \in S => n + 1 \in S
    BY <1>1, <1>2
  <2>2. Len(s) \in Nat /\ Len(s) \in 0..Len(s)
    OBVIOUS
  <2>3. 0..Len(s) \subseteq S
    <3> HIDE DEF S
    <3> QED BY <2>1, <2>2, IndUpTo
  <2> QED BY <2>2, <2>3
<1>4. SubSeq(s, 1, Len(s)) = s
  OBVIOUS
<1> QED BY <1>3, <1>4, UpToEnds, Zenon

(* What follows: the next part, and what follows that. *)
LEMMA FromStep ==
    ASSUME NEW T, NEW s \in Seq(Seq(T)), NEW n \in Nat, n < Len(s)
    PROVE  From(s, n) = Cat(s[n + 1], From(s, n + 1))
<1>1. SubSeq(s, n + 2, Len(s)) \in Seq(Seq(T)) /\ s[n + 1] \in Seq(T)
  OBVIOUS
<1>2. SubSeq(s, n + 1, Len(s)) = Cat(<<s[n + 1]>>, SubSeq(s, n + 2, Len(s)))
  BY DEF Cat
<1>3. (n + 1) + 1 = n + 2
  OBVIOUS
<1> QED BY <1>1, <1>2, <1>3, FlatCons DEF From

(* What follows is a sequence, ... *)
LEMMA FromType ==
    ASSUME NEW T, NEW s \in Seq(Seq(T)), NEW n \in Nat
    PROVE  From(s, n) \in Seq(T)
<1>1. SubSeq(s, n + 1, Len(s)) \in Seq(Seq(T))
  OBVIOUS
<1> QED BY <1>1, FlatType DEF From

(* ... and nothing follows the last part. *)
LEMMA FromEnds ==
    ASSUME NEW T, NEW s \in Seq(Seq(T))
    PROVE  From(s, 0) = FlattenSeq(s) /\ From(s, Len(s)) = <<>>
<1>1. SubSeq(s, 0 + 1, Len(s)) = s /\ SubSeq(s, Len(s) + 1, Len(s)) = <<>>
  OBVIOUS
<1> QED BY <1>1, FlatEmpty DEF From

(* The whole is the first parts and what follows them. *)
LEMMA FlatSplits ==
    ASSUME NEW T, NEW s \in Seq(Seq(T))
    PROVE  \A n \in 0..Len(s) : FlattenSeq(s) = Cat(UpTo(s, n), From(s, n))
<1> DEFINE S == {n \in Nat : FlattenSeq(s) = Cat(UpTo(s, n), From(s, n))}
<1>1. 0 \in S
  <2>1. Cat(<<>>, FlattenSeq(s)) = FlattenSeq(s)
    BY FlatType, CatEmpty
  <2>2. FlattenSeq(s) = Cat(UpTo(s, 0), From(s, 0))
    BY <2>1, FromEnds, UpToEnds
  <2> QED BY <2>2
<1>2. ASSUME NEW n \in Nat, n < Len(s), n \in S PROVE n + 1 \in S
  <2> DEFINE u == UpTo(s, n)
             e == s[n + 1]
             v == From(s, n + 1)
  <2>1. From(s, n) = Cat(e, v) /\ UpTo(s, n + 1) = Cat(u, e)
    BY <1>2, FromStep, UpToStep
  <2>2. u \in Seq(T) /\ e \in Seq(T) /\ v \in Seq(T)
    BY <1>2, UpToType, FromType, PartType
  <2>3. FlattenSeq(s) = Cat(u, From(s, n))
    BY <1>2
  <2>4. FlattenSeq(s) = Cat(UpTo(s, n + 1), v)
    <3> HIDE DEF u, e, v
    <3>1. Cat(Cat(u, e), v) = Cat(u, Cat(e, v))
      BY <2>2, CatAssoc
    <3> QED BY <2>1, <2>3, <3>1
  <2> QED BY <2>4
<1>3. 0..Len(s) \subseteq S
  <2> HIDE DEF S
  <2>1. Len(s) \in Nat
    OBVIOUS
  <2> QED BY <1>1, <1>2, <2>1, IndUpTo
<1> QED BY <1>3

------------------------------------------------------------------------------
(* Lines: what is taken of the buffer is the line that was sent. *)

(* A part of a line. *)
NoLF(line) == \A i \in 1..Len(line) : line[i] # "LF"

(* The ends of lines. *)
LEMMA CRLFIs == CRLF \in Seq(Octets) /\ Len(CRLF) = 2 /\ CRLF[1] = "CR" /\ CRLF[2] = "LF"
<1>1. CRLF = <<"CR", "LF">>
  BY DEF CRLF
<1>2. Len(CRLF) = 2 /\ CRLF[1] = "CR" /\ CRLF[2] = "LF"
  BY <1>1
<1>3. CRLF \in Seq(Octets)
  BY <1>1 DEF Octets
<1> QED BY <1>2, <1>3

LEMMA LFIs == <<"LF">> \in Seq(Octets) /\ Len(<<"LF">>) = 1 /\ <<"LF">>[1] = "LF"
BY DEF Octets

(* The elements of a concatenation. *)
LEMMA CatAt ==
    ASSUME NEW T, NEW a \in Seq(T), NEW b \in Seq(T), NEW i \in 1..(Len(a) + Len(b))
    PROVE  Cat(a, b)[i] = IF i <= Len(a) THEN a[i] ELSE b[i - Len(a)]
BY DEF Cat

(* The end of a line is taken off again. *)
LEMMA Trimmed ==
    ASSUME NEW text \in Seq(Symbols), NEW eol \in {<<"LF">>, CRLF}
    PROVE  TrimEol(text \o eol) = text
<1>1. \A i \in 1..Len(text) : text[i] # "LF" /\ text[i] # "CR"
  BY SymbolsAssumption
<1>2. text \in Seq(Octets)
  BY DEF Octets
<1>3. CASE eol = <<"LF">>
  <2> DEFINE l == text \o <<"LF">>
  <2>1. l # <<>> /\ Last(l) = "LF" /\ Front(l) = text
    BY <1>2 DEF Last, Front, Octets
  <2>2. ~(text # <<>> /\ Last(text) = "CR")
    BY <1>1, <1>2 DEF Last
  <2> HIDE DEF l
  <2>3. TrimEol(l) = text
    BY <2>1, <2>2 DEF TrimEol
  <2> QED BY <2>3, <1>3 DEF l
<1>4. CASE eol = CRLF
  <2> DEFINE l == text \o CRLF
             r == text \o <<"CR">>
  <2>1. l # <<>> /\ Last(l) = "LF" /\ Front(l) = r
    BY <1>2 DEF Last, Front, CRLF
  <2>2. r # <<>> /\ Last(r) = "CR" /\ Front(r) = text
    BY <1>2 DEF Last, Front
  <2> HIDE DEF l, r
  <2>3. TrimEol(l) = text
    BY <2>1, <2>2 DEF TrimEol
  <2> QED BY <2>3, <1>4 DEF l
<1> QED BY <1>3, <1>4

(* Whole lines: symbols that end none, and then the end. *)
IsLine(line) == \E text \in Seq(Symbols), eol \in {<<"LF">>, CRLF} : line = Cat(text, eol)

(* A line ends in its first LF, and there is no other. *)
LEMMA LineShape ==
    ASSUME NEW line, IsLine(line)
    PROVE  /\ line \in Seq(Octets) /\ Len(line) \in Nat /\ Len(line) >= 1
           /\ line[Len(line)] = "LF"
           /\ \A i \in 1..(Len(line) - 1) : line[i] # "LF"
<1>1. PICK text \in Seq(Symbols), eol \in {<<"LF">>, CRLF} : line = Cat(text, eol)
  BY DEF IsLine
<1>2. \A i \in 1..Len(text) : text[i] # "LF"
  BY SymbolsAssumption DEF Octets
<1>3. text \in Seq(Octets) /\ Len(text) \in Nat
  BY SymbolsAssumption DEF Octets
<1>4. eol \in Seq(Octets) /\ Len(eol) \in {1, 2} /\ eol[Len(eol)] = "LF"
        /\ (Len(eol) = 2 => eol[1] # "LF")
  <2>1. CASE eol = <<"LF">>
    BY <2>1, LFIs
  <2>2. CASE eol = CRLF
    BY <2>2, CRLFIs
  <2> QED BY <2>1, <2>2
<1>5. line \in Seq(Octets) /\ Len(line) = Len(text) + Len(eol)
  BY <1>1, <1>3, <1>4, CatType
<1>6. \A i \in 1..(Len(text) + Len(eol)) : line[i] = IF i <= Len(text) THEN text[i]
            ELSE eol[i - Len(text)]
  BY <1>1, <1>3, <1>4, CatAt
<1>7. line[Len(line)] = "LF"
  <2>1. Len(line) \in 1..(Len(text) + Len(eol)) /\ ~(Len(line) <= Len(text))
          /\ Len(line) - Len(text) = Len(eol)
    BY <1>3, <1>4, <1>5
  <2> QED BY <2>1, <1>4, <1>6, Zenon
<1>8. ASSUME NEW i \in 1..(Len(line) - 1) PROVE line[i] # "LF"
  <2>1. i \in 1..(Len(text) + Len(eol))
    BY <1>3, <1>4, <1>5
  <2>2. CASE i <= Len(text)
    <3>1. i \in 1..Len(text)
      BY <2>2, <1>3
    <3> QED BY <2>1, <2>2, <3>1, <1>2, <1>6, Zenon
  <2>3. CASE ~(i <= Len(text))
    <3>1. i - Len(text) = 1 /\ Len(eol) = 2
      BY <2>3, <1>3, <1>4, <1>5
    <3> QED BY <2>1, <2>3, <3>1, <1>4, <1>6, Zenon
  <2> QED BY <2>2, <2>3
<1>9. Len(line) \in Nat /\ Len(line) >= 1
  BY <1>3, <1>4, <1>5
<1> QED BY <1>5, <1>7, <1>8, <1>9

(* What follows a line that is taken is what followed it. *)
LEMMA SplitOff ==
    ASSUME NEW T, NEW b \in Seq(T), NEW take \in 1..Len(b)
    PROVE  SubSeq(b, 1, take) \o SubSeq(b, take + 1, Len(b)) = b
OBVIOUS

(* A sequence is its first elements and the others. *)
LEMMA Split ==
    ASSUME NEW T, NEW b \in Seq(T), NEW take \in 0..Len(b)
    PROVE  /\ SubSeq(b, 1, take) \in Seq(T) /\ SubSeq(b, take + 1, Len(b)) \in Seq(T)
           /\ Cat(SubSeq(b, 1, take), SubSeq(b, take + 1, Len(b))) = b
           /\ Len(SubSeq(b, 1, take)) = take
           /\ Len(SubSeq(b, take + 1, Len(b))) = Len(b) - take
           /\ \A i \in 1..take : SubSeq(b, 1, take)[i] = b[i]
<1>1. SubSeq(b, 1, take) \in Seq(T) /\ SubSeq(b, take + 1, Len(b)) \in Seq(T)
  OBVIOUS
<1>2. SubSeq(b, 1, take) \o SubSeq(b, take + 1, Len(b)) = b
  <2>1. CASE take = 0
    <3>1. SubSeq(b, 1, 0) = <<>> /\ SubSeq(b, 0 + 1, Len(b)) = b
      OBVIOUS
    <3>2. <<>> \o b = b
      OBVIOUS
    <3> QED BY <2>1, <3>1, <3>2, Zenon
  <2>2. CASE take \in 1..Len(b)
    BY <2>2, SplitOff, Zenon
  <2>3. take = 0 \/ take \in 1..Len(b)
    OBVIOUS
  <2> QED BY <2>1, <2>2, <2>3, Zenon
<1>3. Len(SubSeq(b, 1, take)) = take /\ \A i \in 1..take : SubSeq(b, 1, take)[i] = b[i]
  OBVIOUS
<1>4. Len(SubSeq(b, take + 1, Len(b))) = Len(b) - take
  OBVIOUS
<1>5. Cat(SubSeq(b, 1, take), SubSeq(b, take + 1, Len(b))) = b
  BY <1>2, Zenon DEF Cat
<1> QED BY <1>1, <1>5, <1>3, <1>4, Zenon

(* What has been read of a line is shorter than the line. *)
LEMMA PartOfLine ==
    ASSUME NEW part \in Seq(Octets), NoLF(part), NEW rest \in Seq(Octets), NEW tail \in Seq(Octets),
           NEW line, IsLine(line), Cat(part, rest) = Cat(line, tail)
    PROVE  Len(part) < Len(line)
<1>1. /\ line \in Seq(Octets) /\ Len(line) \in Nat /\ Len(line) >= 1 /\ line[Len(line)] = "LF"
      /\ Len(part) \in Nat /\ Len(rest) \in Nat /\ Len(tail) \in Nat
  BY LineShape
<1> SUFFICES ASSUME Len(line) <= Len(part) PROVE FALSE
  BY <1>1
<1>0. Len(line) \in 1..(Len(line) + Len(tail))
        /\ Len(line) \in 1..(Len(part) + Len(rest)) /\ Len(line) \in 1..Len(part)
  BY <1>1
<1>2. Cat(line, tail)[Len(line)] = "LF"
  BY <1>0, <1>1, CatAt
<1>3. Cat(part, rest)[Len(line)] = part[Len(line)]
  BY <1>0, <1>1, CatAt
<1> QED BY <1>0, <1>1, <1>2, <1>3 DEF NoLF

(* A line that ends in the buffer is taken, and no more. *)
LEMMA LineIsTaken ==
    ASSUME NEW part \in Seq(Octets), NoLF(part), NEW b \in Seq(Octets), NEW rest \in Seq(Octets),
           NEW tail \in Seq(Octets), NEW line, IsLine(line),
           Cat(part, Cat(b, rest)) = Cat(line, tail),
           NEW take \in 1..Len(b), b[take] = "LF", \A i \in 1..(take - 1) : b[i] # "LF"
    PROVE  /\ Cat(part, SubSeq(b, 1, take)) = line
           /\ Cat(SubSeq(b, take + 1, Len(b)), rest) = tail
<1>1. /\ line \in Seq(Octets) /\ Len(line) \in Nat /\ Len(line) >= 1 /\ line[Len(line)] = "LF"
      /\ Len(part) \in Nat /\ Len(rest) \in Nat /\ Len(tail) \in Nat /\ Len(b) \in Nat
      /\ \A i \in 1..(Len(line) - 1) : line[i] # "LF"
  BY LineShape
<1>2. PICK first \in Seq(Octets), after \in Seq(Octets) :
          /\ first = SubSeq(b, 1, take) /\ after = SubSeq(b, take + 1, Len(b))
          /\ Len(first) = take /\ Cat(first, after) = b
          /\ \A i \in 1..take : first[i] = b[i]
  <2>1. take \in 0..Len(b)
    OBVIOUS
  <2>2. /\ SubSeq(b, 1, take) \in Seq(Octets) /\ SubSeq(b, take + 1, Len(b)) \in Seq(Octets)
        /\ Cat(SubSeq(b, 1, take), SubSeq(b, take + 1, Len(b))) = b
        /\ Len(SubSeq(b, 1, take)) = take
        /\ \A i \in 1..take : SubSeq(b, 1, take)[i] = b[i]
    BY <2>1, Split
  <2> QED BY <2>2, Zenon
<1> DEFINE Parts == Len(first) = take /\ Cat(first, after) = b
<1>p. Parts /\ first[take] = "LF" /\ \A i \in 1..(take - 1) : first[i] # "LF"
  <2>1. take \in 1..take /\ \A i \in 1..(take - 1) : i \in 1..take
    OBVIOUS
  <2> QED BY <1>2, <2>1, Zenon
<1>3. PICK taken \in Seq(Octets), left \in Seq(Octets) :
          /\ taken = Cat(part, first) /\ left = Cat(after, rest) /\ Len(taken) = Len(part) + take
          /\ Len(left) \in Nat
  <2>1. Cat(part, first) \in Seq(Octets) /\ Len(Cat(part, first)) = Len(part) + take
    BY <1>p, CatType
  <2>2. Cat(after, rest) \in Seq(Octets)
    BY CatType
  <2> QED BY <2>1, <2>2
<1>4. Cat(taken, left) = Cat(line, tail)
  <2>1. Cat(b, rest) = Cat(first, Cat(after, rest))
    BY <1>p, CatAssoc
  <2>2. Cat(Cat(part, first), left) = Cat(part, Cat(first, left))
    BY CatAssoc
  <2> QED BY <2>1, <2>2, <1>3
<1>5. \A i \in 1..(Len(part) + Len(first)) : taken[i] = IF i <= Len(part)
            THEN part[i] ELSE first[i - Len(part)]
  BY <1>p, <1>3, CatAt
<1>6. taken[Len(taken)] = "LF" /\ \A i \in 1..(Len(taken) - 1) : taken[i] # "LF"
  <2>1. Len(taken) = Len(part) + take /\ Len(part) \in Nat /\ take \in Nat
          /\ take >= 1 /\ Len(first) = take
    BY <1>1, <1>p, <1>3
  <2>2. taken[Len(taken)] = "LF"
    <3>1. Len(taken) \in 1..(Len(part) + Len(first)) /\ ~(Len(taken) <= Len(part))
            /\ Len(taken) - Len(part) = take
      BY <2>1
    <3> QED BY <3>1, <1>p, <1>5, Zenon
  <2>3. ASSUME NEW i \in 1..(Len(taken) - 1) PROVE taken[i] # "LF"
    <3>1. i \in 1..(Len(part) + Len(first))
      BY <2>1
    <3>2. CASE i <= Len(part)
      <4>1. i \in 1..Len(part)
        BY <2>1, <3>2
      <4> QED BY <3>1, <3>2, <4>1, <1>5, Zenon DEF NoLF
    <3>3. CASE ~(i <= Len(part))
      <4>1. i - Len(part) \in 1..(take - 1)
        BY <2>1, <3>3
      <4> QED BY <3>1, <3>3, <4>1, <1>p, <1>5, Zenon
    <3> QED BY <3>2, <3>3
  <2> QED BY <2>2, <2>3
<1>7. Len(taken) = Len(line)
  <2>1. PICK all : all = Cat(taken, left) /\ all = Cat(line, tail)
    BY <1>4
  <2>2. \A i \in 1..(Len(taken) + Len(left)) : all[i] = IF i <= Len(taken)
              THEN taken[i] ELSE left[i - Len(taken)]
    <3>1. \A i \in 1..(Len(taken) + Len(left)) : Cat(taken, left)[i] =
                IF i <= Len(taken) THEN taken[i] ELSE left[i - Len(taken)]
      BY CatAt
    <3> QED BY <2>1, <3>1, Zenon
  <2>3. \A i \in 1..(Len(line) + Len(tail)) : all[i] = IF i <= Len(line)
              THEN line[i] ELSE tail[i - Len(line)]
    BY <2>1, <1>1, CatAt
  <2>4. Len(all) = Len(taken) + Len(left) /\ Len(all) = Len(line) + Len(tail)
    BY <2>1, <1>1, <1>3, CatType
  <2>5. Len(taken) \in Nat /\ Len(taken) >= 1
    BY <1>1, <1>3
  <2>6. ASSUME Len(taken) < Len(line) PROVE FALSE
    <3>1. Len(taken) \in 1..(Len(taken) + Len(left))
            /\ Len(taken) \in 1..(Len(line) + Len(tail)) /\ Len(taken) \in 1..(Len(line) - 1)
      BY <1>1, <1>3, <2>5, <2>6
    <3>2. all[Len(taken)] = taken[Len(taken)] /\ all[Len(taken)] = line[Len(taken)]
      BY <2>2, <2>3, <2>5, <2>6, <3>1
    <3> QED BY <1>1, <1>6, <3>1, <3>2
  <2>7. ASSUME Len(line) < Len(taken) PROVE FALSE
    <3>1. Len(line) \in 1..(Len(taken) + Len(left))
            /\ Len(line) \in 1..(Len(line) + Len(tail)) /\ Len(line) \in 1..(Len(taken) - 1)
      BY <1>1, <1>3, <2>5, <2>7
    <3>2. all[Len(line)] = taken[Len(line)] /\ all[Len(line)] = line[Len(line)]
      BY <2>2, <2>3, <2>5, <2>7, <3>1
    <3> QED BY <1>1, <1>6, <3>1, <3>2
  <2> QED BY <1>1, <2>5, <2>6, <2>7
<1>8. taken = line /\ left = tail
  BY <1>1, <1>3, <1>4, <1>7, CatCancel
<1> QED BY <1>8, <1>2, <1>3

------------------------------------------------------------------------------
(* Messages: their lines, their chunks, and what is left of them. *)

(* The parts of a message. *)
LEMMA MessageType ==
    ASSUME NEW m \in Messages
    PROVE  /\ m.line \in Seq(Symbols) /\ m.line # <<>> /\ m.fields \in Seq(Symbols)
           /\ m.chunks \in Seq(Seq(Octets)) /\ m.trailers \in Seq(Symbols)
           /\ m.eol \in {<<"LF">>, CRLF} /\ m.after \in Seq(Octets) /\ m.blanks \in Nat
BY DEF Messages

(* The end of its lines. *)
LEMMA EolType ==
    ASSUME NEW m \in Messages
    PROVE  m.eol \in Seq(Octets) /\ Len(m.eol) \in {1, 2}
<1>1. m.eol = <<"LF">> \/ m.eol = CRLF
  BY MessageType
<1> QED BY <1>1, LFIs, CRLFIs

(* The lines of some texts. *)
LEMMA LinedIs ==
    ASSUME NEW m \in Messages, NEW texts \in Seq(Seq(Symbols))
    PROVE  /\ Lined(m, texts) \in Seq(Seq(Octets)) /\ Len(Lined(m, texts)) = Len(texts)
           /\ \A i \in 1..Len(texts) : /\ IsLine(Lined(m, texts)[i])
                                       /\ TrimEol(Lined(m, texts)[i]) = texts[i]
<1>1. PICK eol \in {<<"LF">>, CRLF} : eol = m.eol
  BY MessageType
<1>2. eol \in Seq(Octets)
  BY <1>1, EolType
<1>3. Lined(m, texts) = [i \in 1..Len(texts) |-> Cat(texts[i], eol)]
  <2>1. DOMAIN texts = 1..Len(texts)
    OBVIOUS
  <2> QED BY <1>1, <2>1, Zenon DEF Lined, Cat
<1>4. \A i \in 1..Len(texts) : Cat(texts[i], eol) \in Seq(Octets)
  <2>1. \A i \in 1..Len(texts) : texts[i] \in Seq(Octets)
    BY DEF Octets
  <2> QED BY <2>1, <1>2, CatType
<1>5. \A i \in 1..Len(texts) : IsLine(Cat(texts[i], eol))
  <2>1. \A i \in 1..Len(texts) : texts[i] \in Seq(Symbols)
    OBVIOUS
  <2> QED BY <2>1, Zenon DEF IsLine
<1>6. \A i \in 1..Len(texts) : TrimEol(Cat(texts[i], eol)) = texts[i]
  <2>1. \A i \in 1..Len(texts) : texts[i] \in Seq(Symbols)
    OBVIOUS
  <2> QED BY <2>1, Trimmed, Zenon DEF Cat
<1> DEFINE L == [i \in 1..Len(texts) |-> Cat(texts[i], eol)]
<1>7. L \in Seq(Seq(Octets)) /\ Len(L) = Len(texts)
  BY <1>4
<1>8. \A i \in 1..Len(texts) : L[i] = Cat(texts[i], eol)
  OBVIOUS
<1> HIDE DEF L
<1>9. Lined(m, texts) = L
  BY <1>3, Zenon DEF L
<1> QED BY <1>5, <1>6, <1>7, <1>8, <1>9, Zenon

(* The texts of a head, one by one. *)
LEMMA HeadTextsAre ==
    ASSUME NEW m \in Messages
    PROVE  /\ HeadTexts(m) \in Seq(Seq(Symbols))
           /\ Len(HeadTexts(m)) = m.blanks + Len(m.fields) + 2
           /\ \A i \in 1..m.blanks : HeadTexts(m)[i] = <<>>
           /\ HeadTexts(m)[m.blanks + 1] = m.line
           /\ \A i \in 1..Len(m.fields) : HeadTexts(m)[m.blanks + 1 + i] = <<m.fields[i]>>
           /\ HeadTexts(m)[m.blanks + Len(m.fields) + 2] = <<>>
<1> DEFINE T == Seq(Symbols)
<1>0. /\ m.line \in T /\ m.fields \in Seq(Symbols) /\ m.blanks \in Nat /\ Len(m.fields) \in Nat
  BY MessageType
<1>1. PICK a \in Seq(T) : /\ a = [i \in 1..m.blanks |-> <<>>] /\ Len(a) = m.blanks
                          /\ \A i \in 1..m.blanks : a[i] = <<>>
  <2>1. [i \in 1..m.blanks |-> <<>>] \in Seq(T)
    <3>1. <<>> \in T
      OBVIOUS
    <3> HIDE DEF T
    <3> QED BY <1>0, <3>1
  <2>2. /\ Len([i \in 1..m.blanks |-> <<>>]) = m.blanks
        /\ \A i \in 1..m.blanks : [j \in 1..m.blanks |-> <<>>][i] = <<>>
    BY <1>0
  <2> QED BY <2>1, <2>2, Zenon
<1>2. PICK l \in Seq(T) : l = <<m.line>> /\ Len(l) = 1 /\ l[1] = m.line
  <2> HIDE DEF T
  <2>1. <<m.line>> \in Seq(T) /\ Len(<<m.line>>) = 1 /\ <<m.line>>[1] = m.line
    BY <1>0
  <2> QED BY <2>1, Zenon
<1>3. PICK b \in Seq(T) : /\ b = [i \in DOMAIN m.fields |-> <<m.fields[i]>>]
            /\ Len(b) = Len(m.fields)
                          /\ \A i \in 1..Len(m.fields) : b[i] = <<m.fields[i]>>
  <2>1. PICK f \in Seq(Symbols) : f = m.fields
    BY <1>0
  <2>2. \A i \in 1..Len(f) : <<f[i]>> \in T
    OBVIOUS
  <2>3. DOMAIN f = 1..Len(f) /\ Len(f) \in Nat
    OBVIOUS
  <2> HIDE DEF T
  <2>4. [i \in 1..Len(f) |-> <<f[i]>>] \in Seq(T) /\ Len([i \in 1..Len(f) |-> <<f[i]>>]) = Len(f)
    BY <2>2, <2>3
  <2>5. \A i \in 1..Len(f) : [j \in 1..Len(f) |-> <<f[j]>>][i] = <<f[i]>>
    OBVIOUS
  <2> QED BY <2>1, <2>3, <2>4, <2>5, Zenon
<1>4. PICK e \in Seq(T) : e = << <<>> >> /\ Len(e) = 1 /\ e[1] = <<>>
  <2>1. << <<>> >> \in Seq(T)
    OBVIOUS
  <2> QED BY <2>1
<1>5. HeadTexts(m) = Cat(Cat(Cat(a, l), b), e)
  <2>1. HeadTexts(m) = a \o l \o b \o e
    BY <1>1, <1>2, <1>3, <1>4, Zenon DEF HeadTexts
  <2> QED BY <2>1, Zenon DEF Cat
<1> HIDE DEF T
<1>n. /\ Len(a) = m.blanks /\ Len(l) = 1 /\ Len(b) = Len(m.fields) /\ Len(e) = 1
  BY <1>1, <1>2, <1>3, <1>4, Zenon
<1>6. PICK al \in Seq(T) : al = Cat(a, l) /\ Len(al) = m.blanks + 1
  <2>1. Cat(a, l) \in Seq(T) /\ Len(Cat(a, l)) = Len(a) + Len(l)
    BY CatType, Zenon
  <2> QED BY <2>1, <1>n, Zenon
<1>7. PICK alb \in Seq(T) : alb = Cat(al, b) /\ Len(alb) = m.blanks + 1 + Len(m.fields)
  <2>1. Cat(al, b) \in Seq(T) /\ Len(Cat(al, b)) = Len(al) + Len(b)
    BY CatType, Zenon
  <2> QED BY <2>1, <1>n, <1>6
<1>8. PICK all \in Seq(T) : all = Cat(alb, e) /\ Len(all) = m.blanks + Len(m.fields) + 2
  <2>0. Cat(alb, e) \in Seq(T) /\ Len(Cat(alb, e)) = Len(alb) + Len(e)
    BY CatType, Zenon
  <2>1. Cat(alb, e) \in Seq(T) /\ Len(Cat(alb, e)) = Len(alb) + 1
    BY <2>0, <1>n, Zenon
  <2>2. Len(alb) + 1 = m.blanks + Len(m.fields) + 2
    BY <1>0, <1>7
  <2> QED BY <2>1, <2>2
<1>9. HeadTexts(m) = all
  BY <1>5, <1>6, <1>7, <1>8, Zenon
<1>m. Len(al) = m.blanks + 1 /\ Len(alb) = m.blanks + 1 + Len(m.fields)
  BY <1>6, <1>7, Zenon
<1>nm. m.blanks \in Nat /\ Len(m.fields) \in Nat
  BY <1>0
<1>at. /\ \A i \in 1..(Len(alb) + Len(e)) : all[i] = IF i <= Len(alb) THEN alb[i]
             ELSE e[i - Len(alb)]
       /\ \A i \in 1..(Len(al) + Len(b)) : alb[i] = IF i <= Len(al) THEN al[i]
                ELSE b[i - Len(al)]
       /\ \A i \in 1..(Len(a) + Len(l)) : al[i] = IF i <= Len(a) THEN a[i] ELSE l[i - Len(a)]
  <2>1. \A i \in 1..(Len(alb) + Len(e)) : Cat(alb, e)[i] = IF i <= Len(alb)
              THEN alb[i] ELSE e[i - Len(alb)]
    BY CatAt
  <2>2. \A i \in 1..(Len(al) + Len(b)) : Cat(al, b)[i] = IF i <= Len(al) THEN al[i]
              ELSE b[i - Len(al)]
    BY CatAt
  <2>3. \A i \in 1..(Len(a) + Len(l)) : Cat(a, l)[i] = IF i <= Len(a) THEN a[i]
              ELSE l[i - Len(a)]
    BY CatAt
  <2> QED BY <1>6, <1>7, <1>8, <2>1, <2>2, <2>3, Zenon
<1>10. \A i \in 1..m.blanks : all[i] = <<>>
  <2> TAKE i \in 1..m.blanks
  <2>1. /\ i \in 1..(Len(alb) + Len(e)) /\ i <= Len(alb)
        /\ i \in 1..(Len(al) + Len(b)) /\ i <= Len(al)
        /\ i \in 1..(Len(a) + Len(l)) /\ i <= Len(a)
    BY <1>nm, <1>n, <1>m
  <2> QED BY <2>1, <1>at, <1>1, Zenon
<1>11. all[m.blanks + 1] = m.line
  <2> DEFINE i == m.blanks + 1
  <2>1. /\ i \in 1..(Len(alb) + Len(e)) /\ i <= Len(alb)
        /\ i \in 1..(Len(al) + Len(b)) /\ i <= Len(al)
        /\ i \in 1..(Len(a) + Len(l)) /\ ~(i <= Len(a)) /\ i - Len(a) = 1
    BY <1>nm, <1>n, <1>m
  <2> QED BY <2>1, <1>at, <1>2, Zenon
<1>12. \A j \in 1..Len(m.fields) : all[m.blanks + 1 + j] = <<m.fields[j]>>
  <2> TAKE j \in 1..Len(m.fields)
  <2> DEFINE i == m.blanks + 1 + j
  <2>1. /\ i \in 1..(Len(alb) + Len(e)) /\ i <= Len(alb)
        /\ i \in 1..(Len(al) + Len(b)) /\ ~(i <= Len(al)) /\ i - Len(al) = j
    BY <1>nm, <1>n, <1>m
  <2> QED BY <2>1, <1>at, <1>3, Zenon
<1>13. all[m.blanks + Len(m.fields) + 2] = <<>>
  <2> DEFINE i == m.blanks + Len(m.fields) + 2
  <2>1. /\ i \in 1..(Len(alb) + Len(e)) /\ ~(i <= Len(alb)) /\ i - Len(alb) = 1
    <3>1. PICK x \in Nat, y \in Nat : x = m.blanks /\ y = Len(m.fields)
      BY <1>nm
    <3>2. Len(alb) = (x + 1) + y /\ Len(e) = 1 /\ i = (x + y) + 2
      BY <1>n, <1>m, <3>1
    <3> HIDE DEF i
    <3> QED BY <3>2
  <2> QED BY <2>1, <1>at, <1>4, Zenon
<1> QED BY <1>8, <1>9, <1>10, <1>11, <1>12, <1>13, Zenon DEF T

(* The texts of a trailer, one by one. *)
LEMMA TrailerTextsAre ==
    ASSUME NEW m \in Messages
    PROVE  /\ TrailerTexts(m) \in Seq(Seq(Symbols))
           /\ Len(TrailerTexts(m)) = Len(m.trailers) + 1
           /\ \A i \in 1..Len(m.trailers) : TrailerTexts(m)[i] # <<>>
           /\ TrailerTexts(m)[Len(m.trailers) + 1] = <<>>
<1> DEFINE T == Seq(Symbols)
<1>0. m.trailers \in Seq(Symbols) /\ Len(m.trailers) \in Nat
  BY MessageType
<1>3. PICK b \in Seq(T) : /\ b = [i \in DOMAIN m.trailers |-> <<m.trailers[i]>>]
                          /\ Len(b) = Len(m.trailers)
                          /\ \A i \in 1..Len(m.trailers) : b[i] # <<>>
  <2>1. PICK f \in Seq(Symbols) : f = m.trailers
    BY <1>0
  <2>2. \A i \in 1..Len(f) : <<f[i]>> \in T /\ <<f[i]>> # <<>>
    OBVIOUS
  <2>3. DOMAIN f = 1..Len(f) /\ Len(f) \in Nat
    OBVIOUS
  <2> HIDE DEF T
  <2>4. [i \in 1..Len(f) |-> <<f[i]>>] \in Seq(T) /\ Len([i \in 1..Len(f) |-> <<f[i]>>]) = Len(f)
    BY <2>2, <2>3
  <2>5. \A i \in 1..Len(f) : [j \in 1..Len(f) |-> <<f[j]>>][i] # <<>>
    BY <2>2
  <2> QED BY <2>1, <2>3, <2>4, <2>5, Zenon
<1>4. PICK e \in Seq(T) : e = << <<>> >> /\ Len(e) = 1 /\ e[1] = <<>>
  <2>1. << <<>> >> \in Seq(T)
    OBVIOUS
  <2> QED BY <2>1
<1>5. TrailerTexts(m) = Cat(b, e)
  BY <1>3, <1>4, Zenon DEF TrailerTexts, Cat
<1> HIDE DEF T
<1>n. Len(b) = Len(m.trailers) /\ Len(e) = 1
  BY <1>3, <1>4, Zenon
<1>6. PICK all \in Seq(T) : all = Cat(b, e) /\ Len(all) = Len(m.trailers) + 1
  <2>1. Cat(b, e) \in Seq(T) /\ Len(Cat(b, e)) = Len(b) + Len(e)
    BY CatType, Zenon
  <2> QED BY <2>1, <1>n, Zenon
<1>at. \A i \in 1..(Len(b) + Len(e)) : all[i] = IF i <= Len(b) THEN b[i] ELSE e[i - Len(b)]
  <2>1. \A i \in 1..(Len(b) + Len(e)) : Cat(b, e)[i] = IF i <= Len(b) THEN b[i]
              ELSE e[i - Len(b)]
    BY CatAt
  <2> QED BY <1>6, <2>1, Zenon
<1>7. \A i \in 1..Len(m.trailers) : all[i] # <<>>
  <2> TAKE i \in 1..Len(m.trailers)
  <2>1. i \in 1..(Len(b) + Len(e)) /\ i <= Len(b)
    BY <1>0, <1>n
  <2> QED BY <2>1, <1>at, <1>3, Zenon
<1>8. all[Len(m.trailers) + 1] = <<>>
  <2>1. /\ Len(m.trailers) + 1 \in 1..(Len(b) + Len(e)) /\ ~(Len(m.trailers) + 1 <= Len(b))
        /\ (Len(m.trailers) + 1) - Len(b) = 1
    BY <1>0, <1>n
  <2> QED BY <2>1, <1>at, <1>4, Zenon
<1>9. TrailerTexts(m) = all
  BY <1>5, <1>6, Zenon
<1> QED BY <1>6, <1>7, <1>8, <1>9, Zenon DEF T

(* The sizes of chunks. *)
LEMMA SizesAre ==
    /\ DOMAIN Sizes = {"size0", "size1", "size2", "size9"}
    /\ Sizes["size0"] = 0 /\ Sizes["size1"] = 1 /\ Sizes["size2"] = 2 /\ Sizes["size9"] = 9
    /\ DOMAIN Sizes \subseteq Symbols
<1>1. DOMAIN Sizes \subseteq Symbols
  BY SymbolsAssumption
<1>2. /\ DOMAIN Sizes = {"size0", "size1", "size2", "size9"}
      /\ Sizes["size0"] = 0 /\ Sizes["size1"] = 1 /\ Sizes["size2"] = 2 /\ Sizes["size9"] = 9
  BY DEF Sizes
<1> QED BY <1>1, <1>2

(* A size line says the size, and has one symbol besides its end. *)
LEMMA SizeLineIs ==
    ASSUME NEW m \in Messages, NEW n \in {0, 1, 2, 9}
    PROVE  /\ SizeLine(m, n) \in Seq(Octets) /\ Len(SizeLine(m, n)) = 1 + Len(m.eol)
           /\ IsLine(SizeLine(m, n))
           /\ \E s \in DOMAIN Sizes : Sizes[s] = n /\ TrimEol(SizeLine(m, n)) = <<s>>
<1>1. PICK s : s = CHOOSE t \in DOMAIN Sizes : Sizes[t] = n
  OBVIOUS
<1>2. s \in DOMAIN Sizes /\ Sizes[s] = n
  <2>1. \E t \in DOMAIN Sizes : Sizes[t] = n
    BY SizesAre
  <2> QED BY <1>1, <2>1
<1>3. PICK text \in Seq(Symbols) : text = <<s>> /\ Len(text) = 1
  <2>1. s \in Symbols
    <3>1. DOMAIN Sizes \subseteq Symbols
      BY SizesAre
    <3> QED BY <1>2, <3>1, Zenon
  <2>2. <<s>> \in Seq(Symbols) /\ Len(<<s>>) = 1
    BY <2>1
  <2> QED BY <2>2, Zenon
<1>4. SizeLine(m, n) = text \o m.eol
  BY <1>1, <1>3, Zenon DEF SizeLine
<1>5. SizeLine(m, n) = Cat(text, m.eol)
  BY <1>4, Zenon DEF Cat
<1>6. m.eol \in {<<"LF">>, CRLF}
  BY MessageType
<1>7. text \in Seq(Octets)
  BY DEF Octets
<1>8. SizeLine(m, n) \in Seq(Octets) /\ Len(SizeLine(m, n)) = 1 + Len(m.eol)
  BY <1>3, <1>5, <1>7, EolType, CatType
<1>9. IsLine(SizeLine(m, n))
  BY <1>5, <1>6, Zenon DEF IsLine
<1>10. TrimEol(SizeLine(m, n)) = <<s>>
  BY <1>3, <1>4, <1>6, Trimmed, Zenon
<1> QED BY <1>2, <1>8, <1>9, <1>10

(* A message in chunks. *)
IsChunked(m) == Coding(m.fields) = "te"

(* A chunk that is sent has a size that can be said. *)
LEMMA SizesOfChunks ==
    ASSUME NEW m \in Messages, SaysItsSize(m), IsChunked(m)
    PROVE  \A i \in 1..Len(m.chunks) : m.chunks[i] \in Seq(Octets)
                 /\ Len(m.chunks[i]) \in {1, 2, 9}
<1>1. DOMAIN m.chunks = 1..Len(m.chunks)
        /\ \A i \in 1..Len(m.chunks) : m.chunks[i] \in Seq(Octets)
  BY MessageType
<1>2. \A i \in DOMAIN m.chunks : Len(m.chunks[i]) \in {1, 2, 9}
  BY Zenon DEF SaysItsSize, IsChunked
<1> QED BY <1>1, <1>2

(* A chunk: its size, its data and what follows them. *)
LEMMA ChunksOfIs ==
    ASSUME NEW m \in Messages, SaysItsSize(m), IsChunked(m)
    PROVE  /\ ChunksOf(m) \in Seq(Seq(Octets)) /\ Len(ChunksOf(m)) = Len(m.chunks)
           /\ \A i \in 1..Len(m.chunks) :
                 ChunksOf(m)[i] = Cat(Cat(SizeLine(m, Len(m.chunks[i])), m.chunks[i]), m.after)
<1> DEFINE C(i) == Cat(Cat(SizeLine(m, Len(m.chunks[i])), m.chunks[i]), m.after)
           L == [i \in 1..Len(m.chunks) |-> C(i)]
<1>1. ChunksOf(m) = L
  <2>1. DOMAIN m.chunks = 1..Len(m.chunks)
    BY MessageType
  <2> QED BY <2>1, Zenon DEF ChunksOf, Cat
<1>2. \A i \in 1..Len(m.chunks) : C(i) \in Seq(Octets)
  <2> TAKE i \in 1..Len(m.chunks)
  <2>1. m.chunks[i] \in Seq(Octets) /\ Len(m.chunks[i]) \in {0, 1, 2, 9}
    BY SizesOfChunks
  <2>2. SizeLine(m, Len(m.chunks[i])) \in Seq(Octets)
    BY <2>1, SizeLineIs
  <2>3. m.after \in Seq(Octets)
    BY MessageType
  <2> QED BY <2>1, <2>2, <2>3, CatType
<1>3. Len(m.chunks) \in Nat
  BY MessageType
<1> HIDE DEF C
<1>4. L \in Seq(Seq(Octets)) /\ Len(L) = Len(m.chunks) /\ \A i \in 1..Len(m.chunks) : L[i] = C(i)
  BY <1>2, <1>3
<1> QED BY <1>1, <1>4, Zenon DEF C

(* What ends a chunked body, and the rest of the connection. *)
ToEnd(m, tail) == Cat(SizeLine(m, 0), Cat(FlattenSeq(TrailerLines(m)), tail))

(* The lines of a trailer are sequences. *)
LEMMA TrailersAre ==
    ASSUME NEW m \in Messages
    PROVE  TrailerLines(m) \in Seq(Seq(Octets)) /\ FlattenSeq(TrailerLines(m)) \in Seq(Octets)
BY TrailerTextsAre, LinedIs, FlatType DEF TrailerLines

(* What ends a body is a sequence. *)
LEMMA ToEndType ==
    ASSUME NEW m \in Messages, NEW tail \in Seq(Octets)
    PROVE  ToEnd(m, tail) \in Seq(Octets) /\ Len(tail) <= Len(ToEnd(m, tail))
<1>1. SizeLine(m, 0) \in Seq(Octets) /\ FlattenSeq(TrailerLines(m)) \in Seq(Octets)
  BY SizeLineIs, TrailersAre
<1>2. PICK u \in Seq(Octets) : /\ u = Cat(FlattenSeq(TrailerLines(m)), tail)
                               /\ Len(u) = Len(FlattenSeq(TrailerLines(m))) + Len(tail)
  BY <1>1, CatType
<1>3. ToEnd(m, tail) \in Seq(Octets) /\ Len(ToEnd(m, tail)) = Len(SizeLine(m, 0)) + Len(u)
  BY <1>1, <1>2, CatType DEF ToEnd
<1>4. Len(SizeLine(m, 0)) \in Nat /\ Len(FlattenSeq(TrailerLines(m))) \in Nat
        /\ Len(tail) \in Nat
  BY <1>1
<1> QED BY <1>2, <1>3, <1>4

(* A body in chunks, and what follows the message. *)
LEMMA ChunkedBody ==
    ASSUME NEW m \in Messages, SaysItsSize(m), IsChunked(m), NEW tail \in Seq(Octets)
    PROVE  Cat(BodyBytes(m), tail) = Cat(From(ChunksOf(m), 0), ToEnd(m, tail))
<1>1. PICK a \in Seq(Octets), b \in Seq(Octets), c \in Seq(Octets) :
         a = FlattenSeq(ChunksOf(m)) /\ b = SizeLine(m, 0) /\ c = FlattenSeq(TrailerLines(m))
  <2>1. FlattenSeq(ChunksOf(m)) \in Seq(Octets)
    BY ChunksOfIs, FlatType
  <2> QED BY <2>1, SizeLineIs, TrailersAre
<1>2. BodyBytes(m) = Cat(Cat(a, b), c)
  <2>1. BodyBytes(m) = a \o b \o c
    BY <1>1, Zenon DEF BodyBytes, IsChunked
  <2> QED BY <2>1, Zenon DEF Cat
<1>3. Cat(Cat(Cat(a, b), c), tail) = Cat(a, Cat(b, Cat(c, tail)))
  <2>1. Cat(a, b) \in Seq(Octets) /\ Cat(c, tail) \in Seq(Octets)
    BY CatType
  <2>2. Cat(Cat(Cat(a, b), c), tail) = Cat(Cat(a, b), Cat(c, tail))
    BY <2>1, CatAssoc
  <2>3. Cat(Cat(a, b), Cat(c, tail)) = Cat(a, Cat(b, Cat(c, tail)))
    BY <2>1, CatAssoc
  <2> QED BY <2>2, <2>3
<1>4. From(ChunksOf(m), 0) = a
  BY <1>1, ChunksOfIs, FromEnds
<1> QED BY <1>1, <1>2, <1>3, <1>4, Zenon DEF ToEnd

(* A body that is not in chunks. *)
LEMMA PlainBody ==
    ASSUME NEW m \in Messages, ~IsChunked(m)
    PROVE  BodyBytes(m) = FlattenSeq(m.chunks) /\ BodyBytes(m) \in Seq(Octets)
<1>1. BodyBytes(m) = FlattenSeq(m.chunks)
  BY Zenon DEF BodyBytes, IsChunked
<1> QED BY <1>1, MessageType, FlatType

(* The bytes of a body are a sequence. *)
LEMMA BodyBytesType ==
    ASSUME NEW m \in Messages, SaysItsSize(m)
    PROVE  BodyBytes(m) \in Seq(Octets)
<1>1. CASE IsChunked(m)
  <2>1. <<>> \in Seq(Octets)
    OBVIOUS
  <2>2. PICK a \in Seq(Octets), b \in Seq(Octets), c \in Seq(Octets) :
           a = FlattenSeq(ChunksOf(m)) /\ b = SizeLine(m, 0) /\ c = FlattenSeq(TrailerLines(m))
    <3>1. FlattenSeq(ChunksOf(m)) \in Seq(Octets)
      BY <1>1, ChunksOfIs, FlatType
    <3> QED BY <3>1, SizeLineIs, TrailersAre
  <2>3. BodyBytes(m) = Cat(Cat(a, b), c)
    <3>1. BodyBytes(m) = a \o b \o c
      BY <1>1, <2>2, Zenon DEF BodyBytes, IsChunked
    <3> QED BY <3>1, Zenon DEF Cat
  <2> QED BY <2>3, CatType
<1>2. CASE ~IsChunked(m)
  BY <1>2, PlainBody
<1> QED BY <1>1, <1>2

(* The rest of a chunked body begins with the next chunk, if there is one.  *)
LEMMA NextChunk ==
    ASSUME NEW m \in Messages, SaysItsSize(m), IsChunked(m), NEW tail \in Seq(Octets),
           NEW c \in Nat, c < Len(m.chunks)
    PROVE  Cat(From(ChunksOf(m), c), tail)
             = Cat(SizeLine(m, Len(m.chunks[c + 1])),
                   Cat(m.chunks[c + 1], Cat(m.after, Cat(From(ChunksOf(m), c + 1), tail))))
<1>0. c + 1 \in 1..Len(m.chunks)
  BY MessageType
<1>1. PICK s \in Seq(Octets), d \in Seq(Octets), a \in Seq(Octets), f \in Seq(Octets) :
         /\ s = SizeLine(m, Len(m.chunks[c + 1])) /\ d = m.chunks[c + 1] /\ a = m.after
         /\ f = From(ChunksOf(m), c + 1)
  <2>1. m.chunks[c + 1] \in Seq(Octets) /\ Len(m.chunks[c + 1]) \in {0, 1, 2, 9}
    BY <1>0, SizesOfChunks
  <2>2. SizeLine(m, Len(m.chunks[c + 1])) \in Seq(Octets)
    BY <2>1, SizeLineIs
  <2>3. From(ChunksOf(m), c + 1) \in Seq(Octets)
    BY ChunksOfIs, FromType
  <2>4. m.after \in Seq(Octets)
    BY MessageType
  <2> QED BY <2>1, <2>2, <2>3, <2>4
<1>2. ChunksOf(m)[c + 1] = Cat(Cat(s, d), a)
  BY <1>0, <1>1, ChunksOfIs, Zenon
<1>3. From(ChunksOf(m), c) = Cat(Cat(Cat(s, d), a), f)
  <2>1. From(ChunksOf(m), c) = Cat(ChunksOf(m)[c + 1], From(ChunksOf(m), c + 1))
    BY ChunksOfIs, FromStep
  <2> QED BY <1>1, <1>2, <2>1, Zenon
<1>4. Cat(Cat(Cat(Cat(s, d), a), f), tail) = Cat(s, Cat(d, Cat(a, Cat(f, tail))))
  <2>1. PICK sd \in Seq(Octets), ft \in Seq(Octets) : sd = Cat(s, d) /\ ft = Cat(f, tail)
    BY CatType
  <2>2. PICK sda \in Seq(Octets), aft \in Seq(Octets) : sda = Cat(sd, a) /\ aft = Cat(a, ft)
    BY CatType
  <2>3. Cat(Cat(sda, f), tail) = Cat(sda, ft)
    BY <2>1, CatAssoc
  <2>4. Cat(sda, ft) = Cat(sd, aft)
    BY <2>2, CatAssoc
  <2>5. Cat(sd, aft) = Cat(s, Cat(d, aft))
    BY <2>1, CatAssoc
  <2> QED BY <2>1, <2>2, <2>3, <2>4, <2>5
<1> QED BY <1>1, <1>3, <1>4, Zenon

(* The next part makes the first parts longer, ... *)
LEMMA UpToLonger ==
    ASSUME NEW T, NEW s \in Seq(Seq(T)), NEW n \in Nat, n < Len(s)
    PROVE  Len(UpTo(s, n + 1)) = Len(UpTo(s, n)) + Len(s[n + 1])
<1>1. n \in 0..Len(s)
  OBVIOUS
<1>2. UpTo(s, n) \in Seq(T) /\ s[n + 1] \in Seq(T)
  BY <1>1, UpToType, PartType
<1>3. UpTo(s, n + 1) = Cat(UpTo(s, n), s[n + 1])
  BY UpToStep
<1> QED BY <1>2, <1>3, CatType

(* ... and so more parts are not shorter than fewer. *)
LEMMA UpToMonotone ==
    ASSUME NEW T, NEW s \in Seq(Seq(T)), NEW i \in 0..Len(s)
    PROVE  \A j \in i..Len(s) : Len(UpTo(s, i)) <= Len(UpTo(s, j))
<1> DEFINE S == {d \in Nat : i + d <= Len(s) => Len(UpTo(s, i)) <= Len(UpTo(s, i + d))}
<1>0. \A j \in 0..Len(s) : Len(UpTo(s, j)) \in Nat
  <2>1. \A j \in 0..Len(s) : UpTo(s, j) \in Seq(T)
    BY UpToType
  <2> QED BY <2>1
<1>1. 0 \in S
  <2>1. i + 0 = i /\ Len(UpTo(s, i)) \in Nat
    BY <1>0
  <2> QED BY <2>1
<1>2. ASSUME NEW d \in Nat, d \in S PROVE d + 1 \in S
  <2> SUFFICES ASSUME i + (d + 1) <= Len(s) PROVE Len(UpTo(s, i)) <= Len(UpTo(s, i + (d + 1)))
    OBVIOUS
  <2>1. i + d \in Nat /\ i + d < Len(s) /\ i + (d + 1) = (i + d) + 1
    OBVIOUS
  <2>2. Len(UpTo(s, i)) <= Len(UpTo(s, i + d))
    BY <1>2, <2>1
  <2>3. Len(UpTo(s, (i + d) + 1)) = Len(UpTo(s, i + d)) + Len(s[(i + d) + 1])
    BY <2>1, UpToLonger
  <2>4. Len(s[(i + d) + 1]) \in Nat
    <3>1. s[(i + d) + 1] \in Seq(T)
      BY <2>1, PartType
    <3> QED BY <3>1
  <2>5. Len(UpTo(s, i)) \in Nat /\ Len(UpTo(s, i + d)) \in Nat
    BY <1>0, <2>1
  <2>6. \A x, y, z, w \in Nat : x <= y /\ z = y + w => x <= z
    OBVIOUS
  <2>7. Len(UpTo(s, (i + d) + 1)) \in Nat
    BY <1>0, <2>1
  <2>8. Len(UpTo(s, i)) <= Len(UpTo(s, (i + d) + 1))
    BY <2>2, <2>3, <2>4, <2>5, <2>6, <2>7, Zenon
  <2> QED BY <2>1, <2>8, Zenon
<1>3. Nat \subseteq S
  <2> HIDE DEF S
  <2> QED BY <1>1, <1>2, NatInd
<1> TAKE j \in i..Len(s)
<1>4. j - i \in Nat /\ i + (j - i) = j /\ j <= Len(s)
  OBVIOUS
<1>5. j - i \in S
  BY <1>3, <1>4
<1>6. i + (j - i) <= Len(s) => Len(UpTo(s, i)) <= Len(UpTo(s, i + (j - i)))
  BY <1>5
<1> QED BY <1>4, <1>6

------------------------------------------------------------------------------
(* The parser in a message: what has been read, and what is to come. *)

(* The values of the parser. *)
PCs == {"line", "headers", "body", "size", "chunk", "crlf", "trailer", "handler", "closed"}
Requests == [line : Symbols \cup {""}, fields : Seq(Symbols), body : Seq(Octets)]
Parsers == [pc : PCs, line : Seq(Octets), used : Nat, need : Nat, req : Requests, status : Nat]

(* What is left of a message after some lines of its head, some chunks,     *)
(* some lines of its trailer.                                               *)
HeadRest(m, i, tail) == Cat(From(HeadLines(m), i), Cat(BodyBytes(m), tail))
SizeRest(m, c, tail) == Cat(From(ChunksOf(m), c), ToEnd(m, tail))
TrailerRest(m, t, tail) == Cat(From(TrailerLines(m), t), tail)

(* The lines of a head are lines, ... *)
LEMMA HeadLinesAre ==
    ASSUME NEW m \in Messages
    PROVE  /\ HeadLines(m) \in Seq(Seq(Octets)) /\ Len(HeadLines(m)) = Len(HeadTexts(m))
           /\ \A i \in 1..Len(HeadTexts(m)) : /\ IsLine(HeadLines(m)[i])
                                              /\ TrimEol(HeadLines(m)[i]) = HeadTexts(m)[i]
BY HeadTextsAre, LinedIs DEF HeadLines

(* ... as are those of a trailer. *)
LEMMA TrailerLinesAre ==
    ASSUME NEW m \in Messages
    PROVE  /\ TrailerLines(m) \in Seq(Seq(Octets)) /\ Len(TrailerLines(m)) = Len(TrailerTexts(m))
           /\ \A i \in 1..Len(TrailerTexts(m)) : /\ IsLine(TrailerLines(m)[i])
                                                 /\ TrimEol(TrailerLines(m)[i]) =
                                                          TrailerTexts(m)[i]
BY TrailerTextsAre, LinedIs DEF TrailerLines

(* What is to come is a sequence, wherever the parser is. *)
LEMMA RestTypes ==
    ASSUME NEW m \in Messages, SaysItsSize(m), NEW tail \in Seq(Octets), NEW i \in Nat
    PROVE  /\ HeadRest(m, i, tail) \in Seq(Octets) /\ Len(tail) <= Len(HeadRest(m, i, tail))
           /\ TrailerRest(m, i, tail) \in Seq(Octets)
                /\ Len(tail) <= Len(TrailerRest(m, i, tail))
           /\ IsChunked(m) => /\ SizeRest(m, i, tail) \in Seq(Octets)
                              /\ Len(tail) <= Len(SizeRest(m, i, tail))
<1>1. From(HeadLines(m), i) \in Seq(Octets) /\ From(TrailerLines(m), i) \in Seq(Octets)
  BY HeadLinesAre, TrailerLinesAre, FromType
<1>2. BodyBytes(m) \in Seq(Octets)
  BY BodyBytesType
<1>l. \A s \in Seq(Octets) : Len(s) \in Nat
  OBVIOUS
<1>3. Cat(BodyBytes(m), tail) \in Seq(Octets) /\ Len(tail) <= Len(Cat(BodyBytes(m), tail))
  <2>1. /\ Cat(BodyBytes(m), tail) \in Seq(Octets)
        /\ Len(Cat(BodyBytes(m), tail)) = Len(BodyBytes(m)) + Len(tail)
    BY <1>2, CatType
  <2> QED BY <1>2, <1>l, <2>1
<1>4. HeadRest(m, i, tail) \in Seq(Octets) /\ Len(tail) <= Len(HeadRest(m, i, tail))
  <2>1. /\ HeadRest(m, i, tail) \in Seq(Octets)
        /\ Len(HeadRest(m, i, tail)) = Len(From(HeadLines(m), i)) + Len(Cat(BodyBytes(m), tail))
    BY <1>1, <1>3, CatType DEF HeadRest
  <2> QED BY <1>1, <1>3, <1>l, <2>1
<1>5. TrailerRest(m, i, tail) \in Seq(Octets) /\ Len(tail) <= Len(TrailerRest(m, i, tail))
  <2>1. /\ TrailerRest(m, i, tail) \in Seq(Octets)
        /\ Len(TrailerRest(m, i, tail)) = Len(From(TrailerLines(m), i)) + Len(tail)
    BY <1>1, CatType DEF TrailerRest
  <2> QED BY <1>1, <1>l, <2>1
<1>6. ASSUME IsChunked(m)
      PROVE SizeRest(m, i, tail) \in Seq(Octets) /\ Len(tail) <= Len(SizeRest(m, i, tail))
  <2>1. From(ChunksOf(m), i) \in Seq(Octets)
    BY <1>6, ChunksOfIs, FromType
  <2>2. ToEnd(m, tail) \in Seq(Octets) /\ Len(tail) <= Len(ToEnd(m, tail))
    BY ToEndType
  <2>3. /\ SizeRest(m, i, tail) \in Seq(Octets)
        /\ Len(SizeRest(m, i, tail)) = Len(From(ChunksOf(m), i)) + Len(ToEnd(m, tail))
    BY <2>1, <2>2, CatType DEF SizeRest
  <2> QED BY <2>1, <2>2, <2>3, <1>l
<1> QED BY <1>4, <1>5, <1>6

(* The rest of a head begins with its next line, ... *)
LEMMA HeadSplits ==
    ASSUME NEW m \in Messages, SaysItsSize(m), NEW tail \in Seq(Octets),
           NEW i \in Nat, i < Len(HeadTexts(m))
    PROVE  HeadRest(m, i, tail) = Cat(HeadLines(m)[i + 1], HeadRest(m, i + 1, tail))
<1>1. From(HeadLines(m), i) = Cat(HeadLines(m)[i + 1], From(HeadLines(m), i + 1))
  BY HeadLinesAre, FromStep
<1>2. HeadLines(m)[i + 1] \in Seq(Octets) /\ From(HeadLines(m), i + 1) \in Seq(Octets)
  BY HeadLinesAre, PartType, FromType
<1>3. Cat(BodyBytes(m), tail) \in Seq(Octets)
  BY BodyBytesType, CatType
<1> QED BY <1>1, <1>2, <1>3, CatAssoc DEF HeadRest

(* ... so does the rest of a trailer, ... *)
LEMMA TrailerSplits ==
    ASSUME NEW m \in Messages, NEW tail \in Seq(Octets),
           NEW t \in Nat, t < Len(TrailerTexts(m))
    PROVE  TrailerRest(m, t, tail) = Cat(TrailerLines(m)[t + 1], TrailerRest(m, t + 1, tail))
<1>1. From(TrailerLines(m), t) = Cat(TrailerLines(m)[t + 1], From(TrailerLines(m), t + 1))
  BY TrailerLinesAre, FromStep
<1>2. TrailerLines(m)[t + 1] \in Seq(Octets) /\ From(TrailerLines(m), t + 1) \in Seq(Octets)
  BY TrailerLinesAre, PartType, FromType
<1> QED BY <1>1, <1>2, CatAssoc DEF TrailerRest

(* ... and the rest of a body in chunks with a size line. *)
LEMMA SizeSplits ==
    ASSUME NEW m \in Messages, SaysItsSize(m), IsChunked(m), NEW tail \in Seq(Octets), NEW c \in Nat
    PROVE  /\ c < Len(m.chunks) =>
                 SizeRest(m, c, tail) = Cat(SizeLine(m, Len(m.chunks[c + 1])),
                                            Cat(m.chunks[c + 1], Cat(m.after, SizeRest(m, c + 1, tail))))
           /\ c = Len(m.chunks) => SizeRest(m, c, tail) =
                    Cat(SizeLine(m, 0), TrailerRest(m, 0, tail))
<1>1. ToEnd(m, tail) \in Seq(Octets)
  BY ToEndType
<1>2. ASSUME c < Len(m.chunks)
      PROVE  SizeRest(m, c, tail) = Cat(SizeLine(m, Len(m.chunks[c + 1])),
                                        Cat(m.chunks[c + 1], Cat(m.after, SizeRest(m, c + 1, tail))))
  BY <1>1, <1>2, NextChunk DEF SizeRest
<1>3. ASSUME c = Len(m.chunks)
      PROVE  SizeRest(m, c, tail) = Cat(SizeLine(m, 0), TrailerRest(m, 0, tail))
  <2>1. From(ChunksOf(m), c) = <<>>
    BY <1>3, ChunksOfIs, FromEnds
  <2>2. From(TrailerLines(m), 0) = FlattenSeq(TrailerLines(m))
    BY TrailerLinesAre, FromEnds
  <2>3. Cat(<<>>, ToEnd(m, tail)) = ToEnd(m, tail)
    BY <1>1, CatEmpty
  <2> QED BY <2>1, <2>2, <2>3, Zenon DEF SizeRest, ToEnd, TrailerRest
<1> QED BY <1>2, <1>3

(* After the last line of a head comes the body, of a trailer what follows. *)
LEMMA RestEnds ==
    ASSUME NEW m \in Messages, SaysItsSize(m), NEW tail \in Seq(Octets)
    PROVE  /\ HeadRest(m, Len(HeadTexts(m)), tail) = Cat(BodyBytes(m), tail)
           /\ TrailerRest(m, Len(TrailerTexts(m)), tail) = tail
<1>1. From(HeadLines(m), Len(HeadTexts(m))) = <<>>
  BY HeadLinesAre, FromEnds
<1>2. From(TrailerLines(m), Len(TrailerTexts(m))) = <<>>
  BY TrailerLinesAre, FromEnds
<1>3. Cat(BodyBytes(m), tail) \in Seq(Octets)
  BY BodyBytesType, CatType
<1>4. Cat(<<>>, Cat(BodyBytes(m), tail)) = Cat(BodyBytes(m), tail) /\ Cat(<<>>, tail) = tail
  BY <1>3, CatEmpty
<1> QED BY <1>1, <1>2, <1>4, Zenon DEF HeadRest, TrailerRest

(* The verdict is that of the first line at fault, or else of the body.     *)
HeadOk(m) == \A i \in 1..Len(HeadTexts(m)) : HeadFault(m, i) = 0

LEMMA VerdictOfHead ==
    ASSUME NEW m \in Messages, NEW i \in 1..Len(HeadTexts(m)), HeadFault(m, i) # 0,
           \A j \in 1..(i - 1) : HeadFault(m, j) = 0
    PROVE  Verdict(m) = HeadFault(m, i)
<1> DEFINE bad == {j \in DOMAIN HeadTexts(m) : HeadFault(m, j) # 0}
<1>1. DOMAIN HeadTexts(m) = 1..Len(HeadTexts(m)) /\ Len(HeadTexts(m)) \in Nat
  BY HeadTextsAre
<1>2. i \in bad
  BY <1>1
<1>3. \A j \in bad : i <= j
  BY <1>1
<1>4. bad \subseteq Nat
  BY <1>1
<1>5. Min(bad) = i
  <2> HIDE DEF bad
  <2>1. \A j \in bad : (\A k \in bad : j <= k) => j = i
    BY <1>2, <1>3, <1>4
  <2>2. Min(bad) \in bad /\ \A k \in bad : Min(bad) <= k
    BY <1>2, <1>3 DEF Min
  <2> QED BY <2>1, <2>2
<1>6. bad # {}
  BY <1>2
<1>7. Verdict(m) = IF bad = {} THEN BodyFault(m) ELSE HeadFault(m, Min(bad))
  BY Zenon DEF Verdict
<1> QED BY <1>5, <1>6, <1>7, Zenon

(* Without a fault in the head, the verdict is that of the body. *)
LEMMA VerdictOfBody ==
    ASSUME NEW m \in Messages, HeadOk(m)
    PROVE  Verdict(m) = BodyFault(m)
<1> DEFINE bad == {j \in DOMAIN HeadTexts(m) : HeadFault(m, j) # 0}
<1>1. DOMAIN HeadTexts(m) = 1..Len(HeadTexts(m)) /\ Len(HeadTexts(m)) \in Nat
  BY HeadTextsAre
<1>2. bad = {}
  BY <1>1 DEF HeadOk
<1>3. Verdict(m) = IF bad = {} THEN BodyFault(m) ELSE HeadFault(m, Min(bad))
  BY Zenon DEF Verdict
<1> QED BY <1>2, <1>3, Zenon

(* The bytes of the first lines of a head, one line after another. *)
LEMMA HeadLenSteps ==
    ASSUME NEW m \in Messages
    PROVE  /\ \A i \in 0..Len(HeadTexts(m)) : HeadLen(m, i) \in Nat
           /\ HeadLen(m, 0) = 0
           /\ HeadLen(m, Len(HeadTexts(m))) = Len(FlattenSeq(HeadLines(m)))
           /\ \A i \in 0..(Len(HeadTexts(m)) - 1) :
                 HeadLen(m, i + 1) = HeadLen(m, i) + Len(HeadLines(m)[i + 1])
<1>1. \A i : HeadLen(m, i) = Len(UpTo(HeadLines(m), i))
  BY Zenon DEF HeadLen, UpTo
<1>2. HeadLines(m) \in Seq(Seq(Octets)) /\ Len(HeadLines(m)) = Len(HeadTexts(m))
        /\ Len(HeadTexts(m)) \in Nat
  BY HeadLinesAre, HeadTextsAre
<1>3. \A i \in 0..Len(HeadTexts(m)) : Len(UpTo(HeadLines(m), i)) \in Nat
  <2>1. \A i \in 0..Len(HeadTexts(m)) : UpTo(HeadLines(m), i) \in Seq(Octets)
    BY <1>2, UpToType
  <2> QED BY <2>1
<1>4. UpTo(HeadLines(m), 0) = <<>>
        /\ UpTo(HeadLines(m), Len(HeadTexts(m))) = FlattenSeq(HeadLines(m))
  BY <1>2, UpToEnds
<1>5. \A i \in 0..(Len(HeadTexts(m)) - 1) :
         Len(UpTo(HeadLines(m), i + 1)) = Len(UpTo(HeadLines(m), i)) + Len(HeadLines(m)[i + 1])
  <2> TAKE i \in 0..(Len(HeadTexts(m)) - 1)
  <2>1. i \in Nat /\ i < Len(HeadLines(m))
    BY <1>2
  <2> QED BY <1>2, <2>1, UpToLonger
<1>6. Len(<<>>) = 0
  OBVIOUS
<1> QED BY <1>1, <1>3, <1>4, <1>5, <1>6, Zenon

(* What a whole line does. *)
Read(q, used) == [q EXCEPT !.line = <<>>, !.used = used]

(* A line is read by where the parser is. *)
LEMMA LineIs ==
    ASSUME NEW q, NEW line
    PROVE  /\ q.pc = "line" => Line(q, line) =
                    OnRequestLine(Read(q, q.used + Len(line)), TrimEol(line))
           /\ q.pc = "headers" => Line(q, line) =
                    OnHeader(Read(q, q.used + Len(line)), TrimEol(line))
           /\ q.pc = "size" => Line(q, line) = OnChunkSize(Read(q, q.used), TrimEol(line))
           /\ q.pc = "trailer" => Line(q, line) =
                    OnTrailer(Read(q, q.used + Len(line)), TrimEol(line))
BY DEF Line, Read

(* The parser that has taken a line keeps its type. *)
LEMMA ReadType ==
    ASSUME NEW q \in Parsers, NEW used \in Nat
    PROVE  /\ Read(q, used) \in Parsers
           /\ Read(q, used).pc = q.pc /\ Read(q, used).line = <<>> /\ Read(q, used).used = used
           /\ Read(q, used).need = q.need /\ Read(q, used).req = q.req
                /\ Read(q, used).status = q.status
<1>1. PICK e \in Seq(Octets) : e = <<>>
  <2>1. <<>> \in Seq(Octets)
    OBVIOUS
  <2> QED BY <2>1, Zenon
<1>2. Read(q, used) = [q EXCEPT !.line = e, !.used = used]
  BY <1>1, Zenon DEF Read
<1>3. [q EXCEPT !.line = e, !.used = used] \in Parsers
  BY DEF Parsers
<1>4. /\ [q EXCEPT !.line = e, !.used = used].pc = q.pc
      /\ [q EXCEPT !.line = e, !.used = used].line = e
      /\ [q EXCEPT !.line = e, !.used = used].used = used
      /\ [q EXCEPT !.line = e, !.used = used].need = q.need
      /\ [q EXCEPT !.line = e, !.used = used].req = q.req
      /\ [q EXCEPT !.line = e, !.used = used].status = q.status
  BY DEF Parsers
<1> QED BY <1>1, <1>2, <1>3, <1>4, Zenon

(* What the parser holds when the head was read without fault. *)
Told(q, m) == HeadOk(m) /\ q.req.line = m.line[1] /\ q.req.fields = m.fields
InChunks(q, m) ==
    /\ Told(q, m) /\ IsChunked(m) /\ LengthsOf(m.fields) = {}
    /\ q.used = Len(FlattenSeq(HeadLines(m)))
SizesFit(m) == Len(SizeLine(m, 0)) <= MaxChunkLine

(* After i lines of the head; before chunk c + 1; after t lines of trailer. *)
AtHead(q, m, i) ==
    /\ q.pc = IF i <= m.blanks THEN "line" ELSE "headers"
    /\ q.used = HeadLen(m, i)
    /\ i > m.blanks => q.req.line = m.line[1]
    /\ q.req.fields = IF i <= m.blanks THEN <<>> ELSE SubSeq(m.fields, 1, i - m.blanks - 1)
    /\ q.req.body = <<>>
    /\ \A j \in 1..i : HeadFault(m, j) = 0
AtSize(q, m, c) ==
    /\ q.pc = "size" /\ InChunks(q, m)
    /\ q.req.body = UpTo(m.chunks, c) /\ Len(UpTo(m.chunks, c)) <= MaxBody
    /\ c > 0 => m.after = CRLF /\ SizesFit(m)
AtTrailer(q, m, t) ==
    /\ q.pc = "trailer" /\ Told(q, m) /\ IsChunked(m) /\ LengthsOf(m.fields) = {}
    /\ q.used = Len(FlattenSeq(HeadLines(m))) + Len(UpTo(TrailerLines(m), t))
    /\ q.req.body = FlattenSeq(m.chunks) /\ Len(FlattenSeq(m.chunks)) <= MaxBody
    /\ m.chunks # <<>> => m.after = CRLF
    /\ SizesFit(m)

(* In a line: what is kept of it and what is to come are the rest. *)
InHead(q, m, rest, tail) ==
    \E i \in 0..(Len(HeadTexts(m)) - 1) :
        AtHead(q, m, i) /\ NoLF(q.line) /\ Cat(q.line, rest) = HeadRest(m, i, tail)
InSize(q, m, rest, tail) ==
    \E c \in 0..Len(m.chunks) :
        AtSize(q, m, c) /\ NoLF(q.line) /\ Cat(q.line, rest) = SizeRest(m, c, tail)
InTrailer(q, m, rest, tail) ==
    \E t \in 0..(Len(TrailerTexts(m)) - 1) :
        AtTrailer(q, m, t) /\ NoLF(q.line) /\ Cat(q.line, rest) = TrailerRest(m, t, tail)

(* In data: of a body, of chunk c + 1, of the two bytes after it. *)
InBody(q, m, rest, tail) ==
    /\ q.pc = "body" /\ Told(q, m) /\ ~IsChunked(m) /\ BodyFault(m) = 0
    /\ Cat(q.req.body, rest) = Cat(FlattenSeq(m.chunks), tail)
    /\ q.need > 0 /\ q.need = Len(FlattenSeq(m.chunks)) - Len(q.req.body)
AtChunk(q, m, c, part, rest, tail) ==
    /\ q.pc = "chunk" /\ InChunks(q, m) /\ SizesFit(m) /\ q.line = <<>>
    /\ q.req.body = Cat(UpTo(m.chunks, c), part) /\ Len(UpTo(m.chunks, c + 1)) <= MaxBody
    /\ Cat(part, rest) = Cat(m.chunks[c + 1], Cat(m.after, SizeRest(m, c + 1, tail)))
    /\ q.need > 0 /\ q.need = Len(m.chunks[c + 1]) - Len(part)
    /\ c > 0 => m.after = CRLF
AtCrlf(q, m, c, rest, tail) ==
    /\ q.pc = "crlf" /\ InChunks(q, m) /\ SizesFit(m)
    /\ q.req.body = UpTo(m.chunks, c + 1) /\ Len(UpTo(m.chunks, c + 1)) <= MaxBody
    /\ Cat(q.line, rest) = Cat(m.after, SizeRest(m, c + 1, tail))
    /\ q.need > 0 /\ q.need = 2 - Len(q.line)
InChunk(q, m, rest, tail) ==
    \E c \in 0..(Len(m.chunks) - 1), part \in Seq(Octets) : AtChunk(q, m, c, part, rest, tail)
InCrlf(q, m, rest, tail) ==
    \E c \in 0..(Len(m.chunks) - 1) : AtCrlf(q, m, c, rest, tail)

(* The message is read; it is refused, with the status that it is to get. *)
Ready(q, m, rest, tail) ==
    q.pc = "handler" /\ q.req = Meaning(m) /\ Verdict(m) = 0 /\ rest = tail
Refused(q, m) == q.pc = "closed" /\ Verdict(m) # 0 /\ q.status = Verdict(m)

(* The parser, in the message m; tail is what the client sends after it. *)
Parsing(q, m, rest, tail) ==
    \/ InHead(q, m, rest, tail) \/ InBody(q, m, rest, tail) \/ InSize(q, m, rest, tail)
    \/ InChunk(q, m, rest, tail) \/ InCrlf(q, m, rest, tail) \/ InTrailer(q, m, rest, tail)
    \/ Ready(q, m, rest, tail) \/ Refused(q, m)

------------------------------------------------------------------------------
(* What a whole line does: to a head, to a size, to a trailer. *)

(* A line that has not begun has no end. *)
LEMMA NoLFYet == NoLF(<<>>)
BY DEF NoLF

(* To refuse closes the connection and sets the status. *)
LEMMA RefuseIs ==
    ASSUME NEW q \in Parsers, NEW status \in Nat
    PROVE  /\ Refuse(q, status) \in Parsers /\ Refuse(q, status).pc = "closed"
           /\ Refuse(q, status).status = status
<1>1. PICK pc \in PCs : pc = "closed"
  BY DEF PCs
<1>2. Refuse(q, status) = [q EXCEPT !.pc = pc, !.status = status]
  BY <1>1, Zenon DEF Refuse
<1>3. /\ [q EXCEPT !.pc = pc, !.status = status] \in Parsers
      /\ [q EXCEPT !.pc = pc, !.status = status].pc = pc
      /\ [q EXCEPT !.pc = pc, !.status = status].status = status
  BY DEF Parsers
<1> QED BY <1>1, <1>2, <1>3, Zenon

(* A fault in the head is the verdict, if no line before has one. *)
LEMMA RefusedByHead ==
    ASSUME NEW m \in Messages, NEW i \in 0..(Len(HeadTexts(m)) - 1), NEW q \in Parsers,
           \A j \in 1..i : HeadFault(m, j) = 0,
           NEW status \in Nat \ {0}, HeadFault(m, i + 1) = status
    PROVE  Refused(Refuse(q, status), m) /\ Refuse(q, status) \in Parsers
<1>1. i + 1 \in 1..Len(HeadTexts(m)) /\ (i + 1) - 1 = i
  BY HeadTextsAre
<1>2. Verdict(m) = HeadFault(m, i + 1)
  BY <1>1, VerdictOfHead
<1> QED BY <1>2, RefuseIs DEF Refused

(* A fault in the body is the verdict, if the head has none. *)
LEMMA RefusedByBody ==
    ASSUME NEW m \in Messages, HeadOk(m), NEW q \in Parsers,
           NEW status \in Nat \ {0}, BodyFault(m) = status
    PROVE  Refused(Refuse(q, status), m) /\ Refuse(q, status) \in Parsers
BY VerdictOfBody, RefuseIs DEF Refused

(* Before the first part nothing has been taken. *)
LEMMA NoneTaken ==
    ASSUME NEW T, NEW s \in Seq(T)
    PROVE  SubSeq(s, 1, 0) = <<>>
OBVIOUS

(* After one more, the first i + 1 have been. *)
LEMMA OneMoreTaken ==
    ASSUME NEW T, NEW s \in Seq(T), NEW k \in 1..Len(s)
    PROVE  SubSeq(s, 1, k) = Append(SubSeq(s, 1, k - 1), s[k])
OBVIOUS

(* What the lines of a head are at fault for, if the head is not too long.  *)
LEMMA NotTooLong ==
    ASSUME NEW m \in Messages, NEW i \in 0..Len(HeadTexts(m)), HeadLen(m, i) <= MaxHeader
    PROVE  ~(HeadLen(m, i) > MaxHeader)
<1>1. HeadLen(m, i) \in Nat /\ MaxHeader \in Nat
  BY HeadLenSteps, FramingAssumption
<1> QED BY <1>1

(* An empty line: none. *)
LEMMA EmptyLineFault ==
    ASSUME NEW m \in Messages, NEW i \in 0..Len(HeadTexts(m)), HeadLen(m, i) <= MaxHeader,
           i # m.blanks + 1, HeadTexts(m)[i] = <<>>
    PROVE  HeadFault(m, i) = 0
BY NotTooLong DEF HeadFault

(* The request line: 505 or 400. *)
LEMMA RequestLineFault ==
    ASSUME NEW m \in Messages, NEW i \in 0..Len(HeadTexts(m)), HeadLen(m, i) <= MaxHeader,
           i = m.blanks + 1, HeadTexts(m)[i] = m.line
    PROVE  /\ m.line = <<"v2">> => HeadFault(m, i) = 505
           /\ m.line # <<"v2">> /\ Len(m.line) = 1 /\ m.line[1] \in Lines => HeadFault(m, i) = 0
           /\ m.line # <<"v2">> /\ ~(Len(m.line) = 1
                /\ m.line[1] \in Lines) => HeadFault(m, i) = 400
BY NotTooLong DEF HeadFault

(* A field: 400 if it is none. *)
LEMMA FieldFault ==
    ASSUME NEW m \in Messages, NEW i \in 0..Len(HeadTexts(m)), HeadLen(m, i) <= MaxHeader,
           i # m.blanks + 1, NEW f, HeadTexts(m)[i] = <<f>>
    PROVE  /\ f \in Fields => HeadFault(m, i) = 0
           /\ f \notin Fields => HeadFault(m, i) = 400
<1>1. <<f>> # <<>> /\ <<f>>[1] = f
  OBVIOUS
<1> QED BY <1>1, NotTooLong DEF HeadFault

(* Where a line of a head is: before the request, the request, or after it. *)
LEMMA HeadLineIs ==
    ASSUME NEW m \in Messages, NEW q \in Parsers, NEW i \in 0..(Len(HeadTexts(m)) - 1),
           AtHead(q, m, i), HeadLen(m, i + 1) <= MaxHeader
    PROVE  \E r \in Parsers :
              /\ r.pc = q.pc /\ r.req = q.req /\ r.line = <<>> /\ r.used = HeadLen(m, i + 1)
              /\ Line(q, HeadLines(m)[i + 1])
                   = IF i <= m.blanks THEN OnRequestLine(r, HeadTexts(m)[i + 1])
                     ELSE OnHeader(r, HeadTexts(m)[i + 1])
<1> DEFINE line == HeadLines(m)[i + 1]
           r == Read(q, HeadLen(m, i + 1))
<1>1. i + 1 \in 1..Len(HeadTexts(m)) /\ i \in 0..Len(HeadTexts(m))
        /\ i + 1 \in 0..Len(HeadTexts(m))
  BY HeadTextsAre
<1>2. TrimEol(line) = HeadTexts(m)[i + 1]
  BY <1>1, HeadLinesAre
<1>3. HeadLen(m, i + 1) = q.used + Len(line) /\ HeadLen(m, i + 1) \in Nat
  BY <1>1, HeadLenSteps DEF AtHead
<1>4. /\ r \in Parsers /\ r.pc = q.pc /\ r.req = q.req /\ r.line = <<>>
        /\ r.used = HeadLen(m, i + 1)
  BY <1>3, ReadType
<1>5. CASE i <= m.blanks
  <2>1. q.pc = "line"
    BY <1>5 DEF AtHead
  <2>2. Line(q, line) = OnRequestLine(r, HeadTexts(m)[i + 1])
    BY <2>1, <1>2, <1>3, LineIs, Zenon
  <2> QED BY <1>4, <1>5, <2>2, Zenon
<1>6. CASE ~(i <= m.blanks)
  <2>1. q.pc = "headers"
    BY <1>6 DEF AtHead
  <2>2. Line(q, line) = OnHeader(r, HeadTexts(m)[i + 1])
    BY <2>1, <1>2, <1>3, LineIs, Zenon
  <2> QED BY <1>4, <1>6, <2>2, Zenon
<1> QED BY <1>5, <1>6

(* A head with a line more read, and more to come, is still a head. *)
LEMMA InHeadNext ==
    ASSUME NEW m \in Messages, SaysItsSize(m), NEW tail \in Seq(Octets), NEW q,
           NEW i \in 0..(Len(HeadTexts(m)) - 1), AtHead(q, m, i), q.line = <<>>
    PROVE  Parsing(q, m, HeadRest(m, i, tail), tail)
<1>1. HeadRest(m, i, tail) \in Seq(Octets)
  BY RestTypes
<1>2. Cat(q.line, HeadRest(m, i, tail)) = HeadRest(m, i, tail)
  BY <1>1, CatEmpty
<1> QED BY <1>2, NoLFYet, Zenon DEF Parsing, InHead

(* An empty line before the request is passed over. *)
LEMMA BlankLineEnds ==
    ASSUME NEW m \in Messages, SaysItsSize(m), NEW tail \in Seq(Octets), NEW q \in Parsers,
           NEW i \in 0..(Len(HeadTexts(m)) - 1), AtHead(q, m, i), HeadLen(m, i + 1) <= MaxHeader,
           i < m.blanks
    PROVE  /\ Parsing(Line(q, HeadLines(m)[i + 1]), m, HeadRest(m, i + 1, tail), tail)
           /\ Line(q, HeadLines(m)[i + 1]) \in Parsers
<1>1. PICK r \in Parsers :
         /\ r.pc = q.pc /\ r.req = q.req /\ r.line = <<>> /\ r.used = HeadLen(m, i + 1)
         /\ Line(q, HeadLines(m)[i + 1]) = IF i <= m.blanks
                  THEN OnRequestLine(r, HeadTexts(m)[i + 1])
                                           ELSE OnHeader(r, HeadTexts(m)[i + 1])
  BY HeadLineIs
<1>2. /\ m.blanks \in Nat /\ Len(m.fields) \in Nat
        /\ Len(HeadTexts(m)) = m.blanks + Len(m.fields) + 2
      /\ HeadTexts(m)[i + 1] = <<>>
  BY MessageType, HeadTextsAre
<1>3. Line(q, HeadLines(m)[i + 1]) = r
  BY <1>1, <1>2 DEF OnRequestLine
<1>4. i + 1 \in 0..(Len(HeadTexts(m)) - 1) /\ i + 1 <= m.blanks /\ i <= m.blanks
        /\ i + 1 # m.blanks + 1
  BY <1>2
<1>5. HeadFault(m, i + 1) = 0
  BY <1>2, <1>4, EmptyLineFault
<1>6. \A j \in 1..(i + 1) : HeadFault(m, j) = 0
  BY <1>5 DEF AtHead
<1>7. AtHead(r, m, i + 1)
  <2>1. ~(i + 1 > m.blanks)
    BY <1>2, <1>4
  <2> QED BY <1>1, <1>4, <1>6, <2>1, Zenon DEF AtHead
<1>8. Parsing(r, m, HeadRest(m, i + 1, tail), tail)
  BY <1>1, <1>4, <1>7, InHeadNext
<1> QED BY <1>3, <1>8

(* The request line is what the request is, or is at fault. *)
LEMMA RequestLineEnds ==
    ASSUME NEW m \in Messages, SaysItsSize(m), NEW tail \in Seq(Octets), NEW q \in Parsers,
           NEW i \in 0..(Len(HeadTexts(m)) - 1), AtHead(q, m, i), HeadLen(m, i + 1) <= MaxHeader,
           i \in {m.blanks}
    PROVE  /\ Parsing(Line(q, HeadLines(m)[i + 1]), m, HeadRest(m, i + 1, tail), tail)
           /\ Line(q, HeadLines(m)[i + 1]) \in Parsers
<1>1. PICK r \in Parsers :
         /\ r.pc = q.pc /\ r.req = q.req /\ r.line = <<>> /\ r.used = HeadLen(m, i + 1)
         /\ Line(q, HeadLines(m)[i + 1]) = IF i <= m.blanks
                  THEN OnRequestLine(r, HeadTexts(m)[i + 1])
                                           ELSE OnHeader(r, HeadTexts(m)[i + 1])
  BY HeadLineIs
<1>2. /\ m.blanks \in Nat /\ Len(m.fields) \in Nat
        /\ Len(HeadTexts(m)) = m.blanks + Len(m.fields) + 2
      /\ HeadTexts(m)[i + 1] = m.line /\ m.line \in Seq(Symbols) /\ m.line # <<>>
      /\ m.fields \in Seq(Symbols)
  BY MessageType, HeadTextsAre
<1>3. Line(q, HeadLines(m)[i + 1]) = OnRequestLine(r, m.line)
  BY <1>1, <1>2
<1>4. /\ i + 1 \in 0..(Len(HeadTexts(m)) - 1) /\ i + 1 > m.blanks /\ ~(i + 1 <= m.blanks)
      /\ i <= m.blanks /\ (i + 1) - m.blanks - 1 = 0 /\ i + 1 = m.blanks + 1
      /\ i + 1 \in 0..Len(HeadTexts(m)) /\ \A j \in 1..(i + 1) : j \in 1..i \/ j = i + 1
  <2>1. PICK b \in Nat, f \in Nat : b = m.blanks /\ f = Len(m.fields)
    BY <1>2
  <2>2. PICK n \in Nat : n = Len(HeadTexts(m)) /\ n = b + f + 2
    BY <1>2, <2>1
  <2>3. /\ b + 1 \in 0..(n - 1) /\ b + 1 > b /\ ~(b + 1 <= b) /\ b <= b /\ (b + 1) - b - 1 = 0
        /\ b + 1 \in 0..n /\ \A j \in 1..(b + 1) : j \in 1..b \/ j = b + 1
    BY <2>2
  <2>4. i = b
    BY <2>1
  <2> QED BY <2>1, <2>2, <2>3, <2>4, Zenon
<1>5. /\ m.line = <<"v2">> => HeadFault(m, i + 1) = 505
      /\ m.line # <<"v2">> /\ Len(m.line) = 1 /\ m.line[1] \in Lines => HeadFault(m, i + 1) = 0
      /\ m.line # <<"v2">> /\ ~(Len(m.line) = 1
           /\ m.line[1] \in Lines) => HeadFault(m, i + 1) = 400
  <2>1. PICK n \in 0..Len(HeadTexts(m)) : n = i + 1
    BY <1>4
  <2>2. n = m.blanks + 1 /\ HeadTexts(m)[n] = m.line /\ HeadLen(m, n) <= MaxHeader
    BY <1>2, <1>4, <2>1, Zenon
  <2> HIDE <1>2, <1>4
  <2>3. /\ m.line = <<"v2">> => HeadFault(m, n) = 505
        /\ m.line # <<"v2">> /\ Len(m.line) = 1 /\ m.line[1] \in Lines => HeadFault(m, n) = 0
        /\ m.line # <<"v2">> /\ ~(Len(m.line) = 1
             /\ m.line[1] \in Lines) => HeadFault(m, n) = 400
    BY <2>2, RequestLineFault
  <2> QED BY <2>1, <2>3, Zenon
<1>6. \A j \in 1..i : HeadFault(m, j) = 0
  BY DEF AtHead
<1>7. CASE m.line = <<"v2">>
  <2>1. OnRequestLine(r, m.line) = Refuse(r, 505)
    BY <1>2, <1>7, Zenon DEF OnRequestLine
  <2>2. Refused(Refuse(r, 505), m) /\ Refuse(r, 505) \in Parsers
    BY <1>5, <1>6, <1>7, RefusedByHead
  <2> QED BY <1>3, <2>1, <2>2, Zenon DEF Parsing
<1>8. CASE m.line # <<"v2">> /\ Len(m.line) = 1 /\ m.line[1] \in Lines
  <2>1. PICK pc \in PCs, l \in Symbols \cup {""} : pc = "headers" /\ l = m.line[1]
    <3>1. "headers" \in PCs
      BY DEF PCs
    <3>2. m.line[1] \in Symbols
      BY <1>2, <1>8
    <3> QED BY <3>1, <3>2
  <2>2. PICK s : s = [r EXCEPT !.pc = pc, !.req.line = l]
    OBVIOUS
  <2>3. OnRequestLine(r, m.line) = s
    BY <1>2, <1>8, <2>1, <2>2, Zenon DEF OnRequestLine
  <2>4. /\ s \in Parsers /\ s.pc = pc /\ s.used = r.used /\ s.line = r.line
        /\ s.req.line = l /\ s.req.fields = r.req.fields /\ s.req.body = r.req.body
    BY <2>2 DEF Parsers, Requests
  <2>5. HeadFault(m, i + 1) = 0
    BY <1>5, <1>8, Zenon
  <2>6. \A j \in 1..(i + 1) : HeadFault(m, j) = 0
    <3> QED BY <1>4, <1>6, <2>5, Zenon
  <2>7. SubSeq(m.fields, 1, (i + 1) - m.blanks - 1) = <<>>
    <3>1. SubSeq(m.fields, 1, 0) = <<>>
      <4>1. m.fields \in Seq(Symbols)
        BY <1>2
      <4> QED BY <4>1, NoneTaken
    <3> QED BY <1>4, <3>1, Zenon
  <2>8. r.req.fields = <<>> /\ r.req.body = <<>>
    BY <1>1, <1>4, Zenon DEF AtHead
  <2>9. AtHead(s, m, i + 1)
    BY <1>1, <1>4, <2>1, <2>4, <2>6, <2>7, <2>8, Zenon DEF AtHead
  <2>10. s.line = <<>>
    BY <1>1, <2>4
  <2>11. Parsing(s, m, HeadRest(m, i + 1, tail), tail)
    BY <1>4, <2>9, <2>10, InHeadNext
  <2> QED BY <1>3, <2>3, <2>4, <2>11, Zenon
<1>9. CASE m.line # <<"v2">> /\ ~(Len(m.line) = 1 /\ m.line[1] \in Lines)
  <2>1. OnRequestLine(r, m.line) = Refuse(r, 400)
    BY <1>2, <1>9, Zenon DEF OnRequestLine
  <2>3. HeadFault(m, i + 1) = 400
    BY <1>5, <1>9, Zenon
  <2>4. Refused(Refuse(r, 400), m) /\ Refuse(r, 400) \in Parsers
    BY <1>6, <2>3, RefusedByHead
  <2> QED BY <1>3, <2>1, <2>4, Zenon DEF Parsing
<1> QED BY <1>7, <1>8, <1>9, Zenon

(* A field is one of the request's, or is at fault. *)
LEMMA FieldLineEnds ==
    ASSUME NEW m \in Messages, SaysItsSize(m), NEW tail \in Seq(Octets), NEW q \in Parsers,
           NEW i \in 0..(Len(HeadTexts(m)) - 1), AtHead(q, m, i), HeadLen(m, i + 1) <= MaxHeader,
           m.blanks < i, i < Len(HeadTexts(m)) - 1
    PROVE  /\ Parsing(Line(q, HeadLines(m)[i + 1]), m, HeadRest(m, i + 1, tail), tail)
           /\ Line(q, HeadLines(m)[i + 1]) \in Parsers
<1>1. PICK r \in Parsers :
         /\ r.pc = q.pc /\ r.req = q.req /\ r.line = <<>> /\ r.used = HeadLen(m, i + 1)
         /\ Line(q, HeadLines(m)[i + 1]) = IF i <= m.blanks
                  THEN OnRequestLine(r, HeadTexts(m)[i + 1])
                                           ELSE OnHeader(r, HeadTexts(m)[i + 1])
  BY HeadLineIs
<1>2. /\ m.blanks \in Nat /\ Len(m.fields) \in Nat
        /\ Len(HeadTexts(m)) = m.blanks + Len(m.fields) + 2
      /\ \A k \in 1..Len(m.fields) : HeadTexts(m)[m.blanks + 1 + k] = <<m.fields[k]>>
      /\ m.fields \in Seq(Symbols)
  <2>1. m.blanks \in Nat /\ Len(m.fields) \in Nat /\ m.fields \in Seq(Symbols)
    BY MessageType
  <2>2. /\ Len(HeadTexts(m)) = m.blanks + Len(m.fields) + 2
        /\ \A k \in 1..Len(m.fields) : HeadTexts(m)[m.blanks + 1 + k] = <<m.fields[k]>>
    BY HeadTextsAre, Zenon
  <2> QED BY <2>1, <2>2, Zenon
<1>3. PICK k \in 1..Len(m.fields) : k = i - m.blanks
  BY <1>2
<1>4. /\ i + 1 = m.blanks + 1 + k /\ i + 1 \in 0..(Len(HeadTexts(m)) - 1) /\ ~(i <= m.blanks)
      /\ ~(i + 1 <= m.blanks) /\ i + 1 > m.blanks /\ i > m.blanks /\ i + 1 # m.blanks + 1
      /\ (i + 1) - m.blanks - 1 = k /\ i - m.blanks - 1 = k - 1
  BY <1>2, <1>3
<1>5. PICK f \in Symbols : f = m.fields[k]
  BY <1>2
<1>6. HeadTexts(m)[i + 1] = <<f>>
  BY <1>2, <1>4, <1>5
<1>7. Line(q, HeadLines(m)[i + 1]) = OnHeader(r, <<f>>)
  BY <1>1, <1>4, <1>6
<1>8. <<f>> # <<>> /\ Len(<<f>>) = 1 /\ <<f>>[1] = f
  OBVIOUS
<1>9. /\ f \in Fields => HeadFault(m, i + 1) = 0
      /\ f \notin Fields => HeadFault(m, i + 1) = 400
  <2>1. i + 1 \in 0..Len(HeadTexts(m))
    BY HeadTextsAre
  <2> QED BY <1>4, <1>6, <2>1, FieldFault
<1>10. \A j \in 1..i : HeadFault(m, j) = 0
  BY DEF AtHead
<1>11. CASE f \in Fields
  <2>0. PICK g \in Seq(Symbols) : g = Append(r.req.fields, f)
    <3>1. r.req.fields \in Seq(Symbols)
      BY DEF Parsers, Requests
    <3>2. Append(r.req.fields, f) \in Seq(Symbols)
      BY <3>1
    <3> QED BY <3>2, Zenon
  <2>1. PICK s : s = [r EXCEPT !.req.fields = g]
    OBVIOUS
  <2>2. OnHeader(r, <<f>>) = s
    <3>1. OnHeader(r, <<f>>) = [r EXCEPT !.req.fields = Append(r.req.fields, f)]
      <4>1. [r EXCEPT !.req.fields = Append(@, f)] = [r EXCEPT !.req.fields =
                  Append(r.req.fields, f)]
        OBVIOUS
      <4> QED BY <1>8, <1>11, <4>1, Zenon DEF OnHeader
    <3> QED BY <2>0, <2>1, <3>1, Zenon
  <2>3. /\ s \in Parsers /\ s.pc = r.pc /\ s.used = r.used /\ s.line = r.line
        /\ s.req.line = r.req.line /\ s.req.fields = g /\ s.req.body = r.req.body
    BY <2>1 DEF Parsers, Requests
  <2>4. \A j \in 1..(i + 1) : HeadFault(m, j) = 0
    BY <1>9, <1>10, <1>11
  <2>5. r.req.fields = SubSeq(m.fields, 1, k - 1)
    BY <1>1, <1>4, Zenon DEF AtHead
  <2>6. Append(SubSeq(m.fields, 1, k - 1), f) = SubSeq(m.fields, 1, k)
    BY <1>2, <1>5, OneMoreTaken, Zenon
  <2>7. AtHead(s, m, i + 1)
    BY <1>1, <1>4, <2>0, <2>3, <2>4, <2>5, <2>6, Zenon DEF AtHead
  <2>8. s.line = <<>>
    BY <1>1, <2>3
  <2>9. Parsing(s, m, HeadRest(m, i + 1, tail), tail)
    BY <1>4, <2>7, <2>8, InHeadNext
  <2> QED BY <1>7, <2>2, <2>3, <2>9, Zenon
<1>12. CASE f \notin Fields
  <2>1. OnHeader(r, <<f>>) = Refuse(r, 400)
    BY <1>8, <1>12, Zenon DEF OnHeader
  <2>2. Refused(Refuse(r, 400), m) /\ Refuse(r, 400) \in Parsers
    BY <1>9, <1>10, <1>12, RefusedByHead
  <2> QED BY <1>7, <2>1, <2>2, Zenon DEF Parsing
<1> QED BY <1>11, <1>12

(* A parser that only moves, ... *)
LEMMA GoesTo ==
    ASSUME NEW q \in Parsers, NEW pc \in PCs
    PROVE  /\ [q EXCEPT !.pc = pc] \in Parsers /\ [q EXCEPT !.pc = pc].pc = pc
           /\ [q EXCEPT !.pc = pc].line = q.line /\ [q EXCEPT !.pc = pc].used = q.used
           /\ [q EXCEPT !.pc = pc].need = q.need /\ [q EXCEPT !.pc = pc].req = q.req
BY DEF Parsers

(* ... or is to read some data, keeps what else it has. *)
ReadOn(q, pc, need) == [q EXCEPT !.pc = pc, !.need = need]

(* The two together. *)
LEMMA GoesToRead ==
    ASSUME NEW q \in Parsers, NEW pc \in PCs, NEW need \in Nat,
           NEW s, s = ReadOn(q, pc, need)
    PROVE  /\ s \in Parsers /\ s.pc = pc /\ s.need = need
           /\ s.line = q.line /\ s.used = q.used /\ s.req = q.req
BY DEF Parsers, ReadOn

(* Where a parser can be. *)
LEMMA PCsAre ==
    /\ "line" \in PCs /\ "headers" \in PCs /\ "body" \in PCs /\ "size" \in PCs /\ "chunk" \in PCs
    /\ "crlf" \in PCs /\ "trailer" \in PCs /\ "handler" \in PCs /\ "closed" \in PCs
BY DEF PCs

(* What a message means. *)
LEMMA MeaningIs ==
    ASSUME NEW req \in Requests, NEW m \in Messages, req.line = m.line[1], req.fields = m.fields,
           req.body = FlattenSeq(m.chunks)
    PROVE  req = Meaning(m)
BY DEF Requests, Meaning

(* The lengths that a message declares. *)
LEMMA LengthsOfIs ==
    ASSUME NEW fields
    PROVE  /\ Cardinality(LengthsOf(fields)) \in Nat
           /\ LengthsOf(fields) = {} => ~(Cardinality(LengthsOf(fields)) > 1)
           /\ \A f \in LengthsOf(fields) : Lengths[f] \in Nat
<1> DEFINE D == {"len0", "len1", "len2", "len9"}
<1>1. DOMAIN Lengths = D /\ \A f \in D : Lengths[f] \in Nat
  BY DEF Lengths
<1>2. LengthsOf(fields) \subseteq D
  BY <1>1 DEF LengthsOf
<1>3. IsFiniteSet(D)
  <2>1. IsFiniteSet({"len0"})
    BY FS_Singleton
  <2>2. IsFiniteSet({"len0"} \cup {"len1"})
    BY <2>1, FS_AddElement
  <2>3. IsFiniteSet(({"len0"} \cup {"len1"}) \cup {"len2"})
    BY <2>2, FS_AddElement
  <2>4. IsFiniteSet((({"len0"} \cup {"len1"}) \cup {"len2"}) \cup {"len9"})
    BY <2>3, FS_AddElement
  <2>5. D = ((({"len0"} \cup {"len1"}) \cup {"len2"}) \cup {"len9"})
    OBVIOUS
  <2> QED BY <2>4, <2>5
<1> HIDE DEF D
<1>4. IsFiniteSet(LengthsOf(fields)) /\ Cardinality(LengthsOf(fields)) \in Nat
  BY <1>2, <1>3, FS_Subset, FS_CardinalityType
<1>5. LengthsOf(fields) = {} => Cardinality(LengthsOf(fields)) = 0
  BY FS_EmptySet
<1> QED BY <1>1, <1>2, <1>4, <1>5

(* The length that a message declares, if it declares one. *)
Declared(m) == Lengths[CHOOSE f \in LengthsOf(m.fields) : TRUE]

(* It is the size of the body. *)
LEMMA DeclaredSize ==
    ASSUME NEW m \in Messages, SaysItsSize(m), Coding(m.fields) = "none"
    PROVE  /\ LengthsOf(m.fields) = {} => Len(FlattenSeq(m.chunks)) = 0
           /\ LengthsOf(m.fields) # {} /\ ~(Cardinality(LengthsOf(m.fields)) > 1) =>
                 Declared(m) = Len(FlattenSeq(m.chunks))
<1> DEFINE lens == LengthsOf(m.fields)
           size == Len(FlattenSeq(m.chunks))
<1>1. Cardinality(lens) < 2 => (IF lens = {} THEN {0} ELSE {Lengths[f] : f \in lens}) = {size}
  BY DEF SaysItsSize
<1>2. ~(Cardinality(lens) > 1) => Cardinality(lens) < 2
  BY LengthsOfIs
<1>3. ASSUME lens = {} PROVE size = 0
  <2>1. ~(Cardinality(lens) > 1)
    BY <1>3, LengthsOfIs
  <2>2. {0} = {size}
    BY <1>1, <1>2, <1>3, <2>1
  <2> QED BY <2>2
<1>4. ASSUME lens # {}, ~(Cardinality(lens) > 1) PROVE Lengths[CHOOSE f \in lens : TRUE] = size
  <2>1. PICK c \in lens : c = CHOOSE f \in lens : TRUE
    BY <1>4
  <2>2. {Lengths[f] : f \in lens} = {size}
    BY <1>1, <1>2, <1>4
  <2> QED BY <2>1, <2>2
<1> QED BY <1>3, <1>4, Zenon DEF Declared

(* The cases of Body ... *)
BodyCases(q, m) ==
    /\ Coding(m.fields) # "none" /\ LengthsOf(m.fields) # {} => Body(q) = Refuse(q, 400)
    /\ Coding(m.fields) = "te" /\ LengthsOf(m.fields) = {} => Body(q) = [q EXCEPT !.pc = "size"]
    /\ Coding(m.fields) # "te" /\ Coding(m.fields) # "none"
         /\ LengthsOf(m.fields) = {} => Body(q) = Refuse(q, 501)
    /\ Coding(m.fields) = "none"
         /\ LengthsOf(m.fields) = {} => Body(q) = [q EXCEPT !.pc = "handler"]
    /\ Coding(m.fields) = "none" /\ LengthsOf(m.fields) # {}
         /\ Cardinality(LengthsOf(m.fields)) > 1 => Body(q) = Refuse(q, 400)
    /\ Coding(m.fields) = "none" /\ LengthsOf(m.fields) # {}
         /\ ~(Cardinality(LengthsOf(m.fields)) > 1) /\ Declared(m) > MaxBody =>
          Body(q) = Refuse(q, 413)
    /\ Coding(m.fields) = "none" /\ LengthsOf(m.fields) # {}
         /\ ~(Cardinality(LengthsOf(m.fields)) > 1) /\ ~(Declared(m) > MaxBody)
              /\ Declared(m) = 0 =>
          Body(q) = [q EXCEPT !.pc = "handler", !.need = Declared(m)]
    /\ Coding(m.fields) = "none" /\ LengthsOf(m.fields) # {}
         /\ ~(Cardinality(LengthsOf(m.fields)) > 1) /\ ~(Declared(m) > MaxBody)
              /\ Declared(m) # 0 =>
          Body(q) = [q EXCEPT !.pc = "body", !.need = Declared(m)]

(* ... are all of them, ... *)
LEMMA BodyIs ==
    ASSUME NEW q, NEW m, q.req.fields = m.fields
    PROVE  BodyCases(q, m)
BY DEF Body, Declared, BodyCases

(* ... and those of BodyFault. *)
LEMMA BodyFaultIs ==
    ASSUME NEW m
    PROVE  LET coding == Coding(m.fields)
               lens == LengthsOf(m.fields)
               size == Len(FlattenSeq(m.chunks))
           IN /\ (coding # "none" /\ lens # {}) \/ Cardinality(lens) > 1 => BodyFault(m) = 400
              /\ coding = "none" /\ ~(Cardinality(lens) > 1) =>
                    BodyFault(m) = IF size > MaxBody THEN 413 ELSE 0
              /\ coding # "none" /\ coding # "te" /\ lens = {} /\ ~(Cardinality(lens) > 1) =>
                    BodyFault(m) = 501
BY DEF BodyFault

(* After the head comes the body, or the refusal that it is to get. *)
LEMMA BodyBegins ==
    ASSUME NEW m \in Messages, SaysItsSize(m), NEW tail \in Seq(Octets), NEW r \in Parsers,
           Told(r, m), r.line = <<>>, r.req.body = <<>>, r.used = Len(FlattenSeq(HeadLines(m)))
    PROVE  Parsing(Body(r), m, Cat(BodyBytes(m), tail), tail) /\ Body(r) \in Parsers
<1> DEFINE coding == Coding(m.fields)
           lens == LengthsOf(m.fields)
           n == Declared(m)
           flat == FlattenSeq(m.chunks)
<1>1. HeadOk(m) /\ r.req.line = m.line[1] /\ r.req.fields = m.fields
  BY DEF Told
<1>b. BodyCases(r, m)
  BY <1>1, BodyIs
<1>2. flat \in Seq(Octets) /\ Len(flat) \in Nat
  <2>1. flat \in Seq(Octets)
    BY MessageType, FlatType
  <2> QED BY <2>1
<1>3. MaxBody \in Nat
  BY FramingAssumption
<1>n. coding = "none" /\ lens # {} /\ ~(Cardinality(lens) > 1) => n \in Nat
  BY <1>2, DeclaredSize
<1>4. CASE coding # "none" /\ lens # {}
  <2>1. Body(r) = Refuse(r, 400)
    BY <1>4, <1>b, Zenon DEF BodyCases
  <2>2. BodyFault(m) = 400
    BY <1>4, BodyFaultIs
  <2>3. Refused(Refuse(r, 400), m) /\ Refuse(r, 400) \in Parsers
    BY <1>1, <2>2, RefusedByBody
  <2> QED BY <2>1, <2>3, Zenon DEF Parsing
<1>5. CASE coding = "te" /\ lens = {}
  <2> DEFINE s == [r EXCEPT !.pc = "size"]
  <2>1. Body(r) = s
    BY <1>5, <1>b, Zenon DEF BodyCases
  <2>2. s \in Parsers /\ s.pc = "size" /\ s.line = r.line /\ s.used = r.used /\ s.req = r.req
    BY GoesTo, PCsAre, Zenon
  <2>3. UpTo(m.chunks, 0) = <<>> /\ Len(<<>>) = 0 /\ 0 <= MaxBody /\ ~(0 > 0)
    BY <1>3, MessageType, UpToEnds
  <2>4. AtSize(s, m, 0)
    BY <1>1, <1>5, <2>2, <2>3, Zenon DEF AtSize, InChunks, Told, IsChunked
  <2>5. Cat(BodyBytes(m), tail) = SizeRest(m, 0, tail)
    BY <1>5, ChunkedBody DEF IsChunked, SizeRest
  <2>6. Cat(<<>>, SizeRest(m, 0, tail)) = SizeRest(m, 0, tail)
    BY <1>5, RestTypes, CatEmpty DEF IsChunked
  <2>7. 0 \in 0..Len(m.chunks)
    BY MessageType
  <2>8. InSize(s, m, SizeRest(m, 0, tail), tail)
    BY <2>2, <2>4, <2>6, <2>7, NoLFYet, Zenon DEF InSize
  <2> QED BY <2>1, <2>2, <2>5, <2>8, Zenon DEF Parsing
<1>6. CASE coding # "te" /\ coding # "none" /\ lens = {}
  <2>1. Body(r) = Refuse(r, 501)
    BY <1>6, <1>b, Zenon DEF BodyCases
  <2>2. BodyFault(m) = 501
    BY <1>6, BodyFaultIs, LengthsOfIs
  <2>3. Refused(Refuse(r, 501), m) /\ Refuse(r, 501) \in Parsers
    BY <1>1, <2>2, RefusedByBody
  <2> QED BY <2>1, <2>3, Zenon DEF Parsing
<1>7. CASE coding = "none" /\ lens # {} /\ Cardinality(lens) > 1
  <2>1. Body(r) = Refuse(r, 400)
    BY <1>7, <1>b, Zenon DEF BodyCases
  <2>2. BodyFault(m) = 400
    BY <1>7, BodyFaultIs
  <2>3. Refused(Refuse(r, 400), m) /\ Refuse(r, 400) \in Parsers
    BY <1>1, <2>2, RefusedByBody
  <2> QED BY <2>1, <2>3, Zenon DEF Parsing
<1>8. ASSUME coding = "none" PROVE Cat(BodyBytes(m), tail) = Cat(flat, tail) /\ ~IsChunked(m)
  BY <1>8, PlainBody DEF IsChunked
<1>9. ASSUME coding = "none", ~(Cardinality(lens) > 1), ~(Len(flat) > MaxBody)
      PROVE  BodyFault(m) = 0 /\ Verdict(m) = 0
  BY <1>1, <1>9, BodyFaultIs, VerdictOfBody
<1>10. ASSUME coding = "none", Len(flat) = 0, BodyFault(m) = 0,
              NEW s \in Parsers, s.pc = "handler", s.req = r.req
       PROVE  Parsing(s, m, Cat(BodyBytes(m), tail), tail)
  <2>1. flat = <<>>
    BY <1>2, <1>10
  <2>2. Cat(BodyBytes(m), tail) = tail
    BY <1>8, <1>10, <2>1, CatEmpty
  <2>3. r.req = Meaning(m)
    <3>1. r.req \in Requests
      BY DEF Parsers
    <3> QED BY <1>1, <2>1, <3>1, MeaningIs
  <2>4. Verdict(m) = 0
    BY <1>1, <1>10, VerdictOfBody
  <2> QED BY <1>10, <2>2, <2>3, <2>4, Zenon DEF Parsing, Ready
<1>11. CASE coding = "none" /\ lens = {}
  <2> DEFINE s == [r EXCEPT !.pc = "handler"]
  <2>1. Body(r) = s
    BY <1>11, <1>b, Zenon DEF BodyCases
  <2>2. s \in Parsers /\ s.pc = "handler" /\ s.req = r.req
    BY GoesTo, PCsAre, Zenon
  <2>3. Len(flat) = 0 /\ ~(Len(flat) > MaxBody) /\ ~(Cardinality(lens) > 1)
    <3>1. ~(Cardinality(lens) > 1)
      BY <1>11, LengthsOfIs, Zenon
    <3>2. Len(flat) = 0
      BY <1>11, DeclaredSize, Zenon
    <3> QED BY <1>3, <3>1, <3>2
  <2>4. BodyFault(m) = 0
    BY <1>9, <1>11, <2>3
  <2> HIDE DEF s
  <2> QED BY <1>10, <1>11, <2>1, <2>2, <2>3, <2>4
<1>12. CASE coding = "none" /\ lens # {} /\ ~(Cardinality(lens) > 1)
  <2>1. n = Len(flat)
    BY <1>12, DeclaredSize
  <2>2. CASE n > MaxBody
    <3>1. Body(r) = Refuse(r, 413)
      BY <1>12, <2>2, <1>b, Zenon DEF BodyCases
    <3>2. BodyFault(m) = 413
      BY <1>12, <2>1, <2>2, BodyFaultIs
    <3>3. Refused(Refuse(r, 413), m) /\ Refuse(r, 413) \in Parsers
      BY <1>1, <3>2, RefusedByBody
    <3> QED BY <3>1, <3>3, Zenon DEF Parsing
  <2>3. CASE ~(n > MaxBody) /\ n = 0
    <3> DEFINE s == [r EXCEPT !.pc = "handler", !.need = n]
    <3>1. Body(r) = s
      BY <1>12, <2>3, <1>b, Zenon DEF BodyCases
    <3>2. s \in Parsers /\ s.pc = "handler" /\ s.req = r.req
      <4>1. n \in Nat
        BY <1>n, <1>12, Zenon
      <4>2. s = ReadOn(r, "handler", n)
        BY Zenon DEF ReadOn
      <4> HIDE DEF s, n
      <4>3. "handler" \in PCs
        BY PCsAre
      <4> QED BY <4>1, <4>2, <4>3, GoesToRead
    <3>3. BodyFault(m) = 0 /\ Len(flat) = 0
      BY <1>9, <1>12, <2>1, <2>3
    <3> HIDE DEF s
    <3> QED BY <1>10, <1>12, <3>1, <3>2, <3>3
  <2>4. CASE ~(n > MaxBody) /\ n # 0
    <3> DEFINE s == [r EXCEPT !.pc = "body", !.need = n]
    <3>1. Body(r) = s
      BY <1>12, <2>4, <1>b, Zenon DEF BodyCases
    <3>2. s \in Parsers /\ s.pc = "body" /\ s.need = n /\ s.req = r.req
      <4>1. n \in Nat
        BY <1>n, <1>12, Zenon
      <4>2. s = ReadOn(r, "body", n)
        BY Zenon DEF ReadOn
      <4> HIDE DEF s, n
      <4>3. "body" \in PCs
        BY PCsAre
      <4> QED BY <4>1, <4>2, <4>3, GoesToRead
    <3>3. BodyFault(m) = 0
      BY <1>9, <1>12, <2>1, <2>4
    <3>4. n > 0 /\ n = Len(flat) - Len(<<>>)
      BY <1>2, <2>1, <2>4
    <3>5. Cat(<<>>, Cat(BodyBytes(m), tail)) = Cat(flat, tail)
      BY <1>2, <1>8, <1>12, CatType, CatEmpty
    <3> HIDE DEF s
    <3>6. Told(s, m)
      BY <1>1, <3>2, Zenon DEF Told
    <3>7. InBody(s, m, Cat(BodyBytes(m), tail), tail)
      BY <1>8, <1>12, <3>2, <3>3, <3>4, <3>5, <3>6, Zenon DEF InBody
    <3> QED BY <3>1, <3>2, <3>7, Zenon DEF Parsing
  <2> QED BY <2>2, <2>3, <2>4
<1> QED BY <1>4, <1>5, <1>6, <1>7, <1>11, <1>12, Zenon

(* The first of all parts are the whole. *)
LEMMA AllTaken ==
    ASSUME NEW T, NEW s \in Seq(T)
    PROVE  SubSeq(s, 1, Len(s)) = s
OBVIOUS

(* The empty line that ends the head begins the body. *)
LEMMA LastHeadLineEnds ==
    ASSUME NEW m \in Messages, SaysItsSize(m), NEW tail \in Seq(Octets), NEW q \in Parsers,
           NEW i \in 0..(Len(HeadTexts(m)) - 1), AtHead(q, m, i), HeadLen(m, i + 1) <= MaxHeader,
           i \in {Len(HeadTexts(m)) - 1}
    PROVE  /\ Parsing(Line(q, HeadLines(m)[i + 1]), m, HeadRest(m, i + 1, tail), tail)
           /\ Line(q, HeadLines(m)[i + 1]) \in Parsers
<1>1. PICK r \in Parsers :
         /\ r.pc = q.pc /\ r.req = q.req /\ r.line = <<>> /\ r.used = HeadLen(m, i + 1)
         /\ Line(q, HeadLines(m)[i + 1]) = IF i <= m.blanks
                  THEN OnRequestLine(r, HeadTexts(m)[i + 1])
                                           ELSE OnHeader(r, HeadTexts(m)[i + 1])
  BY HeadLineIs
<1>2. /\ m.blanks \in Nat /\ Len(m.fields) \in Nat /\ m.fields \in Seq(Symbols)
      /\ Len(HeadTexts(m)) = m.blanks + Len(m.fields) + 2
      /\ HeadTexts(m)[m.blanks + Len(m.fields) + 2] = <<>>
  <2>1. m.blanks \in Nat /\ Len(m.fields) \in Nat /\ m.fields \in Seq(Symbols)
    BY MessageType
  <2>2. /\ Len(HeadTexts(m)) = m.blanks + Len(m.fields) + 2
        /\ HeadTexts(m)[m.blanks + Len(m.fields) + 2] = <<>>
    BY HeadTextsAre, Zenon
  <2> QED BY <2>1, <2>2, Zenon
<1>3. /\ i + 1 = Len(HeadTexts(m)) /\ i + 1 \in 0..Len(HeadTexts(m)) /\ ~(i <= m.blanks)
      /\ i > m.blanks /\ i + 1 # m.blanks + 1 /\ i - m.blanks - 1 = Len(m.fields)
      /\ \A j \in 1..Len(HeadTexts(m)) : j \in 1..i \/ j = i + 1
  <2>1. PICK b \in Nat, f \in Nat : b = m.blanks /\ f = Len(m.fields)
    BY <1>2
  <2>2. PICK n \in Nat : n = Len(HeadTexts(m)) /\ n = b + f + 2
    BY <1>2, <2>1
  <2>3. i = n - 1
    BY <2>2
  <2>4. /\ i + 1 = n /\ i + 1 \in 0..n /\ ~(i <= b) /\ i > b /\ i + 1 # b + 1 /\ i - b - 1 = f
        /\ \A j \in 1..n : j \in 1..i \/ j = i + 1
    BY <2>2, <2>3
  <2> QED BY <2>1, <2>2, <2>4, Zenon
<1>4. HeadTexts(m)[i + 1] = <<>>
  BY <1>2, <1>3, Zenon
<1>5. Line(q, HeadLines(m)[i + 1]) = Body(r)
  BY <1>1, <1>3, <1>4, Zenon DEF OnHeader
<1>6. HeadFault(m, i + 1) = 0
  <2>1. PICK n \in 0..Len(HeadTexts(m)) : n = i + 1
    BY <1>3
  <2>2. n # m.blanks + 1 /\ HeadTexts(m)[n] = <<>> /\ HeadLen(m, n) <= MaxHeader
    BY <1>3, <1>4, <2>1, Zenon
  <2> HIDE <1>2, <1>3
  <2>3. HeadFault(m, n) = 0
    BY <2>2, EmptyLineFault
  <2> QED BY <2>1, <2>3, Zenon
<1>7. HeadOk(m)
  BY <1>3, <1>6, Zenon DEF AtHead, HeadOk
<1>8. r.used = Len(FlattenSeq(HeadLines(m)))
  BY <1>1, <1>3, HeadLenSteps, Zenon
<1>9. SubSeq(m.fields, 1, i - m.blanks - 1) = m.fields
  BY <1>2, <1>3, AllTaken, Zenon
<1>10. r.req.fields = m.fields /\ r.req.line = m.line[1] /\ r.req.body = <<>>
  BY <1>1, <1>3, <1>9, Zenon DEF AtHead
<1>11. Told(r, m)
  BY <1>7, <1>10, Zenon DEF Told
<1>12. Parsing(Body(r), m, Cat(BodyBytes(m), tail), tail) /\ Body(r) \in Parsers
  BY <1>1, <1>8, <1>10, <1>11, BodyBegins
<1>13. HeadRest(m, i + 1, tail) = Cat(BodyBytes(m), tail)
  BY <1>3, RestEnds, Zenon
<1> QED BY <1>5, <1>12, <1>13, Zenon

(* Any line of a head that ends is taken as it should be. *)
LEMMA HeadLineEnds ==
    ASSUME NEW m \in Messages, SaysItsSize(m), NEW tail \in Seq(Octets), NEW q \in Parsers,
           NEW i \in 0..(Len(HeadTexts(m)) - 1), AtHead(q, m, i), HeadLen(m, i + 1) <= MaxHeader
    PROVE  /\ Parsing(Line(q, HeadLines(m)[i + 1]), m, HeadRest(m, i + 1, tail), tail)
           /\ Line(q, HeadLines(m)[i + 1]) \in Parsers
<1>1. m.blanks \in Nat /\ Len(HeadTexts(m)) \in Nat
  BY MessageType, HeadTextsAre
<1>2. i < m.blanks \/ i \in {m.blanks} \/ (m.blanks < i /\ i < Len(HeadTexts(m)) - 1)
         \/ i \in {Len(HeadTexts(m)) - 1}
  BY <1>1
<1>3. CASE i < m.blanks
  BY <1>3, BlankLineEnds
<1>4. CASE i \in {m.blanks}
  BY <1>4, RequestLineEnds
<1>5. CASE m.blanks < i /\ i < Len(HeadTexts(m)) - 1
  BY <1>5, FieldLineEnds
<1>6. CASE i \in {Len(HeadTexts(m)) - 1}
  BY <1>6, LastHeadLineEnds
<1> QED BY <1>2, <1>3, <1>4, <1>5, <1>6

(* The verdict on a body in chunks. *)
LEMMA ChunkedFault ==
    ASSUME NEW m, IsChunked(m), LengthsOf(m.fields) = {}
    PROVE  LET size == Len(FlattenSeq(m.chunks))
               head == Len(FlattenSeq(HeadLines(m)))
           IN BodyFault(m) =
                IF Len(SizeLine(m, 0)) > MaxChunkLine THEN 431
                ELSE IF m.chunks # <<>> /\ Len(m.chunks[1]) > MaxBody THEN 413
                ELSE IF m.chunks # <<>> /\ m.after # CRLF THEN 400
                ELSE IF size > MaxBody THEN 413
                ELSE IF head + Len(FlattenSeq(TrailerLines(m))) > MaxHeader THEN 431
                ELSE 0
BY LengthsOfIs DEF BodyFault, IsChunked

(* What a client sends in chunks: the sizes of the chunks, and their sum.   *)
LEMMA ChunkSums ==
    ASSUME NEW m \in Messages, SaysItsSize(m), IsChunked(m)
    PROVE  /\ Len(m.chunks) \in Nat
           /\ \A c \in 0..Len(m.chunks) :
                 /\ UpTo(m.chunks, c) \in Seq(Octets) /\ Len(UpTo(m.chunks, c)) \in Nat
                 /\ Len(UpTo(m.chunks, c)) <= Len(FlattenSeq(m.chunks))
           /\ UpTo(m.chunks, Len(m.chunks)) = FlattenSeq(m.chunks)
           /\ FlattenSeq(m.chunks) \in Seq(Octets) /\ Len(FlattenSeq(m.chunks)) \in Nat
           /\ m.chunks # <<>> => /\ Len(m.chunks[1]) \in Nat
                                 /\ Len(UpTo(m.chunks, 1)) = Len(m.chunks[1])
                                 /\ Len(m.chunks[1]) <= Len(FlattenSeq(m.chunks))
<1>1. m.chunks \in Seq(Seq(Octets)) /\ Len(m.chunks) \in Nat
  BY MessageType
<1>2. /\ UpTo(m.chunks, 0) = <<>> /\ UpTo(m.chunks, Len(m.chunks)) = FlattenSeq(m.chunks)
      /\ FlattenSeq(m.chunks) \in Seq(Octets)
  BY <1>1, UpToEnds, FlatType
<1>3. Len(FlattenSeq(m.chunks)) \in Nat
  BY <1>2
<1>4. \A c \in 0..Len(m.chunks) : /\ UpTo(m.chunks, c) \in Seq(Octets)
                                  /\ Len(UpTo(m.chunks, c)) <= Len(FlattenSeq(m.chunks))
  <2>1. \A c \in 0..Len(m.chunks) : UpTo(m.chunks, c) \in Seq(Octets)
    BY <1>1, UpToType
  <2>2. \A c \in 0..Len(m.chunks) : Len(UpTo(m.chunks, c)) <= Len(UpTo(m.chunks, Len(m.chunks)))
    <3> TAKE c \in 0..Len(m.chunks)
    <3>1. Len(m.chunks) \in c..Len(m.chunks)
      BY <1>1
    <3> QED BY <1>1, <3>1, UpToMonotone
  <2> QED BY <1>2, <2>1, <2>2, Zenon
<1>5. \A c \in 0..Len(m.chunks) : Len(UpTo(m.chunks, c)) \in Nat
  BY <1>4
<1>6. ASSUME m.chunks # <<>>
      PROVE  /\ Len(m.chunks[1]) \in Nat
             /\ Len(UpTo(m.chunks, 1)) = Len(m.chunks[1])
             /\ Len(m.chunks[1]) <= Len(FlattenSeq(m.chunks))
  <2>1. 0 < Len(m.chunks) /\ 1 \in 0..Len(m.chunks) /\ 0 + 1 = 1
    BY <1>1, <1>6
  <2>2. m.chunks[0 + 1] \in Seq(Octets)
    BY <1>1, <2>1, PartType
  <2>3. Len(UpTo(m.chunks, 0 + 1)) = Len(UpTo(m.chunks, 0)) + Len(m.chunks[0 + 1])
    BY <1>1, <2>1, UpToLonger
  <2>4. Len(m.chunks[1]) \in Nat /\ Len(<<>>) = 0
    BY <2>1, <2>2
  <2>5. Len(UpTo(m.chunks, 1)) = 0 + Len(m.chunks[1])
    BY <1>2, <2>1, <2>3, <2>4, Zenon
  <2>6. Len(UpTo(m.chunks, 1)) = Len(m.chunks[1])
    BY <2>4, <2>5
  <2> QED BY <1>4, <2>1, <2>4, <2>6, Zenon
<1> QED BY <1>1, <1>2, <1>3, <1>4, <1>5, <1>6, Zenon

(* Every size line of a message has the same length. *)
LEMMA SizeLinesAlike ==
    ASSUME NEW m \in Messages, NEW n \in {0, 1, 2, 9}
    PROVE  Len(SizeLine(m, n)) = Len(SizeLine(m, 0)) /\ Len(SizeLine(m, 0)) \in Nat
<1>1. Len(SizeLine(m, n)) = 1 + Len(m.eol) /\ Len(SizeLine(m, 0)) = 1 + Len(m.eol)
  BY SizeLineIs
<1>2. Len(m.eol) \in {1, 2}
  BY EolType
<1> QED BY <1>1, <1>2

(* What a size does. *)
SizeCases(r, text, n) ==
    /\ n = 0 => OnChunkSize(r, text) = [r EXCEPT !.pc = "trailer"]
    /\ n # 0 /\ Len(r.req.body) + n > MaxBody => OnChunkSize(r, text) = Refuse(r, 413)
    /\ n # 0 /\ ~(Len(r.req.body) + n > MaxBody) => OnChunkSize(r, text) = ReadOn(r, "chunk", n)

(* These are the cases of OnChunkSize. *)
LEMMA OnChunkSizeIs ==
    ASSUME NEW r, NEW s \in DOMAIN Sizes
    PROVE  SizeCases(r, <<s>>, Sizes[s])
<1>1. Len(<<s>>) = 1 /\ <<s>>[1] = s
  OBVIOUS
<1>2. OnChunkSize(r, <<s>>) =
         IF Sizes[s] = 0 THEN [r EXCEPT !.pc = "trailer"]
         ELSE IF Len(r.req.body) + Sizes[s] > MaxBody THEN Refuse(r, 413)
         ELSE [r EXCEPT !.pc = "chunk", !.need = Sizes[s]]
  BY <1>1, Zenon DEF OnChunkSize
<1> QED BY <1>2, Zenon DEF ReadOn, SizeCases

(* A chunk size is refused if the body becomes too large ... *)
LEMMA BodyTooLarge ==
    ASSUME NEW m \in Messages, SaysItsSize(m), IsChunked(m), LengthsOf(m.fields) = {},
           SizesFit(m),
           NEW c \in 0..(Len(m.chunks) - 1), c > 0 => m.after = CRLF,
           Len(UpTo(m.chunks, c + 1)) > MaxBody
    PROVE  BodyFault(m) = 413
<1>1. MaxBody \in Nat /\ MaxChunkLine \in Nat
  BY FramingAssumption
<1>2. ~(Len(SizeLine(m, 0)) > MaxChunkLine)
  BY <1>1, SizeLinesAlike DEF SizesFit
<1>3. m.chunks # <<>> /\ c + 1 \in 0..Len(m.chunks)
  <2>1. Len(m.chunks) \in Nat /\ Len(<<>>) = 0
    BY ChunkSums
  <2>2. Len(m.chunks) # 0
    BY <2>1
  <2> QED BY <2>1, <2>2
<1>4. /\ Len(UpTo(m.chunks, c + 1)) \in Nat /\ Len(FlattenSeq(m.chunks)) \in Nat
      /\ Len(UpTo(m.chunks, c + 1)) <= Len(FlattenSeq(m.chunks))
  BY <1>3, ChunkSums, Zenon
<1>5. Len(FlattenSeq(m.chunks)) > MaxBody
  BY <1>1, <1>4
<1>6. CASE c = 0
  <2>1. c + 1 = 1
    BY <1>6
  <2>2. Len(UpTo(m.chunks, 1)) > MaxBody
    BY <2>1, Zenon
  <2>3. Len(m.chunks[1]) > MaxBody
    BY <1>3, <2>2, ChunkSums, Zenon
  <2> QED BY <1>2, <1>3, <2>3, ChunkedFault, Zenon
<1>7. CASE c > 0
  BY <1>2, <1>5, <1>7, ChunkedFault, Zenon
<1> QED BY <1>6, <1>7

(* ... and begins the chunk otherwise.                                      *)
LEMMA SizeLineEnds ==
    ASSUME NEW m \in Messages, SaysItsSize(m), NEW tail \in Seq(Octets), NEW q \in Parsers,
           NEW c \in 0..(Len(m.chunks) - 1), AtSize(q, m, c), SizesFit(m)
    PROVE  LET line == SizeLine(m, Len(m.chunks[c + 1]))
           IN /\ Parsing(Line(q, line), m,
                         Cat(m.chunks[c + 1], Cat(m.after, SizeRest(m, c + 1, tail))), tail)
              /\ Line(q, line) \in Parsers
<1> DEFINE rest == Cat(m.chunks[c + 1], Cat(m.after, SizeRest(m, c + 1, tail)))
           n == Len(m.chunks[c + 1])
           line == SizeLine(m, n)
           r == Read(q, q.used)
<1>1. /\ q.pc = "size" /\ InChunks(q, m) /\ IsChunked(m) /\ Told(q, m) /\ HeadOk(m)
      /\ LengthsOf(m.fields) = {} /\ q.req.body = UpTo(m.chunks, c)
      /\ c > 0 => m.after = CRLF
  BY Zenon DEF AtSize, InChunks, Told
<1>2. n \in {1, 2, 9} /\ m.chunks[c + 1] \in Seq(Octets) /\ n \in {0, 1, 2, 9}
  <2>1. c + 1 \in 1..Len(m.chunks)
    BY MessageType
  <2>2. n \in {1, 2, 9} /\ m.chunks[c + 1] \in Seq(Octets)
    BY <1>1, <2>1, SizesOfChunks
  <2> QED BY <2>2
<1>3. PICK s \in DOMAIN Sizes : Sizes[s] = n /\ TrimEol(line) = <<s>>
  BY <1>2, SizeLineIs
<1>4. q.used \in Nat
  BY DEF Parsers
<1>5. /\ r \in Parsers /\ r.pc = "size" /\ r.line = <<>> /\ r.used = q.used /\ r.req = q.req
  BY <1>1, <1>4, ReadType
<1>6. Line(q, line) = OnChunkSize(r, <<s>>)
  <2>1. Line(q, line) = OnChunkSize(Read(q, q.used), TrimEol(line))
    <3> HIDE DEF line
    <3> QED BY <1>1, LineIs, Zenon
  <2> QED BY <1>3, <2>1, Zenon
<1> HIDE DEF r
<1>7. n # 0
  <2> HIDE DEF n
  <2> QED BY <1>2
<1>8. Len(r.req.body) + n = Len(UpTo(m.chunks, c + 1))
  <2>1. c \in Nat /\ c < Len(m.chunks) /\ m.chunks \in Seq(Seq(Octets))
    BY MessageType
  <2>2. Len(UpTo(m.chunks, c + 1)) = Len(UpTo(m.chunks, c)) + n
    BY <2>1, UpToLonger
  <2>3. r.req.body = UpTo(m.chunks, c)
    BY <1>1, <1>5, Zenon
  <2> QED BY <2>2, <2>3, Zenon
<1>9. MaxBody \in Nat /\ Len(UpTo(m.chunks, c + 1)) \in Nat
  <2>1. c + 1 \in 0..Len(m.chunks)
    BY MessageType
  <2> QED BY <1>1, <2>1, ChunkSums, FramingAssumption, Zenon
<1>15. /\ Len(r.req.body) + n > MaxBody => OnChunkSize(r, <<s>>) = Refuse(r, 413)
       /\ ~(Len(r.req.body) + n > MaxBody) => OnChunkSize(r, <<s>>) = ReadOn(r, "chunk", n)
  <2>1. SizeCases(r, <<s>>, Sizes[s])
    BY OnChunkSizeIs
  <2> QED BY <1>3, <1>7, <2>1, Zenon DEF SizeCases
<1>10. CASE Len(UpTo(m.chunks, c + 1)) > MaxBody
  <2>1. OnChunkSize(r, <<s>>) = Refuse(r, 413)
    BY <1>3, <1>7, <1>8, <1>10, <1>15, Zenon
  <2>2. BodyFault(m) = 413
    BY <1>1, <1>10, BodyTooLarge
  <2>3. Refused(Refuse(r, 413), m) /\ Refuse(r, 413) \in Parsers
    BY <1>1, <1>5, <2>2, RefusedByBody
  <2> QED BY <1>6, <2>1, <2>3, Zenon DEF Parsing
<1>11. CASE ~(Len(UpTo(m.chunks, c + 1)) > MaxBody)
  <2>1. PICK t : t = ReadOn(r, "chunk", n)
    OBVIOUS
  <2>2. OnChunkSize(r, <<s>>) = t
    BY <1>8, <1>11, <1>15, <2>1, Zenon
  <2>3. t \in Parsers /\ t.pc = "chunk" /\ t.need = n /\ t.line = r.line
          /\ t.used = r.used /\ t.req = r.req
    <3>1. "chunk" \in PCs /\ n \in Nat
      BY <1>2, PCsAre
    <3> QED BY <1>5, <2>1, <3>1, GoesToRead
  <2>4. PICK e \in Seq(Octets) : e = <<>>
    <3>1. <<>> \in Seq(Octets)
      OBVIOUS
    <3> QED BY <3>1, Zenon
  <2>5. UpTo(m.chunks, c) \in Seq(Octets) /\ SizeRest(m, c + 1, tail) \in Seq(Octets)
    <3>1. c \in 0..Len(m.chunks) /\ c + 1 \in Nat
      BY MessageType
    <3> QED BY <1>1, <3>1, ChunkSums, RestTypes, Zenon
  <2>6. rest \in Seq(Octets)
    BY <1>2, <2>5, MessageType, CatType
  <2>7. Cat(e, rest) = rest /\ Cat(UpTo(m.chunks, c), e) = UpTo(m.chunks, c)
    BY <2>4, <2>5, <2>6, CatEmpty
  <2>8. Len(UpTo(m.chunks, c + 1)) <= MaxBody
    BY <1>9, <1>11
  <2>9. n > 0 /\ n = n - Len(e)
    <3>1. Len(e) = 0
      BY <2>4
    <3> HIDE DEF n
    <3> QED BY <1>2, <3>1
  <2>10. InChunks(t, m)
    BY <1>1, <1>5, <2>3, Zenon DEF InChunks, Told
  <2>12. t.line = <<>> /\ t.req.body = Cat(UpTo(m.chunks, c), e)
    BY <1>1, <1>5, <2>3, <2>7, Zenon
  <2>13. t.need > 0 /\ t.need = Len(m.chunks[c + 1]) - Len(e)
    BY <2>3, <2>9, Zenon
  <2>11. AtChunk(t, m, c, e, rest, tail)
    BY <1>1, <2>3, <2>7, <2>8, <2>10, <2>12, <2>13, Zenon DEF AtChunk
  <2> QED BY <1>6, <2>2, <2>3, <2>11, Zenon DEF Parsing, InChunk
<1> QED BY <1>10, <1>11

(* The size 0 ends the chunks. *)
LEMMA LastSizeLineEnds ==
    ASSUME NEW m \in Messages, SaysItsSize(m), NEW tail \in Seq(Octets), NEW q \in Parsers,
           AtSize(q, m, Len(m.chunks)), SizesFit(m)
    PROVE  /\ Parsing(Line(q, SizeLine(m, 0)), m, TrailerRest(m, 0, tail), tail)
           /\ Line(q, SizeLine(m, 0)) \in Parsers
<1> DEFINE line == SizeLine(m, 0)
           r == Read(q, q.used)
<1>1. /\ q.pc = "size" /\ InChunks(q, m) /\ IsChunked(m) /\ Told(q, m)
        /\ LengthsOf(m.fields) = {}
      /\ q.used = Len(FlattenSeq(HeadLines(m)))
      /\ q.req.body = UpTo(m.chunks, Len(m.chunks))
           /\ Len(UpTo(m.chunks, Len(m.chunks))) <= MaxBody
      /\ Len(m.chunks) > 0 => m.after = CRLF
  BY Zenon DEF AtSize, InChunks
<1>2. PICK s \in DOMAIN Sizes : Sizes[s] = 0 /\ TrimEol(line) = <<s>>
  BY SizeLineIs
<1>3. q.used \in Nat
  BY DEF Parsers
<1>4. /\ r \in Parsers /\ r.pc = "size" /\ r.line = <<>> /\ r.used = q.used /\ r.req = q.req
  BY <1>1, <1>3, ReadType
<1>5. Line(q, line) = OnChunkSize(r, <<s>>)
  BY <1>1, <1>2, LineIs, Zenon
<1> HIDE DEF r
<1>7. PICK t : t = [r EXCEPT !.pc = "trailer"]
  OBVIOUS
<1>8. OnChunkSize(r, <<s>>) = t
  <2>1. SizeCases(r, <<s>>, Sizes[s])
    BY OnChunkSizeIs
  <2> QED BY <1>2, <1>7, <2>1, Zenon DEF SizeCases
<1>9. t \in Parsers /\ t.pc = "trailer" /\ t.line = r.line /\ t.used = r.used /\ t.req = r.req
  BY <1>4, <1>7, GoesTo, PCsAre, Zenon
<1>10. UpTo(m.chunks, Len(m.chunks)) = FlattenSeq(m.chunks)
  BY <1>1, ChunkSums, Zenon
<1>11. m.chunks # <<>> => m.after = CRLF
  <2>1. m.chunks # <<>> => Len(m.chunks) > 0
    <3>1. m.chunks \in Seq(Seq(Octets))
      BY MessageType
    <3> QED BY <3>1
  <2> QED BY <1>1, <2>1
<1>12. t.used = Len(FlattenSeq(HeadLines(m))) + Len(UpTo(TrailerLines(m), 0))
  <2>1. UpTo(TrailerLines(m), 0) = <<>>
    BY TrailerLinesAre, UpToEnds
  <2>2. Len(UpTo(TrailerLines(m), 0)) = 0
    BY <2>1
  <2>3. Len(FlattenSeq(HeadLines(m))) = Len(FlattenSeq(HeadLines(m))) + 0
    <3>1. Len(FlattenSeq(HeadLines(m))) \in Nat
      BY <1>1, <1>3
    <3> QED BY <3>1
  <2> QED BY <1>1, <1>4, <1>9, <2>2, <2>3, Zenon
<1>13. Told(t, m)
  BY <1>1, <1>4, <1>9, Zenon DEF Told
<1>14. AtTrailer(t, m, 0)
  BY <1>1, <1>4, <1>9, <1>10, <1>11, <1>12, <1>13, Zenon DEF AtTrailer
<1>15. Cat(t.line, TrailerRest(m, 0, tail)) = TrailerRest(m, 0, tail)
  <2>1. TrailerRest(m, 0, tail) \in Seq(Octets)
    BY RestTypes
  <2> QED BY <1>4, <1>9, <2>1, CatEmpty
<1>16. 0 \in 0..(Len(TrailerTexts(m)) - 1)
  BY TrailerTextsAre, MessageType
<1>17. NoLF(t.line)
  BY <1>4, <1>9, NoLFYet, Zenon
<1> QED BY <1>5, <1>8, <1>9, <1>14, <1>15, <1>16, <1>17, Zenon DEF Parsing, InTrailer

(* The bytes of the first lines of a trailer, one line after another. *)
LEMMA TrailerSums ==
    ASSUME NEW m \in Messages
    PROVE  /\ Len(TrailerTexts(m)) \in Nat /\ Len(TrailerTexts(m)) = Len(m.trailers) + 1
           /\ \A t \in 0..Len(TrailerTexts(m)) :
                 /\ Len(UpTo(TrailerLines(m), t)) \in Nat
                 /\ Len(UpTo(TrailerLines(m), t)) <= Len(FlattenSeq(TrailerLines(m)))
           /\ UpTo(TrailerLines(m), Len(TrailerTexts(m))) = FlattenSeq(TrailerLines(m))
           /\ Len(FlattenSeq(TrailerLines(m))) \in Nat
           /\ Len(FlattenSeq(HeadLines(m))) \in Nat
<1>1. /\ TrailerLines(m) \in Seq(Seq(Octets)) /\ Len(TrailerLines(m)) = Len(TrailerTexts(m))
      /\ Len(TrailerTexts(m)) \in Nat /\ Len(TrailerTexts(m)) = Len(m.trailers) + 1
  BY TrailerLinesAre, TrailerTextsAre, MessageType
<1>2. UpTo(TrailerLines(m), Len(TrailerTexts(m))) = FlattenSeq(TrailerLines(m))
  BY <1>1, UpToEnds
<1>3. \A t \in 0..Len(TrailerTexts(m)) :
         /\ Len(UpTo(TrailerLines(m), t)) \in Nat
         /\ Len(UpTo(TrailerLines(m), t)) <= Len(FlattenSeq(TrailerLines(m)))
  <2> TAKE t \in 0..Len(TrailerTexts(m))
  <2>1. t \in 0..Len(TrailerLines(m)) /\ Len(TrailerLines(m)) \in t..Len(TrailerLines(m))
    BY <1>1
  <2>2. UpTo(TrailerLines(m), t) \in Seq(Octets)
    BY <1>1, <2>1, UpToType
  <2>3. Len(UpTo(TrailerLines(m), t)) <= Len(UpTo(TrailerLines(m), Len(TrailerLines(m))))
    BY <1>1, <2>1, UpToMonotone
  <2>4. Len(UpTo(TrailerLines(m), t)) \in Nat
    BY <2>2
  <2> QED BY <1>1, <1>2, <2>3, <2>4, Zenon
<1>4. Len(FlattenSeq(TrailerLines(m))) \in Nat
  BY TrailersAre
<1>5. Len(FlattenSeq(HeadLines(m))) \in Nat
  <2>1. FlattenSeq(HeadLines(m)) \in Seq(Octets)
    BY HeadLinesAre, FlatType
  <2> QED BY <2>1
<1> QED BY <1>1, <1>2, <1>3, <1>4, <1>5, Zenon

(* A trailer is read and forgotten ... *)
LEMMA TrailerLineEnds ==
    ASSUME NEW m \in Messages, SaysItsSize(m), NEW tail \in Seq(Octets), NEW q \in Parsers,
           NEW t \in 0..(Len(TrailerTexts(m)) - 1), AtTrailer(q, m, t),
           t < Len(TrailerTexts(m)) - 1
    PROVE  /\ Parsing(Line(q, TrailerLines(m)[t + 1]), m, TrailerRest(m, t + 1, tail), tail)
           /\ Line(q, TrailerLines(m)[t + 1]) \in Parsers
<1> DEFINE line == TrailerLines(m)[t + 1]
           r == Read(q, q.used + Len(line))
<1>1. Len(TrailerTexts(m)) \in Nat /\ Len(TrailerTexts(m)) = Len(m.trailers) + 1
  BY TrailerSums
<1>2. t + 1 \in 1..Len(m.trailers) /\ t + 1 \in 1..Len(TrailerTexts(m))
        /\ t + 1 \in 0..(Len(TrailerTexts(m)) - 1)
      /\ t \in Nat /\ t < Len(TrailerLines(m)) /\ TrailerLines(m) \in Seq(Seq(Octets))
  BY <1>1, TrailerLinesAre, MessageType
<1>3. TrailerTexts(m)[t + 1] # <<>>
  BY <1>2, TrailerTextsAre, Zenon
<1>4. TrimEol(line) = TrailerTexts(m)[t + 1] /\ Len(line) \in Nat
  <2>1. IsLine(line) /\ TrimEol(line) = TrailerTexts(m)[t + 1]
    BY <1>2, TrailerLinesAre, Zenon
  <2> QED BY <2>1, LineShape, Zenon
<1>5. q.pc = "trailer" /\ q.used \in Nat
  BY DEF AtTrailer, Parsers
<1>6. q.used + Len(line) \in Nat
  BY <1>4, <1>5
<1>7. /\ r \in Parsers /\ r.pc = q.pc /\ r.line = <<>> /\ r.used = q.used + Len(line)
        /\ r.req = q.req
  BY <1>6, ReadType
<1>8. Line(q, line) = r
  <2>1. Line(q, line) = OnTrailer(r, TrimEol(line))
    <3> HIDE DEF line
    <3> QED BY <1>5, LineIs, Zenon
  <2> QED BY <1>3, <1>4, <2>1, Zenon DEF OnTrailer
<1> HIDE DEF r
<1>9. r.used = Len(FlattenSeq(HeadLines(m))) + Len(UpTo(TrailerLines(m), t + 1))
  <2>1. Len(UpTo(TrailerLines(m), t + 1)) = Len(UpTo(TrailerLines(m), t)) + Len(line)
    BY <1>2, UpToLonger
  <2>2. q.used = Len(FlattenSeq(HeadLines(m))) + Len(UpTo(TrailerLines(m), t))
    BY DEF AtTrailer
  <2>3. PICK h \in Nat, u \in Nat, l \in Nat :
          h = Len(FlattenSeq(HeadLines(m))) /\ u = Len(UpTo(TrailerLines(m), t)) /\ l = Len(line)
    <3>1. t \in 0..Len(TrailerTexts(m))
      BY <1>1
    <3> QED BY <1>4, <3>1, TrailerSums, Zenon
  <2>4. (h + u) + l = h + (u + l)
    OBVIOUS
  <2> QED BY <1>7, <2>1, <2>2, <2>3, <2>4, Zenon
<1>10. AtTrailer(r, m, t + 1)
  BY <1>5, <1>7, <1>9, Zenon DEF AtTrailer, Told
<1>11. Cat(r.line, TrailerRest(m, t + 1, tail)) = TrailerRest(m, t + 1, tail)
  <2>1. t + 1 \in Nat
    BY <1>2
  <2>2. TrailerRest(m, t + 1, tail) \in Seq(Octets)
    BY <2>1, RestTypes
  <2> QED BY <1>7, <2>2, CatEmpty
<1>12. NoLF(r.line)
  BY <1>7, NoLFYet, Zenon
<1> QED BY <1>2, <1>7, <1>8, <1>10, <1>11, <1>12, Zenon DEF Parsing, InTrailer

(* ... and the empty line after them ends the message.                      *)
LEMMA LastTrailerLineEnds ==
    ASSUME NEW m \in Messages, SaysItsSize(m), NEW tail \in Seq(Octets), NEW q \in Parsers,
           NEW t \in 0..(Len(TrailerTexts(m)) - 1), AtTrailer(q, m, t),
           t \in {Len(TrailerTexts(m)) - 1},
           Len(FlattenSeq(HeadLines(m))) + Len(UpTo(TrailerLines(m), t + 1)) <= MaxHeader
    PROVE  /\ Parsing(Line(q, TrailerLines(m)[t + 1]), m, TrailerRest(m, t + 1, tail), tail)
           /\ Line(q, TrailerLines(m)[t + 1]) \in Parsers
<1> DEFINE line == TrailerLines(m)[t + 1]
           r == Read(q, q.used + Len(line))
           size == Len(FlattenSeq(m.chunks))
<1>1. Len(TrailerTexts(m)) \in Nat /\ Len(TrailerTexts(m)) = Len(m.trailers) + 1
  BY TrailerSums
<1>2. t + 1 = Len(TrailerTexts(m)) /\ t + 1 \in 1..Len(TrailerTexts(m))
  BY <1>1
<1>3. TrailerTexts(m)[t + 1] = <<>>
  <2>1. TrailerTexts(m)[Len(m.trailers) + 1] = <<>>
    BY TrailerTextsAre, Zenon
  <2> QED BY <1>1, <1>2, <2>1, Zenon
<1>4. TrimEol(line) = TrailerTexts(m)[t + 1] /\ Len(line) \in Nat
  <2>1. IsLine(line) /\ TrimEol(line) = TrailerTexts(m)[t + 1]
    BY <1>2, TrailerLinesAre, Zenon
  <2> QED BY <2>1, LineShape, Zenon
<1>5. /\ q.pc = "trailer" /\ Told(q, m) /\ HeadOk(m) /\ IsChunked(m) /\ LengthsOf(m.fields) = {}
      /\ q.req.body = FlattenSeq(m.chunks) /\ Len(FlattenSeq(m.chunks)) <= MaxBody
      /\ m.chunks # <<>> => m.after = CRLF
      /\ SizesFit(m)
  BY Zenon DEF AtTrailer, Told
<1>6. q.used + Len(line) \in Nat
  <2>1. q.used \in Nat
    BY DEF Parsers
  <2> QED BY <1>4, <2>1
<1>7. /\ r \in Parsers /\ r.pc = q.pc /\ r.line = <<>> /\ r.req = q.req
  BY <1>6, ReadType
<1>8. Line(q, line) = OnTrailer(r, <<>>)
  <2>1. Line(q, line) = OnTrailer(r, TrimEol(line))
    <3> HIDE DEF line
    <3> QED BY <1>5, LineIs, Zenon
  <2> QED BY <1>3, <1>4, <2>1, Zenon
<1> HIDE DEF r
<1>9. PICK s : s = [r EXCEPT !.pc = "handler"]
  OBVIOUS
<1>10. Line(q, line) = s
  BY <1>8, <1>9, Zenon DEF OnTrailer
<1>11. s \in Parsers /\ s.pc = "handler" /\ s.req = r.req
  BY <1>7, <1>9, GoesTo, PCsAre, Zenon
<1>12. BodyFault(m) = 0
  <2>1. MaxBody \in Nat /\ MaxChunkLine \in Nat /\ MaxHeader \in Nat
    BY FramingAssumption
  <2>2. ~(Len(SizeLine(m, 0)) > MaxChunkLine)
    BY <1>5, <2>1, SizeLinesAlike DEF SizesFit
  <2>3. size \in Nat /\ (m.chunks # <<>> => Len(m.chunks[1]) \in Nat /\ Len(m.chunks[1]) <= size)
    BY <1>5, ChunkSums, Zenon
  <2>4. ~(size > MaxBody) /\ (m.chunks # <<>> => ~(Len(m.chunks[1]) > MaxBody))
    BY <1>5, <2>1, <2>3
  <2>5. UpTo(TrailerLines(m), t + 1) = FlattenSeq(TrailerLines(m))
    BY <1>2, TrailerSums, Zenon
  <2>6. Len(FlattenSeq(HeadLines(m))) + Len(FlattenSeq(TrailerLines(m))) <= MaxHeader
    BY <2>5, Zenon
  <2>7. ~(Len(FlattenSeq(HeadLines(m))) + Len(FlattenSeq(TrailerLines(m))) > MaxHeader)
    BY <2>1, <2>6, TrailerSums
  <2> QED BY <1>5, <2>2, <2>4, <2>7, ChunkedFault, Zenon
<1>13. Verdict(m) = 0
  BY <1>5, <1>12, VerdictOfBody
<1>14. s.req = Meaning(m)
  <2>1. r.req \in Requests
    BY <1>7 DEF Parsers
  <2>2. r.req.line = m.line[1] /\ r.req.fields = m.fields /\ r.req.body = FlattenSeq(m.chunks)
    BY <1>5, <1>7, Zenon DEF Told
  <2>3. r.req = Meaning(m)
    BY <2>1, <2>2, MeaningIs
  <2> QED BY <1>11, <2>3, Zenon
<1>15. TrailerRest(m, t + 1, tail) = tail
  BY <1>2, RestEnds, Zenon
<1> QED BY <1>10, <1>11, <1>13, <1>14, <1>15, Zenon DEF Parsing, Ready

(* A line that is too long is refused for it, wherever it is. *)
LEMMA HeadTooLong ==
    ASSUME NEW m \in Messages, NEW q \in Parsers, NEW i \in 0..(Len(HeadTexts(m)) - 1),
           AtHead(q, m, i), HeadLen(m, i + 1) > MaxHeader
    PROVE  Refused(Refuse(q, 431), m) /\ Refuse(q, 431) \in Parsers
<1>1. HeadFault(m, i + 1) = 431
  BY Zenon DEF HeadFault
<1>2. \A j \in 1..i : HeadFault(m, j) = 0
  BY DEF AtHead
<1> QED BY <1>1, <1>2, RefusedByHead

(* A size line. *)
LEMMA SizeTooLong ==
    ASSUME NEW m \in Messages, NEW q \in Parsers, NEW c, AtSize(q, m, c),
           Len(SizeLine(m, 0)) > MaxChunkLine
    PROVE  Refused(Refuse(q, 431), m) /\ Refuse(q, 431) \in Parsers
<1>1. HeadOk(m) /\ IsChunked(m) /\ LengthsOf(m.fields) = {}
  BY Zenon DEF AtSize, InChunks, Told
<1>2. BodyFault(m) = 431
  BY <1>1, ChunkedFault, Zenon
<1> QED BY <1>1, <1>2, RefusedByBody

(* A line of a trailer. *)
LEMMA TrailerTooLong ==
    ASSUME NEW m \in Messages, SaysItsSize(m), NEW q \in Parsers,
           NEW t \in 0..(Len(TrailerTexts(m)) - 1), AtTrailer(q, m, t),
           Len(FlattenSeq(HeadLines(m))) + Len(UpTo(TrailerLines(m), t + 1)) > MaxHeader
    PROVE  Refused(Refuse(q, 431), m) /\ Refuse(q, 431) \in Parsers
<1> DEFINE size == Len(FlattenSeq(m.chunks))
<1>1. /\ HeadOk(m) /\ IsChunked(m) /\ LengthsOf(m.fields) = {}
      /\ Len(FlattenSeq(m.chunks)) <= MaxBody
      /\ m.chunks # <<>> => m.after = CRLF
      /\ SizesFit(m)
  BY Zenon DEF AtTrailer, Told
<1>2. MaxBody \in Nat /\ MaxChunkLine \in Nat /\ MaxHeader \in Nat
  BY FramingAssumption
<1>3. ~(Len(SizeLine(m, 0)) > MaxChunkLine)
  BY <1>1, <1>2, SizeLinesAlike DEF SizesFit
<1>4. size \in Nat /\ (m.chunks # <<>> => Len(m.chunks[1]) \in Nat /\ Len(m.chunks[1]) <= size)
  BY <1>1, ChunkSums, Zenon
<1>5. ~(size > MaxBody) /\ (m.chunks # <<>> => ~(Len(m.chunks[1]) > MaxBody))
  BY <1>1, <1>2, <1>4
<1>6. Len(FlattenSeq(HeadLines(m))) + Len(FlattenSeq(TrailerLines(m))) > MaxHeader
  <2>1. Len(TrailerTexts(m)) \in Nat
    BY TrailerSums
  <2>2. t + 1 \in 0..Len(TrailerTexts(m))
    BY <2>1
  <2>3. PICK h \in Nat, u \in Nat, l \in Nat :
          h = Len(FlattenSeq(HeadLines(m))) /\ u = Len(UpTo(TrailerLines(m), t + 1))
             /\ l = Len(FlattenSeq(TrailerLines(m)))
    BY <2>2, TrailerSums, Zenon
  <2>4. u <= l
    BY <2>2, <2>3, TrailerSums, Zenon
  <2> QED BY <1>2, <2>3, <2>4
<1>7. BodyFault(m) = 431
  BY <1>1, <1>3, <1>5, <1>6, ChunkedFault, Zenon
<1> QED BY <1>1, <1>7, RefusedByBody

------------------------------------------------------------------------------
(* What part of a line does, and what data do. *)

(* The parser, with what it keeps of a line replaced. *)
SetLine(q, line) == [q EXCEPT !.line = line]

(* Nothing else changes. *)
LEMMA SetLineIs ==
    ASSUME NEW q \in Parsers, NEW line \in Seq(Octets), NEW s, s = SetLine(q, line)
    PROVE  /\ s \in Parsers /\ s.line = line /\ s.pc = q.pc /\ s.used = q.used
           /\ s.need = q.need /\ s.req = q.req
BY DEF Parsers, SetLine

(* The parser is in a line: it may be too long, be more of it, or end.      *)
AtLine(q, m, line, next, tail) ==
    /\ IsLine(line) /\ next \in Seq(Octets) /\ Len(tail) <= Len(next)
    /\ \A take \in Nat : Len(q.line) + take <= Len(line)
             /\ Over(q, take) => Refused(Refuse(q, 431), m)
    /\ \A take \in Nat : Len(q.line) + take = Len(line) /\ ~Over(q, take) =>
          Parsing(Line(q, line), m, next, tail) /\ Line(q, line) \in Parsers
    /\ \A g \in Seq(Octets), rest \in Seq(Octets) : NoLF(g) /\ Cat(g, rest) = Cat(line, next) =>
          Parsing(SetLine(q, g), m, rest, tail)

(* Too many bytes of a line depend on no line but that one. *)
LEMMA OverIs ==
    ASSUME NEW q \in Parsers, NEW take \in Nat, NEW n \in Nat, Len(q.line) + take <= n
    PROVE  /\ q.pc = "size" /\ Over(q, take) => n > MaxChunkLine
           /\ q.pc # "size" /\ Over(q, take) => q.used + n > MaxHeader
           /\ Len(q.line) + take = n /\ q.pc = "size" /\ ~Over(q, take) => n <= MaxChunkLine
           /\ Len(q.line) + take = n /\ q.pc # "size"
                /\ ~Over(q, take) => q.used + n <= MaxHeader
<1>1. Len(q.line) \in Nat /\ q.used \in Nat /\ MaxHeader \in Nat /\ MaxChunkLine \in Nat
  BY FramingAssumption DEF Parsers
<1> QED BY <1>1 DEF Over

(* In a head, the parser is at a line, ... *)
LEMMA InHeadAtLine ==
    ASSUME NEW m \in Messages, SaysItsSize(m), NEW tail \in Seq(Octets), NEW q \in Parsers,
           NEW rest, InHead(q, m, rest, tail)
    PROVE  \E line, next : /\ AtLine(q, m, line, next, tail) /\ NoLF(q.line)
                           /\ Cat(q.line, rest) = Cat(line, next)
<1>1. PICK i \in 0..(Len(HeadTexts(m)) - 1) :
          AtHead(q, m, i) /\ NoLF(q.line) /\ Cat(q.line, rest) = HeadRest(m, i, tail)
  BY DEF InHead
<1> DEFINE line == HeadLines(m)[i + 1]
           next == HeadRest(m, i + 1, tail)
<1>2. i \in Nat /\ i + 1 \in Nat /\ i + 1 \in 1..Len(HeadTexts(m)) /\ i < Len(HeadTexts(m))
  BY HeadTextsAre, MessageType
<1>3. Cat(q.line, rest) = Cat(line, next)
  BY <1>1, <1>2, HeadSplits, Zenon
<1>4. IsLine(line) /\ Len(line) \in Nat
  BY <1>2, HeadLinesAre, LineShape, Zenon
<1>5. next \in Seq(Octets) /\ Len(tail) <= Len(next)
  BY <1>2, RestTypes
<1>6. q.used + Len(line) = HeadLen(m, i + 1) /\ q.pc # "size"
  <2>1. HeadLen(m, i + 1) = HeadLen(m, i) + Len(line)
    BY HeadLenSteps, Zenon
  <2>2. q.used = HeadLen(m, i) /\ q.pc \in {"line", "headers"}
    BY <1>1 DEF AtHead
  <2>3. q.pc # "size"
    BY <2>2
  <2> QED BY <2>1, <2>2, <2>3, Zenon
<1> HIDE DEF next
<1>7. ASSUME NEW take \in Nat, Len(q.line) + take <= Len(line), Over(q, take)
      PROVE  Refused(Refuse(q, 431), m)
  <2>1. HeadLen(m, i + 1) > MaxHeader
    <3> HIDE DEF line
    <3>1. q.used + Len(line) > MaxHeader
      BY <1>4, <1>6, <1>7, OverIs
    <3> QED BY <1>6, <3>1, Zenon
  <2> QED BY <1>1, <2>1, HeadTooLong
<1>8. ASSUME NEW take \in Nat, Len(q.line) + take = Len(line), ~Over(q, take)
      PROVE  Parsing(Line(q, line), m, next, tail) /\ Line(q, line) \in Parsers
  <2>1. HeadLen(m, i + 1) <= MaxHeader
    <3> HIDE DEF line
    <3>1. Len(q.line) + take <= Len(line)
      BY <1>4, <1>8
    <3>2. q.used + Len(line) <= MaxHeader
      BY <1>4, <1>6, <1>8, <3>1, OverIs
    <3> QED BY <1>6, <3>2, Zenon
  <2> QED BY <1>1, <2>1, HeadLineEnds DEF next
<1>9. ASSUME NEW g \in Seq(Octets), NEW more \in Seq(Octets), NoLF(g), Cat(g, more) =
            Cat(line, next)
      PROVE  Parsing(SetLine(q, g), m, more, tail)
  <2>1. PICK s : s = SetLine(q, g)
    OBVIOUS
  <2>2. s.line = g /\ s.pc = q.pc /\ s.used = q.used /\ s.req = q.req
    BY <2>1, SetLineIs
  <2>3. AtHead(s, m, i)
    BY <1>1, <2>2, Zenon DEF AtHead
  <2>4. Cat(s.line, more) = HeadRest(m, i, tail)
    BY <1>1, <1>3, <1>9, <2>2, Zenon
  <2> QED BY <1>9, <2>1, <2>2, <2>3, <2>4, Zenon DEF Parsing, InHead
<1>10. AtLine(q, m, line, next, tail)
  BY <1>4, <1>5, <1>7, <1>8, <1>9, Zenon DEF AtLine
<1> QED BY <1>1, <1>3, <1>10, Zenon

(* ... and among the sizes, ... *)
LEMMA InSizeAtLine ==
    ASSUME NEW m \in Messages, SaysItsSize(m), NEW tail \in Seq(Octets), NEW q \in Parsers,
           NEW rest, InSize(q, m, rest, tail)
    PROVE  \E line, next : /\ AtLine(q, m, line, next, tail) /\ NoLF(q.line)
                           /\ Cat(q.line, rest) = Cat(line, next)
<1>1. PICK c \in 0..Len(m.chunks) :
          AtSize(q, m, c) /\ NoLF(q.line) /\ Cat(q.line, rest) = SizeRest(m, c, tail)
  BY DEF InSize
<1>2. IsChunked(m) /\ q.pc = "size"
  BY <1>1 DEF AtSize, InChunks
<1>3. \E line, next : /\ IsLine(line) /\ Len(line) \in Nat /\ Len(line) = Len(SizeLine(m, 0))
                      /\ next \in Seq(Octets) /\ Len(tail) <= Len(next)
                      /\ SizeRest(m, c, tail) = Cat(line, next)
                      /\ SizesFit(m) => Parsing(Line(q, line), m, next, tail)
                           /\ Line(q, line) \in Parsers
  <2>1. CASE c < Len(m.chunks)
    <3> DEFINE n == Len(m.chunks[c + 1])
               line == SizeLine(m, n)
               next == Cat(m.chunks[c + 1], Cat(m.after, SizeRest(m, c + 1, tail)))
    <3>1. c \in Nat /\ c + 1 \in Nat /\ c \in 0..(Len(m.chunks) - 1)
            /\ c + 1 \in 1..Len(m.chunks)
      BY <2>1, MessageType
    <3>2. n \in {0, 1, 2, 9} /\ m.chunks[c + 1] \in Seq(Octets)
      <4>1. n \in {1, 2, 9} /\ m.chunks[c + 1] \in Seq(Octets)
        BY <1>2, <3>1, SizesOfChunks
      <4> QED BY <4>1
    <3>3. IsLine(line) /\ Len(line) \in Nat /\ Len(line) = Len(SizeLine(m, 0))
      BY <3>2, SizeLineIs, SizeLinesAlike
    <3>4. SizeRest(m, c, tail) = Cat(line, next)
      BY <1>2, <2>1, <3>1, SizeSplits, Zenon
    <3>5. SizesFit(m) => Parsing(Line(q, line), m, next, tail) /\ Line(q, line) \in Parsers
      BY <1>1, <3>1, SizeLineEnds
    <3>6. next \in Seq(Octets) /\ Len(tail) <= Len(next)
      <4>1. PICK r \in Seq(Octets) : r = SizeRest(m, c + 1, tail) /\ Len(tail) <= Len(r)
        BY <1>2, <3>1, RestTypes, Zenon
      <4>2. PICK d \in Seq(Octets), a \in Seq(Octets) : d = m.chunks[c + 1] /\ a = m.after
        BY <3>2, MessageType, Zenon
      <4>3. Cat(a, r) \in Seq(Octets) /\ Len(Cat(a, r)) = Len(a) + Len(r)
        BY CatType
      <4>4. Cat(d, Cat(a, r)) \in Seq(Octets) /\ Len(Cat(d, Cat(a, r))) = Len(d) + Len(Cat(a, r))
        BY <4>3, CatType
      <4>5. Len(a) \in Nat /\ Len(r) \in Nat /\ Len(d) \in Nat /\ Len(tail) \in Nat
        OBVIOUS
      <4>6. Len(tail) <= Len(Cat(d, Cat(a, r)))
        BY <4>1, <4>3, <4>4, <4>5
      <4> QED BY <4>1, <4>2, <4>4, <4>6, Zenon
    <3> HIDE DEF line, next
    <3> QED BY <3>3, <3>4, <3>5, <3>6, Zenon
  <2>2. CASE c = Len(m.chunks)
    <3> DEFINE line == SizeLine(m, 0)
               next == TrailerRest(m, 0, tail)
    <3>1. IsLine(line) /\ Len(line) \in Nat
      BY SizeLineIs, SizeLinesAlike
    <3>2. SizeRest(m, c, tail) = Cat(line, next)
      <4>1. c \in Nat
        BY MessageType
      <4> QED BY <1>2, <2>2, <4>1, SizeSplits, Zenon
    <3>3. SizesFit(m) => Parsing(Line(q, line), m, next, tail) /\ Line(q, line) \in Parsers
      BY <1>1, <2>2, LastSizeLineEnds
    <3>4. next \in Seq(Octets) /\ Len(tail) <= Len(next)
      BY RestTypes
    <3> HIDE DEF next
    <3> QED BY <3>1, <3>2, <3>3, <3>4, Zenon
  <2> QED BY <2>1, <2>2, MessageType
<1>4. PICK line, next : /\ IsLine(line) /\ Len(line) \in Nat /\ Len(line) = Len(SizeLine(m, 0))
                        /\ next \in Seq(Octets) /\ Len(tail) <= Len(next)
                        /\ SizeRest(m, c, tail) = Cat(line, next)
                        /\ SizesFit(m) => Parsing(Line(q, line), m, next, tail)
                             /\ Line(q, line) \in Parsers
  BY <1>3
<1>7. ASSUME NEW take \in Nat, Len(q.line) + take <= Len(line), Over(q, take)
      PROVE  Refused(Refuse(q, 431), m)
  <2>1. Len(line) > MaxChunkLine
    BY <1>2, <1>4, <1>7, OverIs
  <2>2. Len(SizeLine(m, 0)) > MaxChunkLine
    BY <1>4, <2>1, Zenon
  <2> QED BY <1>1, <2>2, SizeTooLong
<1>8. ASSUME NEW take \in Nat, Len(q.line) + take = Len(line), ~Over(q, take)
      PROVE  Parsing(Line(q, line), m, next, tail) /\ Line(q, line) \in Parsers
  <2>1. Len(q.line) + take <= Len(line)
    BY <1>4, <1>8
  <2>2. Len(line) <= MaxChunkLine
    BY <1>2, <1>4, <1>8, <2>1, OverIs
  <2>3. SizesFit(m)
    BY <1>4, <2>2, Zenon DEF SizesFit
  <2> QED BY <1>4, <2>3, Zenon
<1>9. ASSUME NEW g \in Seq(Octets), NEW more \in Seq(Octets), NoLF(g), Cat(g, more) =
            Cat(line, next)
      PROVE  Parsing(SetLine(q, g), m, more, tail)
  <2>1. PICK s : s = SetLine(q, g)
    OBVIOUS
  <2>2. s.line = g /\ s.pc = q.pc /\ s.used = q.used /\ s.req = q.req
    BY <2>1, SetLineIs
  <2>3. AtSize(s, m, c)
    BY <1>1, <2>2, Zenon DEF AtSize, InChunks, Told
  <2>4. Cat(s.line, more) = SizeRest(m, c, tail)
    BY <1>4, <1>9, <2>2, Zenon
  <2> QED BY <1>9, <2>1, <2>2, <2>3, <2>4, Zenon DEF Parsing, InSize
<1>10. AtLine(q, m, line, next, tail)
  BY <1>4, <1>7, <1>8, <1>9, Zenon DEF AtLine
<1> QED BY <1>1, <1>4, <1>10, Zenon

(* ... and in a trailer. *)
LEMMA InTrailerAtLine ==
    ASSUME NEW m \in Messages, SaysItsSize(m), NEW tail \in Seq(Octets), NEW q \in Parsers,
           NEW rest, InTrailer(q, m, rest, tail)
    PROVE  \E line, next : /\ AtLine(q, m, line, next, tail) /\ NoLF(q.line)
                           /\ Cat(q.line, rest) = Cat(line, next)
<1>1. PICK t \in 0..(Len(TrailerTexts(m)) - 1) :
          AtTrailer(q, m, t) /\ NoLF(q.line) /\ Cat(q.line, rest) = TrailerRest(m, t, tail)
  BY DEF InTrailer
<1> DEFINE line == TrailerLines(m)[t + 1]
           next == TrailerRest(m, t + 1, tail)
           upTo == Len(FlattenSeq(HeadLines(m))) + Len(UpTo(TrailerLines(m), t + 1))
<1>2. t \in Nat /\ t + 1 \in Nat /\ t + 1 \in 1..Len(TrailerTexts(m)) /\ t < Len(TrailerTexts(m))
  BY TrailerTextsAre, MessageType
<1>3. Cat(q.line, rest) = Cat(line, next)
  BY <1>1, <1>2, TrailerSplits, Zenon
<1>4. IsLine(line) /\ Len(line) \in Nat
  BY <1>2, TrailerLinesAre, LineShape, Zenon
<1>5. next \in Seq(Octets) /\ Len(tail) <= Len(next)
  BY <1>2, RestTypes
<1>6. q.used + Len(line) = upTo /\ q.pc # "size"
  <2>1. Len(UpTo(TrailerLines(m), t + 1)) = Len(UpTo(TrailerLines(m), t)) + Len(line)
    BY <1>2, TrailerLinesAre, UpToLonger
  <2>2. q.used = Len(FlattenSeq(HeadLines(m))) + Len(UpTo(TrailerLines(m), t))
          /\ q.pc = "trailer"
    BY <1>1 DEF AtTrailer
  <2>3. PICK h \in Nat, u \in Nat, l \in Nat :
          h = Len(FlattenSeq(HeadLines(m))) /\ u = Len(UpTo(TrailerLines(m), t)) /\ l = Len(line)
    <3>1. t \in 0..Len(TrailerTexts(m))
      BY <1>2, TrailerTextsAre, MessageType
    <3> QED BY <1>4, <3>1, TrailerSums, Zenon
  <2>4. (h + u) + l = h + (u + l)
    OBVIOUS
  <2>5. q.pc # "size"
    BY <2>2
  <2> QED BY <2>1, <2>2, <2>3, <2>4, <2>5, Zenon
<1> HIDE DEF next
<1>7. ASSUME NEW take \in Nat, Len(q.line) + take <= Len(line), Over(q, take)
      PROVE  Refused(Refuse(q, 431), m)
  <2>1. upTo > MaxHeader
    <3> HIDE DEF line, upTo
    <3>1. q.used + Len(line) > MaxHeader
      BY <1>4, <1>6, <1>7, OverIs
    <3> QED BY <1>6, <3>1, Zenon
  <2> QED BY <1>1, <2>1, TrailerTooLong
<1>8. ASSUME NEW take \in Nat, Len(q.line) + take = Len(line), ~Over(q, take)
      PROVE  Parsing(Line(q, line), m, next, tail) /\ Line(q, line) \in Parsers
  <2>1. upTo <= MaxHeader
    <3> HIDE DEF line, upTo
    <3>1. Len(q.line) + take <= Len(line)
      BY <1>4, <1>8
    <3>2. q.used + Len(line) <= MaxHeader
      BY <1>4, <1>6, <1>8, <3>1, OverIs
    <3> QED BY <1>6, <3>2, Zenon
  <2>2. t < Len(TrailerTexts(m)) - 1 \/ t \in {Len(TrailerTexts(m)) - 1}
    BY TrailerTextsAre, MessageType
  <2>3. CASE t < Len(TrailerTexts(m)) - 1
    BY <1>1, <2>3, TrailerLineEnds DEF next
  <2>4. CASE t \in {Len(TrailerTexts(m)) - 1}
    BY <1>1, <2>1, <2>4, LastTrailerLineEnds DEF next
  <2> QED BY <2>2, <2>3, <2>4
<1>9. ASSUME NEW g \in Seq(Octets), NEW more \in Seq(Octets), NoLF(g), Cat(g, more) =
            Cat(line, next)
      PROVE  Parsing(SetLine(q, g), m, more, tail)
  <2>1. PICK s : s = SetLine(q, g)
    OBVIOUS
  <2>2. s.line = g /\ s.pc = q.pc /\ s.used = q.used /\ s.req = q.req
    BY <2>1, SetLineIs
  <2>3. AtTrailer(s, m, t)
    BY <1>1, <2>2, Zenon DEF AtTrailer, Told
  <2>4. Cat(s.line, more) = TrailerRest(m, t, tail)
    BY <1>1, <1>3, <1>9, <2>2, Zenon
  <2> QED BY <1>9, <2>1, <2>2, <2>3, <2>4, Zenon DEF Parsing, InTrailer
<1>10. AtLine(q, m, line, next, tail)
  BY <1>4, <1>5, <1>7, <1>8, <1>9, Zenon DEF AtLine
<1> QED BY <1>1, <1>3, <1>10, Zenon

(* More of the same line is kept with what was kept. *)
LEMMA PartIsMore ==
    ASSUME NEW part \in Seq(Octets), NEW b \in Seq(Octets), NoLF(part), NoLF(b)
    PROVE  NoLF(Cat(part, b))
<1>1. Len(Cat(part, b)) = Len(part) + Len(b) /\ Len(part) \in Nat /\ Len(b) \in Nat
  <2>1. Len(Cat(part, b)) = Len(part) + Len(b)
    BY CatType
  <2>2. Len(part) \in Nat /\ Len(b) \in Nat
    OBVIOUS
  <2> QED BY <2>1, <2>2
<1> SUFFICES ASSUME NEW i \in 1..Len(Cat(part, b)) PROVE Cat(part, b)[i] # "LF"
  BY DEF NoLF
<1>2. i \in 1..(Len(part) + Len(b))
  BY <1>1
<1>3. Cat(part, b)[i] = IF i <= Len(part) THEN part[i] ELSE b[i - Len(part)]
  BY <1>2, CatAt
<1>4. CASE i <= Len(part)
  <2>1. i \in 1..Len(part)
    BY <1>1, <1>2, <1>4
  <2> QED BY <1>3, <1>4, <2>1, Zenon DEF NoLF
<1>5. CASE ~(i <= Len(part))
  <2>1. i - Len(part) \in 1..Len(b)
    BY <1>1, <1>2, <1>5
  <2> QED BY <1>3, <1>5, <2>1, Zenon DEF NoLF
<1> QED BY <1>4, <1>5

(* What is in a line of a message is at one of its lines. *)
LEMMA AtSomeLine ==
    ASSUME NEW m \in Messages, SaysItsSize(m), NEW tail \in Seq(Octets), NEW q \in Parsers,
           NEW rest, Parsing(q, m, rest, tail), q.pc \in InLine
    PROVE  \E line, next : /\ AtLine(q, m, line, next, tail) /\ NoLF(q.line)
                           /\ Cat(q.line, rest) = Cat(line, next)
<1>1. q.pc \notin {"body", "chunk", "crlf", "handler", "closed"}
  BY DEF InLine
<1>2. InHead(q, m, rest, tail) \/ InSize(q, m, rest, tail) \/ InTrailer(q, m, rest, tail)
  <2>1. /\ ~InBody(q, m, rest, tail) /\ ~Ready(q, m, rest, tail) /\ ~Refused(q, m)
    BY <1>1 DEF InBody, Ready, Refused
  <2>2. ~InChunk(q, m, rest, tail) /\ ~InCrlf(q, m, rest, tail)
    BY <1>1 DEF InChunk, InCrlf, AtChunk, AtCrlf
  <2> QED BY <2>1, <2>2, Zenon DEF Parsing
<1> QED BY <1>2, InHeadAtLine, InSizeAtLine, InTrailerAtLine

(* More of a line is kept, if the line is not too long by then. *)
LEMMA PartTaken ==
    ASSUME NEW m \in Messages, SaysItsSize(m), NEW tail \in Seq(Octets), NEW q \in Parsers,
           q.pc \in InLine, NEW b \in Seq(Octets), NoLF(b), NEW rest \in Seq(Octets),
           Parsing(q, m, Cat(b, rest), tail)
    PROVE  /\ Over(q, Len(b)) => Refused(Refuse(q, 431), m) /\ Refuse(q, 431) \in Parsers
           /\ /\ Parsing(SetLine(q, Cat(q.line, b)), m, rest, tail)
              /\ SetLine(q, Cat(q.line, b)) \in Parsers
<1>1. PICK line, next : /\ AtLine(q, m, line, next, tail) /\ NoLF(q.line)
                        /\ Cat(q.line, Cat(b, rest)) = Cat(line, next)
  BY AtSomeLine
<1>2. q.line \in Seq(Octets)
  BY DEF Parsers
<1>3. PICK g \in Seq(Octets) : g = Cat(q.line, b) /\ Len(g) = Len(q.line) + Len(b)
  BY <1>2, CatType
<1>4. NoLF(g)
  BY <1>1, <1>2, <1>3, PartIsMore
<1>5. Cat(g, rest) = Cat(line, next)
  BY <1>1, <1>2, <1>3, CatAssoc
<1>6. IsLine(line) /\ next \in Seq(Octets)
  BY <1>1, Zenon DEF AtLine
<1>7. Len(g) < Len(line)
  BY <1>4, <1>5, <1>6, PartOfLine
<1>8. Len(b) \in Nat /\ Len(q.line) + Len(b) <= Len(line)
  <2>1. Len(g) \in Nat /\ Len(b) \in Nat /\ Len(line) \in Nat
    BY <1>6, LineShape
  <2> QED BY <1>3, <1>7, <2>1
<1>9. Over(q, Len(b)) => Refused(Refuse(q, 431), m) /\ Refuse(q, 431) \in Parsers
  <2>1. Over(q, Len(b)) => Refused(Refuse(q, 431), m)
    BY <1>1, <1>8, Zenon DEF AtLine
  <2>2. Refuse(q, 431) \in Parsers
    BY RefuseIs
  <2> QED BY <2>1, <2>2
<1>10. Parsing(SetLine(q, g), m, rest, tail)
  BY <1>1, <1>4, <1>5, Zenon DEF AtLine
<1>11. SetLine(q, g) \in Parsers
  BY SetLineIs
<1> QED BY <1>3, <1>9, <1>10, <1>11, Zenon

(* The end of a line ends the line, if it is not too long. *)
LEMMA EndTaken ==
    ASSUME NEW m \in Messages, SaysItsSize(m), NEW tail \in Seq(Octets), NEW q \in Parsers,
           q.pc \in InLine, NEW b \in Seq(Octets), NEW rest \in Seq(Octets),
           Parsing(q, m, Cat(b, rest), tail),
           NEW take \in 1..Len(b), b[take] = "LF", \A i \in 1..(take - 1) : b[i] # "LF"
    PROVE  /\ Over(q, take) => Refused(Refuse(q, 431), m) /\ Refuse(q, 431) \in Parsers
           /\ ~Over(q, take) =>
                 /\ Parsing(Line(q, Cat(q.line, SubSeq(b, 1, take))), m,
                            Cat(SubSeq(b, take + 1, Len(b)), rest), tail)
                 /\ Line(q, Cat(q.line, SubSeq(b, 1, take))) \in Parsers
<1>1. PICK line, next : /\ AtLine(q, m, line, next, tail) /\ NoLF(q.line)
                        /\ Cat(q.line, Cat(b, rest)) = Cat(line, next)
  BY AtSomeLine
<1>2. q.line \in Seq(Octets)
  BY DEF Parsers
<1>3. IsLine(line) /\ next \in Seq(Octets)
  BY <1>1, Zenon DEF AtLine
<1>4. /\ Cat(q.line, SubSeq(b, 1, take)) = line
      /\ Cat(SubSeq(b, take + 1, Len(b)), rest) = next
  BY <1>1, <1>2, <1>3, LineIsTaken
<1>5. take \in Nat /\ Len(q.line) + take = Len(line) /\ Len(q.line) + take <= Len(line)
  <2>1. take \in 0..Len(b) /\ take \in Nat
    OBVIOUS
  <2>2. SubSeq(b, 1, take) \in Seq(Octets) /\ Len(SubSeq(b, 1, take)) = take
    BY <2>1, Split
  <2>3. Len(Cat(q.line, SubSeq(b, 1, take))) = Len(q.line) + Len(SubSeq(b, 1, take))
    BY <1>2, <2>2, CatType
  <2>4. Len(q.line) + take = Len(line)
    BY <1>4, <2>2, <2>3, Zenon
  <2>5. Len(line) \in Nat
    BY <1>3, LineShape
  <2> QED BY <2>1, <2>4, <2>5
<1>6. Over(q, take) => Refused(Refuse(q, 431), m)
  BY <1>1, <1>5, Zenon DEF AtLine
<1>7. ~Over(q, take) => Parsing(Line(q, line), m, next, tail) /\ Line(q, line) \in Parsers
  BY <1>1, <1>5, Zenon DEF AtLine
<1>8. Refuse(q, 431) \in Parsers
  BY RefuseIs
<1> QED BY <1>4, <1>6, <1>7, <1>8, Zenon

(* In a line, more is to come than what follows the message.                *)
LEMMA LineUnfinished ==
    ASSUME NEW m \in Messages, SaysItsSize(m), NEW tail \in Seq(Octets), NEW q \in Parsers,
           NEW rest \in Seq(Octets), Parsing(q, m, rest, tail), q.pc \in InLine
    PROVE  Len(tail) < Len(rest)
<1>1. PICK line, next : /\ AtLine(q, m, line, next, tail) /\ NoLF(q.line)
                        /\ Cat(q.line, rest) = Cat(line, next)
  BY AtSomeLine
<1>2. q.line \in Seq(Octets)
  BY DEF Parsers
<1>3. IsLine(line) /\ next \in Seq(Octets) /\ Len(tail) <= Len(next)
  BY <1>1, Zenon DEF AtLine
<1>4. Len(q.line) < Len(line)
  BY <1>1, <1>2, <1>3, PartOfLine
<1>5. line \in Seq(Octets)
  BY <1>3, LineShape
<1>6. Len(q.line) + Len(rest) = Len(line) + Len(next)
  <2>1. Len(Cat(q.line, rest)) = Len(q.line) + Len(rest)
    BY <1>2, CatType
  <2>2. Len(Cat(line, next)) = Len(line) + Len(next)
    BY <1>3, <1>5, CatType
  <2> QED BY <1>1, <2>1, <2>2, Zenon
<1>7. Len(q.line) \in Nat /\ Len(rest) \in Nat /\ Len(line) \in Nat
        /\ Len(next) \in Nat /\ Len(tail) \in Nat
  BY <1>2, <1>3, <1>5
<1> QED BY <1>3, <1>4, <1>6, <1>7

(* What a read of n bytes of a body or of a chunk does. *)
Taken(q, first) ==
    LET n == Len(first)
        full == IF q.pc = "body" THEN "handler" ELSE "crlf"
    IN [q EXCEPT !.req.body = Cat(q.req.body, first),
                 !.pc = IF q.need = n THEN full ELSE q.pc,
                 !.need = IF q.need = n /\ q.pc = "chunk" THEN 2 ELSE q.need - n]

(* Of some data, what is left to read. *)
LEMMA Remaining ==
    ASSUME NEW f \in Nat, NEW b \in Nat, NEW n \in Nat, n <= f - b
    PROVE  /\ f - b = n => b + n = f
           /\ f - b # n => (f - b) - n > 0 /\ (f - b) - n = f - (b + n)
OBVIOUS

(* A read takes data, and moves on when all are read. *)
LEMMA TakenIs ==
    ASSUME NEW q \in Parsers, NEW first \in Seq(Octets), Len(first) <= q.need,
           NEW s, s = Taken(q, first)
    PROVE  /\ s \in Parsers /\ s.line = q.line /\ s.used = q.used
           /\ s.req.line = q.req.line /\ s.req.fields = q.req.fields
           /\ s.req.body = Cat(q.req.body, first)
           /\ s.pc = IF q.need = Len(first) THEN IF q.pc = "body" THEN "handler"
                    ELSE "crlf" ELSE q.pc
           /\ s.need = IF q.need = Len(first) /\ q.pc = "chunk" THEN 2 ELSE q.need - Len(first)
<1>1. q.req.body \in Seq(Octets) /\ q.need \in Nat /\ q.pc \in PCs
  BY DEF Parsers, Requests
<1>2. PICK body \in Seq(Octets) : body = Cat(q.req.body, first)
  BY <1>1, CatType
<1>3. PICK pc \in PCs : pc = IF q.need = Len(first) THEN IF q.pc = "body"
            THEN "handler" ELSE "crlf" ELSE q.pc
  BY <1>1, PCsAre
<1>4. PICK need \in Nat : need = IF q.need = Len(first)
            /\ q.pc = "chunk" THEN 2 ELSE q.need - Len(first)
  <2>1. Len(first) \in Nat
    OBVIOUS
  <2> QED BY <1>1, <2>1
<1>7. PICK req \in Requests : /\ req.line = q.req.line /\ req.fields = q.req.fields
            /\ req.body = body
                               /\ req = [q.req EXCEPT !.body = body]
  <2>1. q.req \in Requests
    BY DEF Parsers
  <2> QED BY <2>1 DEF Requests
<1>8. s = [q EXCEPT !.req.body = body, !.pc = pc, !.need = need]
  BY <1>2, <1>3, <1>4, Zenon DEF Taken
<1>5. s = [q EXCEPT !.req = req, !.pc = pc, !.need = need]
  <2>1. [q EXCEPT !.req.body = body, !.pc = pc, !.need = need]
          = [q EXCEPT !.req = [q.req EXCEPT !.body = body], !.pc = pc, !.need = need]
    OBVIOUS
  <2> QED BY <1>7, <1>8, <2>1, Zenon
<1>6. /\ s \in Parsers /\ s.line = q.line /\ s.used = q.used
      /\ s.req = req /\ s.pc = pc /\ s.need = need
  BY <1>5 DEF Parsers
<1> QED BY <1>2, <1>3, <1>4, <1>6, <1>7, Zenon

(* Some bytes of a body are taken ... *)
LEMMA BodyTaken ==
    ASSUME NEW m \in Messages, SaysItsSize(m), NEW tail \in Seq(Octets), NEW q \in Parsers,
           NEW first \in Seq(Octets), Len(first) <= q.need, NEW rest \in Seq(Octets),
           InBody(q, m, Cat(first, rest), tail)
    PROVE  Parsing(Taken(q, first), m, rest, tail) /\ Taken(q, first) \in Parsers
<1> DEFINE flat == FlattenSeq(m.chunks)
<1>1. PICK s : s = Taken(q, first)
  OBVIOUS
<1>2. /\ s \in Parsers /\ s.req.line = q.req.line /\ s.req.fields = q.req.fields
      /\ s.req.body = Cat(q.req.body, first)
      /\ s.pc = IF q.need = Len(first) THEN IF q.pc = "body" THEN "handler" ELSE "crlf" ELSE q.pc
      /\ s.need = IF q.need = Len(first) /\ q.pc = "chunk" THEN 2 ELSE q.need - Len(first)
  BY <1>1, TakenIs
<1>3. /\ q.pc = "body" /\ Told(q, m) /\ ~IsChunked(m) /\ BodyFault(m) = 0
      /\ Cat(q.req.body, Cat(first, rest)) = Cat(flat, tail)
      /\ q.need > 0 /\ q.need = Len(flat) - Len(q.req.body)
  BY Zenon DEF InBody
<1>4. PICK body \in Seq(Octets) : body = q.req.body
  BY DEF Parsers, Requests
<1>5. PICK more \in Seq(Octets) : more = Cat(body, first) /\ Len(more) = Len(body) + Len(first)
  BY CatType
<1>6. Cat(more, rest) = Cat(flat, tail)
  <2>1. Cat(Cat(body, first), rest) = Cat(body, Cat(first, rest))
    BY CatAssoc
  <2> QED BY <1>3, <1>4, <1>5, <2>1, Zenon
<1>7. flat \in Seq(Octets)
  BY MessageType, FlatType
<1>8. PICK f \in Nat, b \in Nat, n \in Nat, need \in Nat :
        /\ f = Len(flat) /\ b = Len(body) /\ n = Len(first) /\ need = q.need
        /\ n <= need /\ need = f - b /\ Len(more) = b + n
  <2>1. Len(flat) \in Nat /\ Len(body) \in Nat /\ Len(first) \in Nat /\ q.need \in Nat
    BY <1>7 DEF Parsers
  <2> QED BY <1>3, <1>4, <1>5, <2>1, Zenon
<1>9. CASE need = n
  <2>1. Len(more) = Len(flat)
    BY <1>8, <1>9
  <2>2. more = flat /\ rest = tail
    BY <1>6, <1>7, <2>1, CatCancel
  <2>3. s.pc = "handler"
    BY <1>2, <1>3, <1>8, <1>9, Zenon
  <2>4. s.req = Meaning(m)
    <3>1. s.req \in Requests
      BY <1>2 DEF Parsers
    <3>2. s.req.line = m.line[1] /\ s.req.fields = m.fields /\ s.req.body = flat
      BY <1>2, <1>3, <1>4, <1>5, <2>2, Zenon DEF Told
    <3> QED BY <3>1, <3>2, MeaningIs
  <2>5. Verdict(m) = 0
    <3>1. HeadOk(m) /\ BodyFault(m) = 0
      BY <1>3, Zenon DEF Told
    <3> QED BY <3>1, VerdictOfBody
  <2> QED BY <1>1, <1>2, <2>2, <2>3, <2>4, <2>5, Zenon DEF Parsing, Ready
<1>10. CASE need # n
  <2>1. s.pc = "body" /\ s.need = need - n
    BY <1>2, <1>3, <1>8, <1>10, Zenon
  <2>2. need - n > 0 /\ need - n = f - Len(more)
    BY <1>8, <1>10
  <2>3. s.req.body = more
    BY <1>2, <1>4, <1>5, Zenon
  <2>4. s.need > 0 /\ s.need = Len(flat) - Len(s.req.body)
    BY <1>8, <2>1, <2>2, <2>3, Zenon
  <2>5. Told(s, m)
    BY <1>2, <1>3, Zenon DEF Told
  <2>6. InBody(s, m, rest, tail)
    BY <1>3, <1>6, <2>1, <2>3, <2>4, <2>5, Zenon DEF InBody
  <2> QED BY <1>1, <1>2, <2>6, Zenon DEF Parsing
<1> QED BY <1>9, <1>10

(* ... or of a chunk. *)
LEMMA ChunkTaken ==
    ASSUME NEW m \in Messages, SaysItsSize(m), NEW tail \in Seq(Octets), NEW q \in Parsers,
           NEW first \in Seq(Octets), Len(first) <= q.need, NEW rest \in Seq(Octets),
           InChunk(q, m, Cat(first, rest), tail)
    PROVE  Parsing(Taken(q, first), m, rest, tail) /\ Taken(q, first) \in Parsers
<1>1. PICK s : s = Taken(q, first)
  OBVIOUS
<1>2. /\ s \in Parsers /\ s.line = q.line /\ s.used = q.used
      /\ s.req.line = q.req.line /\ s.req.fields = q.req.fields
      /\ s.req.body = Cat(q.req.body, first)
      /\ s.pc = IF q.need = Len(first) THEN IF q.pc = "body" THEN "handler" ELSE "crlf" ELSE q.pc
      /\ s.need = IF q.need = Len(first) /\ q.pc = "chunk" THEN 2 ELSE q.need - Len(first)
  BY <1>1, TakenIs
<1>c. PICK c \in 0..(Len(m.chunks) - 1), part \in Seq(Octets) :
         AtChunk(q, m, c, part, Cat(first, rest), tail)
  BY DEF InChunk
<1>3. /\ q.pc = "chunk" /\ InChunks(q, m) /\ SizesFit(m) /\ q.line = <<>>
      /\ q.req.body = Cat(UpTo(m.chunks, c), part) /\ Len(UpTo(m.chunks, c + 1)) <= MaxBody
      /\ Cat(part, Cat(first, rest)) =
               Cat(m.chunks[c + 1], Cat(m.after, SizeRest(m, c + 1, tail)))
      /\ q.need > 0 /\ q.need = Len(m.chunks[c + 1]) - Len(part)
      /\ c > 0 => m.after = CRLF
  BY <1>c, Zenon DEF AtChunk
<1>4. c \in Nat /\ c + 1 \in Nat /\ c < Len(m.chunks) /\ c \in 0..Len(m.chunks)
        /\ m.chunks \in Seq(Seq(Octets))
  BY MessageType
<1>5. PICK d \in Seq(Octets) : d = m.chunks[c + 1]
  BY <1>4, PartType
<1>6. PICK u \in Seq(Octets) : u = UpTo(m.chunks, c)
  BY <1>4, UpToType
<1>7. PICK after \in Seq(Octets) : after = Cat(m.after, SizeRest(m, c + 1, tail))
  <2>1. SizeRest(m, c + 1, tail) \in Seq(Octets)
    <3>1. IsChunked(m)
      BY <1>3, Zenon DEF InChunks
    <3> QED BY <1>4, <3>1, RestTypes, Zenon
  <2> QED BY <2>1, MessageType, CatType
<1>8. PICK more \in Seq(Octets) : more = Cat(part, first) /\ Len(more) = Len(part) + Len(first)
  BY CatType
<1>9. Cat(more, rest) = Cat(d, after)
  <2>1. Cat(Cat(part, first), rest) = Cat(part, Cat(first, rest))
    BY CatAssoc
  <2> QED BY <1>3, <1>5, <1>7, <1>8, <2>1, Zenon
<1>10. s.req.body = Cat(u, more)
  <2>1. Cat(Cat(u, part), first) = Cat(u, Cat(part, first))
    BY CatAssoc
  <2> QED BY <1>2, <1>3, <1>6, <1>8, <2>1, Zenon
<1>11. PICK f \in Nat, b \in Nat, n \in Nat, need \in Nat :
         /\ f = Len(d) /\ b = Len(part) /\ n = Len(first) /\ need = q.need
         /\ n <= need /\ need = f - b /\ Len(more) = b + n
  <2>1. Len(d) \in Nat /\ Len(part) \in Nat /\ Len(first) \in Nat /\ q.need \in Nat
    BY DEF Parsers
  <2> QED BY <1>3, <1>5, <1>8, <2>1, Zenon
<1>15. /\ f - b = n => b + n = f
       /\ f - b # n => (f - b) - n > 0 /\ (f - b) - n = f - (b + n)
  <2>1. n <= f - b
    BY <1>11, Zenon
  <2> QED BY <2>1, Remaining
<1>12. InChunks(s, m)
  BY <1>2, <1>3, Zenon DEF InChunks, Told
<1>13. CASE need = n
  <2>1. Len(more) = Len(d)
    BY <1>11, <1>13, <1>15, Zenon
  <2>2. more = d /\ rest = after
    BY <1>9, <2>1, CatCancel
  <2>3. s.pc = "crlf" /\ s.need = 2
    <3>1. q.pc # "body"
      BY <1>3
    <3> QED BY <1>2, <1>3, <1>11, <1>13, <3>1, Zenon
  <2>4. UpTo(m.chunks, c + 1) = Cat(u, d)
    BY <1>4, <1>5, <1>6, UpToStep
  <2>5. s.req.body = UpTo(m.chunks, c + 1)
    BY <1>10, <2>2, <2>4, Zenon
  <2>6. s.line = <<>>
    BY <1>2, <1>3, Zenon
  <2>7. s.need > 0 /\ s.need = 2 - Len(s.line)
    <3>1. 2 > 0 /\ 2 = 2 - Len(<<>>)
      OBVIOUS
    <3> QED BY <2>3, <2>6, <3>1, Zenon
  <2>8. Cat(s.line, rest) = Cat(m.after, SizeRest(m, c + 1, tail))
    <3>1. Cat(<<>>, rest) = rest
      BY CatEmpty
    <3> QED BY <1>7, <2>2, <2>6, <3>1, Zenon
  <2>9. AtCrlf(s, m, c, rest, tail)
    BY <1>3, <1>12, <2>3, <2>5, <2>7, <2>8, Zenon DEF AtCrlf
  <2> QED BY <1>1, <1>2, <2>9, Zenon DEF Parsing, InCrlf
<1>14. CASE need # n
  <2>1. s.pc = "chunk" /\ s.need = need - n
    BY <1>2, <1>3, <1>11, <1>14, Zenon
  <2>2. need - n > 0 /\ need - n = f - Len(more)
    BY <1>11, <1>14, <1>15, Zenon
  <2>3. s.need > 0 /\ s.need = Len(m.chunks[c + 1]) - Len(more)
    BY <1>5, <1>11, <2>1, <2>2, Zenon
  <2>4. s.line = <<>> /\ s.req.body = Cat(UpTo(m.chunks, c), more)
    BY <1>2, <1>3, <1>6, <1>10, Zenon
  <2>5. Cat(more, rest) = Cat(m.chunks[c + 1], Cat(m.after, SizeRest(m, c + 1, tail)))
    BY <1>5, <1>7, <1>9, Zenon
  <2>6. AtChunk(s, m, c, more, rest, tail)
    BY <1>3, <1>12, <2>1, <2>3, <2>4, <2>5, Zenon DEF AtChunk
  <2> QED BY <1>1, <1>2, <2>6, Zenon DEF Parsing, InChunk
<1> QED BY <1>13, <1>14

(* The lesser of two numbers is one of them. *)
LEMMA LeastIs ==
    ASSUME NEW a \in Nat, NEW b \in Nat
    PROVE  /\ Least(a, b) \in Nat /\ Least(a, b) <= a /\ Least(a, b) <= b /\ Least(a, b) \in 0..b
           /\ a > 0 /\ b > 0 => Least(a, b) > 0
BY DEF Least

(* The bytes of a body, or of a chunk, that the buffer has. *)
LEMMA DataTaken ==
    ASSUME NEW m \in Messages, SaysItsSize(m), NEW tail \in Seq(Octets), NEW q \in Parsers,
           q.pc \in {"body", "chunk"}, NEW b \in Seq(Octets), NEW rest \in Seq(Octets),
           Parsing(q, m, Cat(b, rest), tail),
           NEW n, n = Least(q.need, Len(b))
    PROVE  /\ Parsing(Taken(q, SubSeq(b, 1, n)), m, Cat(SubSeq(b, n + 1, Len(b)), rest), tail)
           /\ Taken(q, SubSeq(b, 1, n)) \in Parsers
<1>1. n \in Nat /\ n <= q.need /\ n \in 0..Len(b)
  <2>1. q.need \in Nat /\ Len(b) \in Nat
    BY DEF Parsers
  <2> QED BY <2>1, LeastIs
<1>2. /\ SubSeq(b, 1, n) \in Seq(Octets) /\ SubSeq(b, n + 1, Len(b)) \in Seq(Octets)
      /\ Cat(SubSeq(b, 1, n), SubSeq(b, n + 1, Len(b))) = b
      /\ Len(SubSeq(b, 1, n)) = n
  BY <1>1, Split
<1>3. PICK first \in Seq(Octets), after \in Seq(Octets) :
         first = SubSeq(b, 1, n) /\ after = SubSeq(b, n + 1, Len(b))
  BY <1>2, Zenon
<1>4. Cat(b, rest) = Cat(first, Cat(after, rest))
  <2>1. Cat(Cat(first, after), rest) = Cat(first, Cat(after, rest))
    BY CatAssoc
  <2> QED BY <1>2, <1>3, <2>1, Zenon
<1>5. Parsing(q, m, Cat(first, Cat(after, rest)), tail) /\ Cat(after, rest) \in Seq(Octets)
  BY <1>4, CatType
<1>6. Len(first) <= q.need
  BY <1>1, <1>2, <1>3, Zenon
<1>7. /\ Parsing(Taken(q, first), m, Cat(after, rest), tail)
      /\ Taken(q, first) \in Parsers
  <2> DEFINE more == Cat(first, Cat(after, rest))
  <2>1. q.pc \notin {"line", "headers", "size", "trailer", "crlf", "handler", "closed"}
    OBVIOUS
  <2>2. InBody(q, m, more, tail) \/ InChunk(q, m, more, tail)
    <3>1. q.pc \notin {"line", "headers"} => ~InHead(q, m, more, tail)
      <4>1. \A i : AtHead(q, m, i) => q.pc \in {"line", "headers"}
        BY DEF AtHead
      <4> QED BY <4>1, Zenon DEF InHead
    <3>2. ~InSize(q, m, more, tail) /\ ~InTrailer(q, m, more, tail) /\ ~InCrlf(q, m, more, tail)
      BY <2>1 DEF InSize, InTrailer, InCrlf, AtSize, AtTrailer, AtCrlf
    <3>3. ~Ready(q, m, more, tail) /\ ~Refused(q, m)
      BY <2>1 DEF Ready, Refused
    <3>4. q.pc \notin {"line", "headers"}
      BY <2>1
    <3> QED BY <1>5, <3>1, <3>2, <3>3, <3>4, Zenon DEF Parsing
  <2>3. CASE InBody(q, m, more, tail)
    BY <1>5, <1>6, <2>3, BodyTaken
  <2>4. CASE InChunk(q, m, more, tail)
    BY <1>5, <1>6, <2>4, ChunkTaken
  <2> QED BY <2>2, <2>3, <2>4
<1> QED BY <1>3, <1>7, Zenon

(* The two bytes after a chunk. *)
CrlfPart(q, two, n) == [q EXCEPT !.need = @ - n, !.line = two]
CrlfEnds(q) == [q EXCEPT !.pc = "size", !.need = 0, !.line = <<>>]

(* One byte of two is kept, ... *)
LEMMA CrlfPartIs ==
    ASSUME NEW q \in Parsers, NEW two \in Seq(Octets), NEW n \in Nat, n <= q.need,
           NEW s, s = CrlfPart(q, two, n)
    PROVE  /\ s \in Parsers /\ s.line = two /\ s.pc = q.pc /\ s.used = q.used
           /\ s.need = q.need - n /\ s.req = q.req
<1>1. PICK need \in Nat : need = q.need - n
  BY DEF Parsers
<1>2. s = [q EXCEPT !.need = need, !.line = two]
  <2>1. [q EXCEPT !.need = @ - n, !.line = two] = [q EXCEPT !.need = q.need - n, !.line = two]
    OBVIOUS
  <2> QED BY <1>1, <2>1, Zenon DEF CrlfPart
<1>3. /\ s \in Parsers /\ s.line = two /\ s.pc = q.pc /\ s.used = q.used
      /\ s.need = need /\ s.req = q.req
  BY <1>2 DEF Parsers
<1> QED BY <1>1, <1>3, Zenon

(* ... and with both the next size is due. *)
LEMMA CrlfEndsIs ==
    ASSUME NEW q \in Parsers, NEW s, s = CrlfEnds(q)
    PROVE  s \in Parsers /\ s.line = <<>> /\ s.pc = "size" /\ s.used = q.used /\ s.req = q.req
<1>1. PICK e \in Seq(Octets) : e = <<>>
  <2>1. <<>> \in Seq(Octets)
    OBVIOUS
  <2> QED BY <2>1, Zenon
<1>2. PICK pc \in PCs, zero \in Nat : pc = "size" /\ zero = 0
  BY PCsAre
<1>3. s = [q EXCEPT !.pc = pc, !.need = zero, !.line = e]
  BY <1>1, <1>2, Zenon DEF CrlfEnds
<1>4. s \in Parsers /\ s.line = e /\ s.pc = pc /\ s.used = q.used /\ s.req = q.req
  BY <1>3 DEF Parsers
<1> QED BY <1>1, <1>2, <1>4, Zenon

(* The bytes after a chunk are taken, or are not CRLF: 400. *)
LEMMA CrlfTaken ==
    ASSUME NEW m \in Messages, SaysItsSize(m), NEW tail \in Seq(Octets), NEW q \in Parsers,
           q.pc = "crlf", NEW first \in Seq(Octets), Len(first) <= q.need,
           NEW rest \in Seq(Octets),
           Parsing(q, m, Cat(first, rest), tail),
           NEW two, two = Cat(q.line, first)
    PROVE  /\ Len(first) < q.need => /\ Parsing(CrlfPart(q, two, Len(first)), m, rest, tail)
                                     /\ CrlfPart(q, two, Len(first)) \in Parsers
           /\ ~(Len(first) < q.need) /\ two = CRLF => /\ Parsing(CrlfEnds(q), m, rest, tail)
                                                      /\ CrlfEnds(q) \in Parsers
           /\ ~(Len(first) < q.need) /\ two # CRLF => /\ Refused(Refuse(q, 400), m)
                                                      /\ Refuse(q, 400) \in Parsers
<1> DEFINE more == Cat(first, rest)
<1>1. InCrlf(q, m, more, tail)
  <2>1. q.pc \notin {"line", "headers", "size", "trailer", "body", "chunk", "handler", "closed"}
    OBVIOUS
  <2>2. ~InHead(q, m, more, tail)
    <3>1. \A i : AtHead(q, m, i) => q.pc \in {"line", "headers"}
      BY DEF AtHead
    <3>2. q.pc \notin {"line", "headers"}
      BY <2>1
    <3> QED BY <3>1, <3>2, Zenon DEF InHead
  <2>3. ~InSize(q, m, more, tail) /\ ~InTrailer(q, m, more, tail) /\ ~InChunk(q, m, more, tail)
    BY <2>1 DEF InSize, InTrailer, InChunk, AtSize, AtTrailer, AtChunk
  <2>4. ~Ready(q, m, more, tail) /\ ~Refused(q, m) /\ ~InBody(q, m, more, tail)
    BY <2>1 DEF Ready, Refused, InBody
  <2> QED BY <2>2, <2>3, <2>4, Zenon DEF Parsing
<1>2. PICK c \in 0..(Len(m.chunks) - 1) : AtCrlf(q, m, c, more, tail)
  BY <1>1 DEF InCrlf
<1>3. /\ InChunks(q, m) /\ SizesFit(m)
      /\ q.req.body = UpTo(m.chunks, c + 1) /\ Len(UpTo(m.chunks, c + 1)) <= MaxBody
      /\ Cat(q.line, more) = Cat(m.after, SizeRest(m, c + 1, tail))
      /\ q.need > 0 /\ q.need = 2 - Len(q.line)
  BY <1>2, Zenon DEF AtCrlf
<1>4. IsChunked(m) /\ Told(q, m) /\ HeadOk(m) /\ LengthsOf(m.fields) = {}
  BY <1>3, Zenon DEF InChunks, Told
<1>5. c \in Nat /\ c + 1 \in Nat /\ c + 1 \in 0..Len(m.chunks) /\ c + 1 > 0 /\ c < Len(m.chunks)
  BY MessageType
<1>6. PICK l \in Seq(Octets) : l = q.line
  BY DEF Parsers
<1>7. two \in Seq(Octets) /\ Len(two) = Len(l) + Len(first)
  BY <1>6, CatType
<1>8. PICK after \in Seq(Octets) : after = SizeRest(m, c + 1, tail)
  BY <1>4, <1>5, RestTypes, Zenon
<1>9. Cat(two, rest) = Cat(m.after, after)
  <2>1. Cat(Cat(l, first), rest) = Cat(l, Cat(first, rest))
    BY CatAssoc
  <2> QED BY <1>3, <1>6, <1>8, <2>1, Zenon
<1>10. PICK n \in Nat, k \in Nat, need \in Nat :
         n = Len(first) /\ k = Len(l) /\ need = q.need /\ need = 2 - k /\ n <= need
           /\ Len(two) = k + n
  <2>1. Len(first) \in Nat /\ Len(l) \in Nat /\ q.need \in Nat
    BY DEF Parsers
  <2> QED BY <1>3, <1>6, <1>7, <2>1, Zenon
<1>11. ASSUME n < need
       PROVE  /\ Parsing(CrlfPart(q, two, Len(first)), m, rest, tail)
              /\ CrlfPart(q, two, Len(first)) \in Parsers
  <2>1. PICK s : s = CrlfPart(q, two, n)
    OBVIOUS
  <2>2. /\ s \in Parsers /\ s.line = two /\ s.pc = q.pc /\ s.used = q.used
        /\ s.need = q.need - n /\ s.req = q.req
    <3>1. n <= q.need
      BY <1>10, Zenon
    <3> QED BY <1>7, <2>1, <3>1, CrlfPartIs
  <2>3. need - n > 0 /\ need - n = 2 - (k + n)
    <3>1. need = 2 - k
      BY <1>10, Zenon
    <3> QED BY <1>11, <3>1
  <2>4. s.need > 0 /\ s.need = 2 - Len(s.line)
    BY <1>10, <2>2, <2>3, Zenon
  <2>5. InChunks(s, m)
    BY <1>3, <2>2, Zenon DEF InChunks, Told
  <2>6. AtCrlf(s, m, c, rest, tail)
    BY <1>3, <1>8, <1>9, <2>2, <2>4, <2>5, Zenon DEF AtCrlf
  <2> QED BY <1>10, <2>1, <2>2, <2>6, Zenon DEF Parsing, InCrlf
<1>12. ASSUME ~(n < need)
       PROVE  two = m.after /\ rest = after
  <2>1. need = 2 - k /\ n <= need
    BY <1>10, Zenon
  <2>2. k + n = 2
    BY <1>12, <2>1
  <2>3. Len(m.after) = 2
    BY DEF SaysItsSize
  <2>4. Len(two) = Len(m.after)
    BY <1>10, <2>2, <2>3, Zenon
  <2>5. m.after \in Seq(Octets)
    BY MessageType
  <2> QED BY <1>7, <1>9, <2>4, <2>5, CatCancel
<1>13. ASSUME ~(n < need), two = CRLF
       PROVE  Parsing(CrlfEnds(q), m, rest, tail) /\ CrlfEnds(q) \in Parsers
  <2>1. PICK s : s = CrlfEnds(q)
    OBVIOUS
  <2>2. s \in Parsers /\ s.line = <<>> /\ s.pc = "size" /\ s.used = q.used /\ s.req = q.req
    BY <2>1, CrlfEndsIs
  <2>3. m.after = CRLF /\ rest = after
    BY <1>12, <1>13, Zenon
  <2>4. InChunks(s, m)
    BY <1>3, <2>2, Zenon DEF InChunks, Told
  <2>5. AtSize(s, m, c + 1)
    BY <1>3, <1>5, <2>2, <2>3, <2>4, Zenon DEF AtSize
  <2>6. Cat(s.line, rest) = SizeRest(m, c + 1, tail)
    <3>1. Cat(<<>>, rest) = rest
      BY CatEmpty
    <3> QED BY <1>8, <2>2, <2>3, <3>1, Zenon
  <2>7. NoLF(s.line)
    BY <2>2, NoLFYet, Zenon
  <2> QED BY <1>5, <2>1, <2>2, <2>5, <2>6, <2>7, Zenon DEF Parsing, InSize
<1>14. ASSUME ~(n < need), two # CRLF
       PROVE  Refused(Refuse(q, 400), m) /\ Refuse(q, 400) \in Parsers
  <2>1. m.after # CRLF
    BY <1>12, <1>14, Zenon
  <2>2. ~(Len(SizeLine(m, 0)) > MaxChunkLine)
    <3>1. MaxChunkLine \in Nat
      BY FramingAssumption
    <3> QED BY <1>3, <3>1, SizeLinesAlike DEF SizesFit
  <2>3. m.chunks # <<>>
    <3>1. Len(m.chunks) \in Nat /\ Len(<<>>) = 0
      BY MessageType
    <3>2. Len(m.chunks) # 0
      BY <1>5, <3>1
    <3> QED BY <3>1, <3>2
  <2>4. ~(Len(m.chunks[1]) > MaxBody)
    <3>1. Len(m.chunks[1]) \in Nat /\ Len(UpTo(m.chunks, 1)) = Len(m.chunks[1])
      BY <1>4, <2>3, ChunkSums, Zenon
    <3>2. 1 \in 0..Len(m.chunks) /\ c + 1 \in 1..Len(m.chunks) /\ m.chunks \in Seq(Seq(Octets))
      BY <1>5, MessageType
    <3>3. Len(UpTo(m.chunks, 1)) <= Len(UpTo(m.chunks, c + 1))
      BY <3>2, UpToMonotone
    <3>4. Len(UpTo(m.chunks, c + 1)) \in Nat
      BY <1>4, <1>5, ChunkSums, Zenon
    <3>5. MaxBody \in Nat
      BY FramingAssumption
    <3>6. PICK x \in Nat, y \in Nat : x = Len(m.chunks[1])
                /\ y = Len(UpTo(m.chunks, c + 1)) /\ x <= y /\ y <= MaxBody
      BY <1>3, <3>1, <3>3, <3>4, Zenon
    <3>7. ~(x > MaxBody)
      BY <3>5, <3>6
    <3> QED BY <3>6, <3>7, Zenon
  <2>5. BodyFault(m) = 400
    BY <1>4, <2>1, <2>2, <2>3, <2>4, ChunkedFault, Zenon
  <2> QED BY <1>4, <2>5, RefusedByBody
<1> QED BY <1>10, <1>11, <1>13, <1>14, Zenon

(* What was read is shorter than the whole if something is left. *)
LEMMA PrefixShorter ==
    ASSUME NEW a \in Seq(Octets), NEW r \in Seq(Octets), NEW d \in Seq(Octets), NEW x \in Seq(Octets),
           Cat(a, r) = Cat(d, x), Len(a) < Len(d)
    PROVE  Len(x) < Len(r)
<1>1. Len(Cat(a, r)) = Len(a) + Len(r)
  BY CatType
<1>2. Len(Cat(d, x)) = Len(d) + Len(x)
  BY CatType
<1>3. Len(a) + Len(r) = Len(d) + Len(x)
  BY <1>1, <1>2, Zenon
<1>4. Len(a) \in Nat /\ Len(r) \in Nat /\ Len(d) \in Nat /\ Len(x) \in Nat
  OBVIOUS
<1> QED BY <1>3, <1>4

(* What is left is longer than what follows. *)
LEMMA SuffixShorter ==
    ASSUME NEW a \in Seq(Octets), NEW r \in Seq(Octets), Len(r) \in Nat
    PROVE  Len(r) <= Len(Cat(a, r))
<1>1. Len(Cat(a, r)) = Len(a) + Len(r)
  BY CatType
<1>2. Len(a) \in Nat
  OBVIOUS
<1> QED BY <1>1, <1>2

(* A parser that still reads has more to come than what follows the message. *)
LEMMA Unfinished ==
    ASSUME NEW m \in Messages, SaysItsSize(m), NEW tail \in Seq(Octets), NEW q \in Parsers,
           NEW rest \in Seq(Octets), Parsing(q, m, rest, tail), q.pc \in InLine \cup InData
    PROVE  Len(tail) < Len(rest)
<1>1. CASE q.pc \in InLine
  BY <1>1, LineUnfinished
<1>2. CASE q.pc \in InData
  <2>1. q.pc \notin {"line", "headers", "size", "trailer", "handler", "closed"}
    BY <1>2 DEF InData
  <2>2. ~InHead(q, m, rest, tail)
    <3>1. \A i : AtHead(q, m, i) => q.pc \in {"line", "headers"}
      BY DEF AtHead
    <3>2. q.pc \notin {"line", "headers"}
      BY <2>1
    <3> QED BY <3>1, <3>2, Zenon DEF InHead
  <2>3. ~InSize(q, m, rest, tail) /\ ~InTrailer(q, m, rest, tail)
    BY <2>1 DEF InSize, InTrailer, AtSize, AtTrailer
  <2>4. ~Ready(q, m, rest, tail) /\ ~Refused(q, m)
    BY <2>1 DEF Ready, Refused
  <2>5. InBody(q, m, rest, tail) \/ InChunk(q, m, rest, tail) \/ InCrlf(q, m, rest, tail)
    BY <1>2, <2>2, <2>3, <2>4, Zenon DEF Parsing
  <2>6. Len(tail) \in Nat /\ Len(rest) \in Nat
    OBVIOUS
  <2>7. CASE InBody(q, m, rest, tail)
    <3>1. PICK flat \in Seq(Octets) : flat = FlattenSeq(m.chunks)
      BY MessageType, FlatType
    <3>2. PICK body \in Seq(Octets) : body = q.req.body
      BY DEF Parsers, Requests
    <3>3. Cat(body, rest) = Cat(flat, tail) /\ q.need > 0 /\ q.need = Len(flat) - Len(body)
      BY <2>7, <3>1, <3>2, Zenon DEF InBody
    <3>4. Len(body) < Len(flat)
      <4>1. Len(body) \in Nat /\ Len(flat) \in Nat
        OBVIOUS
      <4> QED BY <3>3, <4>1
    <3> QED BY <3>3, <3>4, PrefixShorter
  <2>8. ASSUME NEW c \in Nat, IsChunked(m)
        PROVE  /\ SizeRest(m, c + 1, tail) \in Seq(Octets)
                    /\ Cat(m.after, SizeRest(m, c + 1, tail)) \in Seq(Octets)
               /\ m.after \in Seq(Octets)
               /\ Len(tail) <= Len(SizeRest(m, c + 1, tail))
               /\ Len(tail) <= Len(Cat(m.after, SizeRest(m, c + 1, tail)))
    <3>1. c + 1 \in Nat
      OBVIOUS
    <3>2. PICK r \in Seq(Octets) : r = SizeRest(m, c + 1, tail) /\ Len(tail) <= Len(r)
      BY <2>8, <3>1, RestTypes, Zenon
    <3>3. m.after \in Seq(Octets)
      BY MessageType
    <3>4. PICK y \in Seq(Octets) : y = Cat(m.after, r) /\ Len(r) <= Len(y)
      <4>1. Len(r) \in Nat
        OBVIOUS
      <4> QED BY <3>3, <4>1, CatType, SuffixShorter
    <3>5. Len(r) \in Nat /\ Len(y) \in Nat
      OBVIOUS
    <3>6. Len(tail) <= Len(y)
      BY <2>6, <3>2, <3>4, <3>5
    <3> QED BY <3>2, <3>3, <3>4, <3>6, Zenon
  <2>9. CASE InChunk(q, m, rest, tail)
    <3>1. PICK c \in 0..(Len(m.chunks) - 1), part \in Seq(Octets) : AtChunk(q, m, c, part, rest, tail)
      BY <2>9 DEF InChunk
    <3>2. /\ InChunks(q, m)
          /\ Cat(part, rest) = Cat(m.chunks[c + 1], Cat(m.after, SizeRest(m, c + 1, tail)))
          /\ q.need > 0 /\ q.need = Len(m.chunks[c + 1]) - Len(part)
      BY <3>1, Zenon DEF AtChunk
    <3>3. c \in Nat /\ c < Len(m.chunks) /\ m.chunks \in Seq(Seq(Octets))
      BY MessageType
    <3>4. PICK d \in Seq(Octets) : d = m.chunks[c + 1]
      BY <3>3, PartType
    <3>5. PICK x \in Seq(Octets) : x = Cat(m.after, SizeRest(m, c + 1, tail))
                /\ Len(tail) <= Len(x)
      BY <2>8, <3>2, <3>3, Zenon DEF InChunks
    <3>6. Len(part) < Len(d)
      <4>1. Len(part) \in Nat /\ Len(d) \in Nat
        OBVIOUS
      <4>2. q.need > 0 /\ q.need = Len(d) - Len(part)
        BY <3>2, <3>4, Zenon
      <4> QED BY <4>1, <4>2
    <3>7. Cat(part, rest) = Cat(d, x)
      BY <3>2, <3>4, <3>5, Zenon
    <3>8. Len(x) < Len(rest)
      BY <3>6, <3>7, PrefixShorter
    <3>9. Len(x) \in Nat
      OBVIOUS
    <3> QED BY <2>6, <3>5, <3>8, <3>9
  <2>10. CASE InCrlf(q, m, rest, tail)
    <3>1. PICK c \in 0..(Len(m.chunks) - 1) : AtCrlf(q, m, c, rest, tail)
      BY <2>10 DEF InCrlf
    <3>2. /\ InChunks(q, m) /\ Cat(q.line, rest) = Cat(m.after, SizeRest(m, c + 1, tail))
          /\ q.need > 0 /\ q.need = 2 - Len(q.line)
      BY <3>1, Zenon DEF AtCrlf
    <3>3. c \in Nat
      BY MessageType
    <3>5. PICK x \in Seq(Octets) : x = SizeRest(m, c + 1, tail) /\ Len(tail) <= Len(x)
      BY <2>8, <3>2, <3>3, Zenon DEF InChunks
    <3>6. PICK l \in Seq(Octets), a \in Seq(Octets) : l = q.line /\ a = m.after
      BY MessageType DEF Parsers
    <3>7. Len(l) < Len(a)
      <4>1. Len(l) \in Nat
        OBVIOUS
      <4>2. q.need > 0 /\ q.need = 2 - Len(l)
        BY <3>2, <3>6, Zenon
      <4>3. Len(a) = 2
        BY <3>6, Zenon DEF SaysItsSize
      <4> QED BY <4>1, <4>2, <4>3
    <3>8. Cat(l, rest) = Cat(a, x)
      BY <3>2, <3>5, <3>6, Zenon
    <3>9. Len(x) < Len(rest)
      BY <3>7, <3>8, PrefixShorter
    <3>10. Len(x) \in Nat
      OBVIOUS
    <3> QED BY <2>6, <3>5, <3>9, <3>10
  <2> QED BY <2>5, <2>7, <2>9, <2>10
<1> QED BY <1>1, <1>2

------------------------------------------------------------------------------
(* A connection: one message after another. *)

(* The messages of a script. *)
LEMMA ScriptIs ==
    ASSUME NEW s \in Scripts
    PROVE  /\ s \in Seq(Messages) /\ Len(s) \in Nat
           /\ \A i \in 1..Len(s) : s[i] \in Messages /\ SaysItsSize(s[i])
<1>1. s \in Seq(Messages) /\ \A i \in DOMAIN s : SaysItsSize(s[i])
  BY ScriptsAssumption
<1>2. DOMAIN s = 1..Len(s) /\ Len(s) \in Nat /\ \A i \in 1..Len(s) : s[i] \in Messages
  BY <1>1
<1> QED BY <1>1, <1>2, Zenon

(* The bytes of a message are those of its head and of its body. *)
LEMMA BytesAre ==
    ASSUME NEW m \in Messages, SaysItsSize(m), NEW tail \in Seq(Octets)
    PROVE  /\ Bytes(m) \in Seq(Octets)
           /\ Cat(Bytes(m), tail) = HeadRest(m, 0, tail)
<1>1. PICK h \in Seq(Octets) : h = FlattenSeq(HeadLines(m)) /\ h = From(HeadLines(m), 0)
  BY HeadLinesAre, FlatType, FromEnds
<1>2. PICK b \in Seq(Octets) : b = BodyBytes(m)
  BY BodyBytesType
<1>3. Bytes(m) = Cat(h, b)
  BY <1>1, <1>2, Zenon DEF Bytes, Cat
<1>4. Cat(h, b) \in Seq(Octets)
  BY CatType
<1>5. Cat(Cat(h, b), tail) = Cat(h, Cat(b, tail))
  BY CatAssoc
<1> QED BY <1>1, <1>2, <1>3, <1>4, <1>5, Zenon DEF HeadRest

(* The bytes of a script are those of its messages. *)
LEMMA BytesOfAllAre ==
    ASSUME NEW s \in Scripts
    PROVE  /\ BytesOfAll(s) \in Seq(Seq(Octets)) /\ Len(BytesOfAll(s)) = Len(s)
           /\ \A i \in 1..Len(s) : BytesOfAll(s)[i] = Bytes(s[i])
<1>1. s \in Seq(Messages) /\ Len(s) \in Nat /\ \A i \in 1..Len(s) : s[i] \in Messages
            /\ SaysItsSize(s[i])
  BY ScriptIs
<1>2. DOMAIN s = 1..Len(s)
  BY <1>1
<1>3. \A i \in 1..Len(s) : Bytes(s[i]) \in Seq(Octets)
  <2> TAKE i \in 1..Len(s)
  <2>1. <<>> \in Seq(Octets)
    OBVIOUS
  <2> QED BY <1>1, <2>1, BytesAre, Zenon
<1>4. BytesOfAll(s) = [i \in 1..Len(s) |-> Bytes(s[i])]
  BY <1>2, Zenon DEF BytesOfAll
<1> DEFINE B(i) == Bytes(s[i])
<1> HIDE DEF B
<1>5. \A i \in 1..Len(s) : B(i) \in Seq(Octets)
  BY <1>3 DEF B
<1>6. [i \in 1..Len(s) |-> B(i)] \in Seq(Seq(Octets)) /\ Len([i \in 1..Len(s) |-> B(i)]) = Len(s)
      /\ \A i \in 1..Len(s) : [j \in 1..Len(s) |-> B(j)][i] = B(i)
  BY <1>1, <1>5
<1>7. BytesOfAll(s) = [i \in 1..Len(s) |-> B(i)]
  BY <1>4, Zenon DEF B
<1> QED BY <1>6, <1>7, Zenon DEF B

(* A new message begins with an empty parser. *)
LEMMA FreshIs ==
    Fresh \in Parsers /\ Fresh.pc = "line" /\ Fresh.line = <<>> /\ Fresh.used = 0
    /\ Fresh.req.fields = <<>> /\ Fresh.req.body = <<>> /\ Fresh.status = 0
<1>1. "line" \in PCs /\ "" \in Symbols \cup {""} /\ 0 \in Nat
  BY PCsAre
<1>2. <<>> \in Seq(Symbols) /\ <<>> \in Seq(Octets)
  OBVIOUS
<1>3. NoRequest \in Requests
  BY <1>1, <1>2, Zenon DEF NoRequest, Requests
<1>4. Fresh \in Parsers
  BY <1>1, <1>2, <1>3, Zenon DEF Fresh, Parsers
<1> QED BY <1>4, Zenon DEF Fresh, NoRequest

(* An empty parser is at the beginning of a message. *)
LEMMA MessageBegins ==
    ASSUME NEW m \in Messages, SaysItsSize(m), NEW tail \in Seq(Octets)
    PROVE  Parsing(Fresh, m, Cat(Bytes(m), tail), tail)
<1>1. Cat(Bytes(m), tail) = HeadRest(m, 0, tail)
  BY BytesAre
<1>2. 0 \in 0..(Len(HeadTexts(m)) - 1) /\ 0 <= m.blanks /\ ~(0 > m.blanks)
  BY HeadTextsAre, MessageType
<1>3. \A j \in 1..0 : HeadFault(m, j) = 0
  OBVIOUS
<1>4. HeadLen(m, 0) = 0
  BY HeadLenSteps
<1>5. AtHead(Fresh, m, 0)
  BY <1>2, <1>3, <1>4, FreshIs, Zenon DEF AtHead
<1>6. Parsing(Fresh, m, HeadRest(m, 0, tail), tail)
  BY <1>2, <1>5, FreshIs, InHeadNext
<1> QED BY <1>1, <1>6, Zenon

(* Of a connection: the requests it served, and where it is: in a message,  *)
(* between two, or closed, by the client or by the server.                  *)
KeptIn(s, k) == \A i \in 1..k : KeepAlive(Meaning(s[i]))
GotAre(s, n, g, k) ==
    /\ k \in 0..Len(s) /\ KeptIn(s, k - 1)
    /\ Len(UpTo(BytesOfAll(s), k)) <= n
    /\ Len(g) = k /\ \A i \in 1..k : g[i] = Meaning(s[i]) /\ Verdict(s[i]) = 0
MessageAt(s, q, rest, k) ==
    /\ k < Len(s) /\ KeptIn(s, k)
    /\ Parsing(q, s[k + 1], rest, From(BytesOfAll(s), k + 1))
WaitingAt(s, q, rest, k) == k = Len(s) /\ KeptIn(s, k) /\ q = Fresh /\ rest = <<>>
HungUpAt(s, n, q, k) ==
    /\ q.pc = "closed" /\ KeptIn(s, k) /\ q.status \in {0, 408}
    /\ k < Len(s) => Len(UpTo(BytesOfAll(s), k + 1)) > n
EndedAt(s, q, k, stop) ==
    /\ q.pc = "closed" /\ q.status = 0 /\ k > 0
    /\ stop = TRUE \/ ~KeepAlive(Meaning(s[k]))

(* After a message another begins, or the client has no more to say. *)
LEMMA NextMessage ==
    ASSUME NEW s \in Scripts, NEW k \in 0..Len(s), KeptIn(s, k),
           NEW rest, rest = From(BytesOfAll(s), k)
    PROVE  MessageAt(s, Fresh, rest, k) \/ WaitingAt(s, Fresh, rest, k)
<1>1. /\ BytesOfAll(s) \in Seq(Seq(Octets)) /\ Len(BytesOfAll(s)) = Len(s) /\ Len(s) \in Nat
      /\ \A i \in 1..Len(s) : BytesOfAll(s)[i] = Bytes(s[i])
  BY BytesOfAllAre, ScriptIs
<1>2. CASE k < Len(s)
  <2>1. k \in Nat /\ k + 1 \in Nat /\ k + 1 \in 1..Len(s) /\ k < Len(BytesOfAll(s))
    BY <1>1, <1>2
  <2>2. PICK tail \in Seq(Octets) : tail = From(BytesOfAll(s), k + 1)
    BY <1>1, <2>1, FromType
  <2>3. rest = Cat(Bytes(s[k + 1]), tail)
    <3>1. From(BytesOfAll(s), k) = Cat(BytesOfAll(s)[k + 1], From(BytesOfAll(s), k + 1))
      BY <1>1, <2>1, FromStep
    <3> QED BY <1>1, <2>1, <2>2, <3>1, Zenon
  <2>4. PICK m \in Messages : m = s[k + 1] /\ SaysItsSize(m)
    BY <2>1, ScriptIs, Zenon
  <2>5. Parsing(Fresh, m, Cat(Bytes(m), tail), tail)
    BY <2>4, MessageBegins
  <2> QED BY <1>2, <2>2, <2>3, <2>4, <2>5, Zenon DEF MessageAt
<1>3. CASE k = Len(s)
  <2>1. From(BytesOfAll(s), Len(BytesOfAll(s))) = <<>>
    BY <1>1, FromEnds
  <2> QED BY <1>1, <1>3, <2>1, Zenon DEF WaitingAt
<1> QED BY <1>1, <1>2, <1>3

(* The bytes of a script are those of k messages, and the others. *)
LEMMA BytesSplit ==
    ASSUME NEW s \in Scripts, NEW k \in 0..Len(s)
    PROVE  /\ FlattenSeq(BytesOfAll(s)) \in Seq(Octets) /\ From(BytesOfAll(s), k) \in Seq(Octets)
           /\ Len(UpTo(BytesOfAll(s), k)) \in Nat
           /\ Len(FlattenSeq(BytesOfAll(s))) =
                    Len(UpTo(BytesOfAll(s), k)) + Len(From(BytesOfAll(s), k))
<1>1. BytesOfAll(s) \in Seq(Seq(Octets)) /\ k \in 0..Len(BytesOfAll(s)) /\ k \in Nat
  BY BytesOfAllAre, ScriptIs
<1>2. PICK u \in Seq(Octets) : u = UpTo(BytesOfAll(s), k)
  BY <1>1, UpToType
<1>3. PICK f \in Seq(Octets) : f = From(BytesOfAll(s), k)
  BY <1>1, FromType
<1>4. FlattenSeq(BytesOfAll(s)) = Cat(u, f)
  BY <1>1, <1>2, <1>3, FlatSplits, Zenon
<1>5. Cat(u, f) \in Seq(Octets) /\ Len(Cat(u, f)) = Len(u) + Len(f)
  BY CatType
<1>6. Len(u) \in Nat
  OBVIOUS
<1> QED BY <1>2, <1>3, <1>4, <1>5, <1>6, Zenon

(* What is served is the next message, whole. *)
LEMMA ServesNext ==
    ASSUME NEW s \in Scripts, NEW n \in Nat, NEW q \in Parsers, NEW rest \in Seq(Octets),
           NEW g \in Seq(Requests), NEW k \in 0..Len(s), GotAre(s, n, g, k), MessageAt(s, q, rest, k),
           q.pc = "handler", Len(FlattenSeq(BytesOfAll(s))) <= n + Len(rest)
    PROVE  /\ k + 1 \in 0..Len(s) /\ GotAre(s, n, Append(g, q.req), k + 1)
           /\ q.req = Meaning(s[k + 1]) /\ KeptIn(s, k) /\ rest = From(BytesOfAll(s), k + 1)
<1>1. k < Len(s) /\ KeptIn(s, k) /\ Parsing(q, s[k + 1], rest, From(BytesOfAll(s), k + 1))
  BY Zenon DEF MessageAt
<1>2. k \in Nat /\ k + 1 \in 0..Len(s) /\ (k + 1) - 1 = k
  BY <1>1, ScriptIs
<1> DEFINE m == s[k + 1]
           tail == From(BytesOfAll(s), k + 1)
<1>3. Ready(q, m, rest, tail)
  <2> HIDE DEF m, tail
  <2>1. q.pc \notin {"line", "headers", "size", "trailer", "body", "chunk", "crlf", "closed"}
    OBVIOUS
  <2>2. ~InHead(q, m, rest, tail)
    <3>1. \A i : AtHead(q, m, i) => q.pc \in {"line", "headers"}
      BY DEF AtHead
    <3>2. q.pc \notin {"line", "headers"}
      BY <2>1
    <3> QED BY <3>1, <3>2, Zenon DEF InHead
  <2>3. ~InSize(q, m, rest, tail) /\ ~InTrailer(q, m, rest, tail) /\ ~InChunk(q, m, rest, tail)
        /\ ~InCrlf(q, m, rest, tail)
    BY <2>1 DEF InSize, InTrailer, InChunk, InCrlf, AtSize, AtTrailer, AtChunk, AtCrlf
  <2>4. ~Refused(q, m) /\ ~InBody(q, m, rest, tail)
    BY <2>1 DEF Refused, InBody
  <2> QED BY <1>1, <2>2, <2>3, <2>4, Zenon DEF Parsing, m, tail
<1>4. q.req = Meaning(m) /\ Verdict(m) = 0 /\ rest = tail
  BY <1>3, Zenon DEF Ready
<1>5. Len(UpTo(BytesOfAll(s), k + 1)) <= n
  <2>1. PICK u \in Nat, r \in Nat : u = Len(UpTo(BytesOfAll(s), k + 1)) /\ r = Len(rest)
    <3>1. Len(UpTo(BytesOfAll(s), k + 1)) \in Nat
      BY <1>2, BytesSplit, Zenon
    <3>2. Len(rest) \in Nat
      OBVIOUS
    <3> QED BY <3>1, <3>2, Zenon
  <2>2. u + r <= n + r
    BY <1>2, <1>4, <2>1, BytesSplit, Zenon
  <2>3. u <= n
    BY <2>2
  <2> QED BY <2>1, <2>3, Zenon
<1>6. Len(g) = k /\ \A i \in 1..k : g[i] = Meaning(s[i]) /\ Verdict(s[i]) = 0
  BY Zenon DEF GotAre
<1>7. PICK r \in Requests : r = q.req
  BY DEF Parsers
<1>8. /\ Len(Append(g, r)) = k + 1
      /\ \A i \in 1..k : Append(g, r)[i] = g[i]
      /\ Append(g, r)[k + 1] = r
      /\ \A i \in 1..(k + 1) : i \in 1..k \/ i = k + 1
  BY <1>2, <1>6
<1>9. \A i \in 1..(k + 1) : Append(g, r)[i] = Meaning(s[i]) /\ Verdict(s[i]) = 0
  BY <1>4, <1>6, <1>7, <1>8, Zenon
<1>10. GotAre(s, n, Append(g, r), k + 1)
  BY <1>1, <1>2, <1>5, <1>8, <1>9, Zenon DEF GotAre
<1> QED BY <1>1, <1>2, <1>4, <1>7, <1>10, Zenon

(* A client that stops in a message has not sent all of it. *)
LEMMA HangsUpInside ==
    ASSUME NEW s \in Scripts, NEW n \in Nat, NEW q \in Parsers, NEW rest \in Seq(Octets),
           NEW k \in 0..Len(s), MessageAt(s, q, rest, k), q.pc \in InLine \cup InData,
           Len(FlattenSeq(BytesOfAll(s))) = n + Len(rest)
    PROVE  Len(UpTo(BytesOfAll(s), k + 1)) > n
<1>1. k < Len(s) /\ Parsing(q, s[k + 1], rest, From(BytesOfAll(s), k + 1))
  BY Zenon DEF MessageAt
<1>2. k + 1 \in 0..Len(s) /\ k + 1 \in 1..Len(s)
  BY <1>1, ScriptIs
<1>3. PICK tail \in Seq(Octets) : tail = From(BytesOfAll(s), k + 1)
  BY <1>2, BytesSplit, Zenon
<1>4. Len(tail) < Len(rest)
  <2>1. PICK m \in Messages : m = s[k + 1] /\ SaysItsSize(m)
    BY <1>2, ScriptIs, Zenon
  <2> QED BY <1>1, <1>3, <2>1, Unfinished
<1>5. PICK u \in Nat, r \in Nat, t \in Nat :
         u = Len(UpTo(BytesOfAll(s), k + 1)) /\ r = Len(rest) /\ t = Len(tail)
  <2>1. Len(UpTo(BytesOfAll(s), k + 1)) \in Nat
    BY <1>2, BytesSplit, Zenon
  <2>2. Len(rest) \in Nat /\ Len(tail) \in Nat
    OBVIOUS
  <2> QED BY <2>1, <2>2, Zenon
<1>6. u + t = n + r /\ t < r
  BY <1>2, <1>3, <1>4, <1>5, BytesSplit, Zenon
<1>7. u > n
  BY <1>6
<1> QED BY <1>5, <1>7, Zenon

(* The least element of a finite set of numbers, ... *)
LEMMA LeastOf ==
    ASSUME NEW S \in SUBSET Nat, S # {}
    PROVE  Min(S) \in S /\ \A y \in S : Min(S) <= y
<1>1. \E n \in S : \A y \in S : n <= y
  BY LeastNumber
<1> QED BY <1>1 DEF Min

(* ... and the greatest. *)
LEMMA GreatestOf ==
    ASSUME NEW N \in Nat, NEW S \in SUBSET (0..N), S # {}
    PROVE  Max(S) \in S /\ \A y \in S : y <= Max(S)
<1> DEFINE T == {x \in 0..N : N - x \in S}
<1>1. T \in SUBSET Nat /\ T # {}
  <2>1. PICK y \in S : TRUE
    OBVIOUS
  <2>2. N - y \in 0..N /\ N - (N - y) = y
    OBVIOUS
  <2> QED BY <2>1, <2>2
<1>2. PICK n \in T : \A y \in T : n <= y
  <2> HIDE DEF T
  <2> QED BY <1>1, LeastNumber
<1>3. \A y \in S : N - y \in T
  <2> TAKE y \in S
  <2>1. N - y \in 0..N /\ N - (N - y) = y
    OBVIOUS
  <2> QED BY <2>1
<1>4. N - n \in S /\ n \in 0..N
  OBVIOUS
<1>5. \A y \in S : y <= N - n
  <2> TAKE y \in S
  <2>1. n <= N - y
    BY <1>2, <1>3
  <2>2. y \in Nat
    OBVIOUS
  <2> QED BY <1>4, <2>1, <2>2
<1>6. \E x \in S : \A y \in S : x >= y
  <2> HIDE DEF T
  <2>1. \A y \in S : N - n >= y
    BY <1>4, <1>5
  <2> QED BY <1>4, <2>1
<1>7. Max(S) \in S /\ \A y \in S : Max(S) >= y
  BY <1>6 DEF Max
<1> HIDE DEF T
<1> QED BY <1>7

------------------------------------------------------------------------------
(* The invariant, and each action. *)

(* What is to come: in the buffer, on its way, and not sent. *)
RestOf(s, n, b, w) ==
    Cat(b, Cat(w, SubSeq(FlattenSeq(BytesOfAll(s)), n + 1, Len(FlattenSeq(BytesOfAll(s))))))
At(s, n, q, rest, g, stop, k) ==
    /\ GotAre(s, n, g, k)
    /\ MessageAt(s, q, rest, k) \/ WaitingAt(s, q, rest, k) \/ HungUpAt(s, n, q, k)
             \/ EndedAt(s, q, k, stop)

(* The type of the state, ... *)
FramingType ==
    /\ script \in Scripts /\ sent \in 0..Len(FlattenSeq(BytesOfAll(script)))
    /\ wire \in Seq(Octets) /\ buf \in Seq(Octets) /\ p \in Parsers
    /\ got \in Seq(Requests) /\ stopping \in BOOLEAN
Rest == RestOf(script, sent, buf, wire)

(* ... and the invariant: some k requests were served, and one is being read. *)
FramingInv ==
    FramingType /\ \E k \in 0..Len(script) : At(script, sent, p, Rest, got, stopping, k)

(* What the client has not sent is a sequence. *)
LEMMA UnsentIs ==
    ASSUME NEW s \in Scripts, NEW n \in 0..Len(FlattenSeq(BytesOfAll(s)))
    PROVE  LET all == FlattenSeq(BytesOfAll(s))
               unsent == SubSeq(all, n + 1, Len(all))
           IN /\ unsent \in Seq(Octets) /\ SubSeq(all, 1, n) \in Seq(Octets)
                   /\ all \in Seq(Octets)
              /\ Len(all) = n + Len(unsent) /\ Cat(SubSeq(all, 1, n), unsent) = all
<1>1. 0 \in 0..Len(s)
  BY ScriptIs
<1>2. PICK all \in Seq(Octets) : all = FlattenSeq(BytesOfAll(s))
  BY <1>1, BytesSplit, Zenon
<1>3. n \in 0..Len(all)
  BY <1>2, Zenon
<1>4. /\ SubSeq(all, 1, n) \in Seq(Octets) /\ SubSeq(all, n + 1, Len(all)) \in Seq(Octets)
      /\ Cat(SubSeq(all, 1, n), SubSeq(all, n + 1, Len(all))) = all
      /\ Len(SubSeq(all, n + 1, Len(all))) = Len(all) - n
  BY <1>3, Split
<1>5. PICK l \in Nat : l = Len(all)
  OBVIOUS
<1>6. l = n + (l - n)
  BY <1>3, <1>5
<1> QED BY <1>2, <1>4, <1>5, <1>6, Zenon

(* What is to come is a sequence, ... *)
LEMMA RestIs ==
    ASSUME NEW s \in Scripts, NEW n \in 0..Len(FlattenSeq(BytesOfAll(s))),
           NEW b \in Seq(Octets), NEW w \in Seq(Octets)
    PROVE  /\ RestOf(s, n, b, w) \in Seq(Octets)
           /\ Len(FlattenSeq(BytesOfAll(s))) <= n + Len(RestOf(s, n, b, w))
           /\ b = <<>> /\ w = <<>> =>
                Len(FlattenSeq(BytesOfAll(s))) = n + Len(RestOf(s, n, b, w))
           /\ \E x \in Seq(Octets) :
                 /\ RestOf(s, n, b, w) = Cat(b, x)
                 /\ \A c \in Seq(Octets) : RestOf(s, n, c, w) = Cat(c, x)
           /\ b # <<>> => RestOf(s, n, b, w) # <<>>
<1> DEFINE all == FlattenSeq(BytesOfAll(s))
<1>1. PICK u \in Seq(Octets) : u = SubSeq(all, n + 1, Len(all)) /\ Len(all) = n + Len(u)
  BY UnsentIs, Zenon
<1>2. PICK x \in Seq(Octets) : x = Cat(w, u) /\ Len(x) = Len(w) + Len(u)
  BY CatType
<1>3. PICK r \in Seq(Octets) : r = Cat(b, x) /\ Len(r) = Len(b) + Len(x)
  BY CatType
<1>4. \A c : RestOf(s, n, c, w) = Cat(c, x)
  BY <1>1, <1>2, Zenon DEF RestOf
<1>5. PICK lb \in Nat, lw \in Nat, lu \in Nat : lb = Len(b) /\ lw = Len(w) /\ lu = Len(u)
  OBVIOUS
<1>6. Len(r) = lb + (lw + lu) /\ Len(all) = n + lu
  BY <1>1, <1>2, <1>3, <1>5, Zenon
<1>7. n \in Nat
  <2>1. all \in Seq(Octets)
    BY UnsentIs, Zenon
  <2> HIDE DEF all
  <2>2. Len(all) \in Nat
    BY <2>1
  <2> QED BY <2>2 DEF all
<1>8. n + lu <= n + (lb + (lw + lu)) /\ (lb = 0 /\ lw = 0 => n + lu = n + (lb + (lw + lu)))
  BY <1>7
<1>9. Len(all) <= n + Len(r) /\ (lb = 0 /\ lw = 0 => Len(all) = n + Len(r))
  BY <1>6, <1>8, Zenon
<1>10. b # <<>> => r # <<>>
  <2>1. b # <<>> => lb > 0
    BY <1>5
  <2>2. r = <<>> => Len(r) = 0
    OBVIOUS
  <2>3. lb > 0 => lb + (lw + lu) # 0
    OBVIOUS
  <2> QED BY <1>6, <2>1, <2>2, <2>3, Zenon
<1>11. b = <<>> /\ w = <<>> => lb = 0 /\ lw = 0
  BY <1>5
<1> HIDE DEF all
<1>12. RestOf(s, n, b, w) = r
  BY <1>3, <1>4, Zenon
<1> QED BY <1>3, <1>4, <1>9, <1>10, <1>11, <1>12, Zenon DEF all

(* ... and what leaves the buffer is its beginning. *)
LEMMA RestSplits ==
    ASSUME NEW s \in Scripts, NEW n \in 0..Len(FlattenSeq(BytesOfAll(s))),
           NEW b \in Seq(Octets), NEW w \in Seq(Octets)
    PROVE  \E x \in Seq(Octets) : /\ RestOf(s, n, b, w) = Cat(b, x)
                                  /\ \A c \in Seq(Octets) : RestOf(s, n, c, w) = Cat(c, x)
BY RestIs

(* A parser that reads bytes is in a message, if bytes are to come. *)
LEMMA ReadingIsInMessage ==
    ASSUME NEW s, NEW n, NEW q, NEW rest, NEW g, NEW stop, NEW k, At(s, n, q, rest, g, stop, k),
           q.pc # "closed", rest # <<>> \/ q # Fresh
    PROVE  MessageAt(s, q, rest, k)
BY Zenon DEF At, WaitingAt, HungUpAt, EndedAt

(* A parser that is in a message after a step is so in the invariant. *)
LEMMA StaysInMessage ==
    ASSUME NEW s \in Scripts, NEW n, NEW q, NEW rest, NEW g, NEW stop, NEW k \in 0..Len(s),
           At(s, n, q, rest, g, stop, k), MessageAt(s, q, rest, k), NEW q2, NEW rest2,
           \A m \in Messages, tail \in Seq(Octets) :
              SaysItsSize(m) /\ Parsing(q, m, rest, tail) =>
                Parsing(q2, m, rest2, tail) /\ q2 \in Parsers
    PROVE  At(s, n, q2, rest2, g, stop, k) /\ q2 \in Parsers
<1>1. k < Len(s) /\ KeptIn(s, k) /\ Parsing(q, s[k + 1], rest, From(BytesOfAll(s), k + 1))
  BY Zenon DEF MessageAt
<1>2. k + 1 \in 0..Len(s) /\ k + 1 \in 1..Len(s)
  BY <1>1, ScriptIs
<1>3. PICK tail \in Seq(Octets) : tail = From(BytesOfAll(s), k + 1)
  BY <1>2, BytesSplit, Zenon
<1>4. PICK m \in Messages : m = s[k + 1] /\ SaysItsSize(m)
  BY <1>2, ScriptIs, Zenon
<1>5. Parsing(q2, m, rest2, tail) /\ q2 \in Parsers
  BY <1>1, <1>3, <1>4, Zenon
<1>6. MessageAt(s, q2, rest2, k)
  BY <1>1, <1>3, <1>4, <1>5, Zenon DEF MessageAt
<1> QED BY <1>5, <1>6, Zenon DEF At

(* A read fills the buffer: the rest is what it was. *)
LEMMA InvFill ==
    ASSUME FramingInv, Fill
    PROVE  FramingInv'
<1>1. PICK k \in 0..Len(script) : At(script, sent, p, Rest, got, stopping, k)
  BY DEF FramingInv
<1>2. /\ script \in Scripts /\ sent \in 0..Len(FlattenSeq(BytesOfAll(script)))
      /\ wire \in Seq(Octets) /\ buf \in Seq(Octets) /\ p \in Parsers
      /\ got \in Seq(Requests) /\ stopping \in BOOLEAN
  BY DEF FramingInv, FramingType
<1>3. PICK n \in 1..Len(wire) : buf' = SubSeq(wire, 1, n)
            /\ wire' = SubSeq(wire, n + 1, Len(wire))
  BY DEF Fill
<1>4. buf = <<>> /\ script' = script /\ sent' = sent /\ p' = p /\ got' = got
        /\ stopping' = stopping
  BY DEF Fill
<1>5. n \in 0..Len(wire)
  OBVIOUS
<1>6. buf' \in Seq(Octets) /\ wire' \in Seq(Octets) /\ Cat(buf', wire') = wire
  BY <1>2, <1>3, <1>5, Split
<1>7. Rest' = Rest
  <2>1. PICK u \in Seq(Octets) :
          u = SubSeq(FlattenSeq(BytesOfAll(script)), sent + 1, Len(FlattenSeq(BytesOfAll(script))))
    BY <1>2, UnsentIs, Zenon
  <2>2. Cat(buf', Cat(wire', u)) = Cat(wire, u)
    BY <1>6, CatAssoc
  <2>3. Cat(wire, u) \in Seq(Octets)
    BY <1>2, CatType
  <2>4. Cat(<<>>, Cat(wire, u)) = Cat(wire, u)
    BY <2>3, CatEmpty
  <2>5. Rest' = Cat(buf', Cat(wire', u))
    BY <1>4, <2>1, Zenon DEF Rest, RestOf
  <2>6. Rest = Cat(buf, Cat(wire, u))
    BY <2>1, Zenon DEF Rest, RestOf
  <2> QED BY <1>4, <2>2, <2>4, <2>5, <2>6, Zenon
<1>8. At(script, sent, p, Rest, got, stopping, k)'
  BY <1>1, <1>4, <1>7, Zenon
<1>9. FramingType'
  BY <1>2, <1>4, <1>6, Zenon DEF FramingType
<1> QED BY <1>4, <1>8, <1>9, Zenon DEF FramingInv

(* A step that reads from the buffer, and leaves the parser in its message. *)
LEMMA ReadStep ==
    ASSUME FramingInv, p.pc \in InLine \cup InData, buf # <<>>, buf' \in Seq(Octets),
           script' = script /\ sent' = sent /\ wire' = wire /\ got' = got
             /\ stopping' = stopping,
           \A m \in Messages, tail \in Seq(Octets), x \in Seq(Octets) :
              SaysItsSize(m) /\ Parsing(p, m, Cat(buf, x), tail) =>
                 Parsing(p', m, Cat(buf', x), tail) /\ p' \in Parsers
    PROVE  FramingInv'
<1>1. PICK k \in 0..Len(script) : At(script, sent, p, Rest, got, stopping, k)
  BY DEF FramingInv
<1>2. /\ script \in Scripts /\ sent \in 0..Len(FlattenSeq(BytesOfAll(script)))
      /\ wire \in Seq(Octets) /\ buf \in Seq(Octets) /\ p \in Parsers
      /\ got \in Seq(Requests) /\ stopping \in BOOLEAN
  BY DEF FramingInv, FramingType
<1>4. PICK x \in Seq(Octets) :
         /\ RestOf(script, sent, buf, wire) = Cat(buf, x)
         /\ \A c \in Seq(Octets) : RestOf(script, sent, c, wire) = Cat(c, x)
  BY <1>2, RestSplits
<1>6. Rest = Cat(buf, x) /\ Rest' = Cat(buf', x)
  BY <1>4, Zenon DEF Rest
<1>7. MessageAt(script, p, Rest, k)
  <2>1. Rest # <<>>
    BY <1>2, RestIs, Zenon DEF Rest
  <2>2. p.pc # "closed"
    BY DEF InLine, InData
  <2> QED BY <1>1, <2>1, <2>2, ReadingIsInMessage
<1>10. \A m \in Messages, tail \in Seq(Octets) :
          SaysItsSize(m) /\ Parsing(p, m, Rest, tail) => Parsing(p', m, Rest', tail)
            /\ p' \in Parsers
  BY <1>6, Zenon
<1>11. At(script, sent, p', Rest', got, stopping, k) /\ p' \in Parsers
  <2>1. PICK q2, rest2, s, rest : q2 = p' /\ rest2 = Rest' /\ s = script /\ rest = Rest
    OBVIOUS
  <2>2. /\ s \in Scripts /\ k \in 0..Len(s)
        /\ At(s, sent, p, rest, got, stopping, k) /\ MessageAt(s, p, rest, k)
    BY <1>1, <1>2, <1>7, <2>1, Zenon
  <2>3. \A m \in Messages, tail \in Seq(Octets) :
          SaysItsSize(m) /\ Parsing(p, m, rest, tail) => Parsing(q2, m, rest2, tail)
            /\ q2 \in Parsers
    BY <1>10, <2>1, Zenon
  <2>4. At(s, sent, q2, rest2, got, stopping, k) /\ q2 \in Parsers
    BY <2>2, <2>3, StaysInMessage
  <2> QED BY <2>1, <2>4, Zenon
<1>12. FramingType'
  BY <1>2, <1>11, Zenon DEF FramingType
<1> QED BY <1>11, <1>12, Zenon DEF FramingInv

(* The buffer holds no end of a line. *)
LEMMA InvLinePart ==
    ASSUME FramingInv, LinePart
    PROVE  FramingInv'
<1>2. buf \in Seq(Octets) /\ p \in Parsers
  BY DEF FramingInv, FramingType
<1>3. /\ p.pc \in InLine /\ buf # <<>> /\ ~Contains(buf, "LF") /\ buf' = <<>>
      /\ p' = IF Over(p, Len(buf)) THEN Refuse(p, 431) ELSE [p EXCEPT !.line = @ \o buf]
      /\ script' = script /\ sent' = sent /\ wire' = wire /\ got' = got /\ stopping' = stopping
  BY Zenon DEF LinePart, Outcome
<1>8. NoLF(buf)
  BY <1>3 DEF Contains, NoLF
<1>9. p' = IF Over(p, Len(buf)) THEN Refuse(p, 431) ELSE SetLine(p, Cat(p.line, buf))
  BY <1>3, Zenon DEF SetLine, Cat
<1>10. ASSUME NEW m \in Messages, NEW tail \in Seq(Octets), NEW x \in Seq(Octets),
              SaysItsSize(m), Parsing(p, m, Cat(buf, x), tail)
       PROVE  Parsing(p', m, Cat(buf', x), tail) /\ p' \in Parsers
  <2>2. /\ Over(p, Len(buf)) => Refused(Refuse(p, 431), m) /\ Refuse(p, 431) \in Parsers
        /\ /\ Parsing(SetLine(p, Cat(p.line, buf)), m, x, tail)
           /\ SetLine(p, Cat(p.line, buf)) \in Parsers
    BY <1>2, <1>3, <1>8, <1>10, PartTaken
  <2>3. Cat(<<>>, x) = x
    BY CatEmpty
  <2>4. Cat(buf', x) = x
    BY <1>3, <2>3, Zenon
  <2>5. CASE Over(p, Len(buf))
    <3>1. p' = Refuse(p, 431)
      BY <1>9, <2>5, Zenon
    <3>2. Refused(p', m) /\ p' \in Parsers
      BY <2>2, <2>5, <3>1, Zenon
    <3> QED BY <3>2, Zenon DEF Parsing
  <2>6. CASE ~Over(p, Len(buf))
    <3>1. p' = SetLine(p, Cat(p.line, buf))
      BY <1>9, <2>6, Zenon
    <3> QED BY <2>2, <2>4, <3>1, Zenon
  <2> QED BY <2>5, <2>6
<1>11. p.pc \in InLine \cup InData /\ buf' \in Seq(Octets)
  <2>1. <<>> \in Seq(Octets)
    OBVIOUS
  <2> QED BY <1>3, <2>1, Zenon
<1> QED BY <1>3, <1>10, <1>11, ReadStep, Zenon

(* Where the first line of the buffer ends. *)
Ends(take) == take \in 1..Len(buf) /\ buf[take] = "LF" /\ \A i \in 1..(take - 1) : buf[i] # "LF"

(* It holds the end of a line, at take. *)
LEMMA LineEndIs ==
    ASSUME buf \in Seq(Octets), LineEnd
    PROVE  /\ p.pc \in InLine /\ buf # <<>>
           /\ script' = script /\ sent' = sent /\ wire' = wire /\ got' = got
                /\ stopping' = stopping
           /\ \E take \in 1..Len(buf) :
                 /\ Ends(take) /\ buf' = SubSeq(buf, take + 1, Len(buf))
                 /\ p' = IF Over(p, take) THEN Refuse(p, 431)
                         ELSE Line(p, Cat(p.line, SubSeq(buf, 1, take)))
                 /\ out' = out \o Spoken(p')
                      \/ out' = Append(out, Continue) \o Spoken(p')
<1> DEFINE S == {i \in DOMAIN buf : buf[i] = "LF"}
           take == Min(S)
           line == Cat(p.line, SubSeq(buf, 1, take))
<1>1. DOMAIN buf = 1..Len(buf)
  OBVIOUS
<1>2. p.pc \in InLine /\ Contains(buf, "LF")
      /\ script' = script /\ sent' = sent /\ wire' = wire /\ got' = got /\ stopping' = stopping
  BY Zenon DEF LineEnd
<1>3. PICK at \in 1..Len(buf) : buf[at] = "LF"
  BY <1>2 DEF Contains
<1>4. S \in SUBSET Nat /\ S # {}
  BY <1>1, <1>3
<1>5. take \in S /\ \A y \in S : take <= y
  <2> HIDE DEF S
  <2> QED BY <1>4, LeastOf
<1>6. take \in 1..Len(buf) /\ buf[take] = "LF"
  BY <1>1, <1>5
<1>7. \A i \in 1..(take - 1) : buf[i] # "LF"
  <2> SUFFICES ASSUME NEW j \in 1..(take - 1), buf[j] = "LF" PROVE FALSE
    OBVIOUS
  <2>1. PICK t \in 1..Len(buf) : t = take
    BY <1>6
  <2>2. j \in 1..Len(buf) /\ ~(t <= j)
    BY <2>1
  <2>3. j \in S
    BY <1>1, <2>2
  <2> QED BY <1>5, <2>1, <2>2, <2>3, Zenon
<1>8. buf' = SubSeq(buf, take + 1, Len(buf))
  BY Zenon DEF LineEnd
<1>9. IF Over(p, take) THEN Outcome(Refuse(p, 431))
      ELSE IF TrimEol(line) = <<>> /\ p.pc = "headers" /\ Has(p.req.fields, "expect")
        THEN p' = Line(p, line) /\ out' = Append(out, Continue) \o Spoken(Line(p, line))
      ELSE Outcome(Line(p, line))
  BY Zenon DEF LineEnd, Cat
<1> HIDE DEF take
<1>10. buf # <<>>
  BY <1>6
<1>11. Ends(take)
  BY <1>6, <1>7, Zenon DEF Ends
<1>12. /\ p' = IF Over(p, take) THEN Refuse(p, 431) ELSE Line(p, line)
       /\ out' = out \o Spoken(p') \/ out' = Append(out, Continue) \o Spoken(p')
  BY <1>9, Zenon DEF Outcome
<1> QED BY <1>2, <1>6, <1>8, <1>10, <1>11, <1>12, Zenon

(* A line ends. *)
LEMMA InvLineEnd ==
    ASSUME FramingInv, LineEnd
    PROVE  FramingInv'
<1>2. buf \in Seq(Octets) /\ p \in Parsers
  BY DEF FramingInv, FramingType
<1>3. /\ p.pc \in InLine /\ buf # <<>>
      /\ script' = script /\ sent' = sent /\ wire' = wire /\ got' = got /\ stopping' = stopping
  BY <1>2, LineEndIs
<1>4. PICK take \in 1..Len(buf) :
         /\ Ends(take) /\ buf' = SubSeq(buf, take + 1, Len(buf))
         /\ p' = IF Over(p, take) THEN Refuse(p, 431)
                 ELSE Line(p, Cat(p.line, SubSeq(buf, 1, take)))
  BY <1>2, LineEndIs
<1>10. ASSUME NEW m \in Messages, NEW tail \in Seq(Octets), NEW x \in Seq(Octets),
              SaysItsSize(m), Parsing(p, m, Cat(buf, x), tail)
       PROVE  Parsing(p', m, Cat(buf', x), tail) /\ p' \in Parsers
  <2>1. buf[take] = "LF" /\ \A i \in 1..(take - 1) : buf[i] # "LF"
    BY <1>4, Zenon DEF Ends
  <2>2. /\ Over(p, take) => Refused(Refuse(p, 431), m) /\ Refuse(p, 431) \in Parsers
        /\ ~Over(p, take) =>
              /\ Parsing(Line(p, Cat(p.line, SubSeq(buf, 1, take))), m,
                         Cat(SubSeq(buf, take + 1, Len(buf)), x), tail)
              /\ Line(p, Cat(p.line, SubSeq(buf, 1, take))) \in Parsers
    BY <1>2, <1>3, <1>10, <2>1, EndTaken
  <2> QED BY <1>4, <2>2, Zenon DEF Parsing
<1>11. buf' \in Seq(Octets)
  <2>1. take \in 0..Len(buf)
    OBVIOUS
  <2> QED BY <1>2, <1>4, <2>1, Split
<1>12. p.pc \in InLine \cup InData
  BY <1>3
<1> QED BY <1>3, <1>10, <1>11, <1>12, ReadStep, Zenon

(* Data are read. *)
LEMMA InvData ==
    ASSUME FramingInv, Data
    PROVE  FramingInv'
<1> DEFINE n == Least(p.need, Len(buf))
           first == SubSeq(buf, 1, n)
<1>2. buf \in Seq(Octets) /\ p \in Parsers
  BY DEF FramingInv, FramingType
<1>3. /\ p.pc \in {"body", "chunk"} /\ buf # <<>> /\ buf' = SubSeq(buf, n + 1, Len(buf))
      /\ script' = script /\ sent' = sent /\ wire' = wire /\ got' = got /\ stopping' = stopping
  BY Zenon DEF Data
<1>4. p' = [p EXCEPT !.req.body = @ \o SubSeq(buf, 1, n),
                     !.pc = IF p.need = n THEN IF p.pc = "body" THEN "handler"
                           ELSE "crlf" ELSE @,
                     !.need = IF p.need = n /\ p.pc = "chunk" THEN 2 ELSE @ - n]
  BY Zenon DEF Data
<1>5. n \in 0..Len(buf)
  <2>1. p.need \in Nat /\ Len(buf) \in Nat
    BY <1>2 DEF Parsers
  <2> QED BY <2>1, LeastIs
<1>6. first \in Seq(Octets) /\ SubSeq(buf, n + 1, Len(buf)) \in Seq(Octets) /\ Len(first) = n
  BY <1>2, <1>5, Split
<1>7. p' = Taken(p, first)
  <2> HIDE DEF n, first
  <2>1. p' = [p EXCEPT !.req.body = @ \o first,
                       !.pc = IF p.need = n THEN IF p.pc = "body" THEN "handler"
                             ELSE "crlf" ELSE @,
                       !.need = IF p.need = n /\ p.pc = "chunk" THEN 2 ELSE @ - n]
    BY <1>4, Zenon DEF first
  <2>2. [p EXCEPT !.req.body = @ \o first,
                  !.pc = IF p.need = n THEN IF p.pc = "body" THEN "handler" ELSE "crlf" ELSE @,
                  !.need = IF p.need = n /\ p.pc = "chunk" THEN 2 ELSE @ - n]
          = [p EXCEPT !.req.body = p.req.body \o first,
                      !.pc = IF p.need = n THEN IF p.pc = "body" THEN "handler"
                            ELSE "crlf" ELSE p.pc,
                      !.need = IF p.need = n /\ p.pc = "chunk" THEN 2 ELSE p.need - n]
    OBVIOUS
  <2> QED BY <1>6, <2>1, <2>2, Zenon DEF Taken, Cat
<1>10. ASSUME NEW m \in Messages, NEW tail \in Seq(Octets), NEW x \in Seq(Octets),
              SaysItsSize(m), Parsing(p, m, Cat(buf, x), tail)
       PROVE  Parsing(p', m, Cat(buf', x), tail) /\ p' \in Parsers
  <2>1. /\ Parsing(Taken(p, first), m, Cat(SubSeq(buf, n + 1, Len(buf)), x), tail)
        /\ Taken(p, first) \in Parsers
    BY <1>2, <1>3, <1>10, DataTaken
  <2> QED BY <1>3, <1>7, <2>1, Zenon
<1>11. buf' \in Seq(Octets)
  BY <1>3, <1>6, Zenon
<1>12. p.pc \in InLine \cup InData
  BY <1>3 DEF InData
<1> QED BY <1>3, <1>10, <1>11, <1>12, ReadStep, Zenon

(* The bytes after a chunk are read. *)
LEMMA InvAfterChunk ==
    ASSUME FramingInv, AfterChunk
    PROVE  FramingInv'
<1> DEFINE n == Least(p.need, Len(buf))
           first == SubSeq(buf, 1, n)
           two == Cat(p.line, first)
<1>2. buf \in Seq(Octets) /\ p \in Parsers
  BY DEF FramingInv, FramingType
<1>3. /\ p.pc = "crlf" /\ buf # <<>> /\ buf' = SubSeq(buf, n + 1, Len(buf))
      /\ script' = script /\ sent' = sent /\ wire' = wire /\ got' = got /\ stopping' = stopping
  BY Zenon DEF AfterChunk
<1>4. p' = IF n < p.need THEN CrlfPart(p, two, n)
           ELSE IF two = CRLF THEN CrlfEnds(p) ELSE Refuse(p, 400)
  BY Zenon DEF AfterChunk, Outcome, CrlfPart, CrlfEnds, Cat
<1>5. n \in 0..Len(buf) /\ n <= p.need
  <2>1. p.need \in Nat /\ Len(buf) \in Nat
    BY <1>2 DEF Parsers
  <2> QED BY <2>1, LeastIs
<1>6. /\ first \in Seq(Octets) /\ SubSeq(buf, n + 1, Len(buf)) \in Seq(Octets) /\ Len(first) = n
      /\ Cat(first, SubSeq(buf, n + 1, Len(buf))) = buf
  BY <1>2, <1>5, Split
<1>10. ASSUME NEW m \in Messages, NEW tail \in Seq(Octets), NEW x \in Seq(Octets),
              SaysItsSize(m), Parsing(p, m, Cat(buf, x), tail)
       PROVE  Parsing(p', m, Cat(buf', x), tail) /\ p' \in Parsers
  <2>1. PICK a \in Seq(Octets), b \in Seq(Octets) :
           a = first /\ b = SubSeq(buf, n + 1, Len(buf)) /\ Len(a) = n /\ Cat(a, b) = buf
    BY <1>6, Zenon
  <2>2. PICK y \in Seq(Octets) : y = Cat(b, x)
    BY CatType
  <2>3. Parsing(p, m, Cat(a, y), tail)
    <3>1. Cat(Cat(a, b), x) = Cat(a, Cat(b, x))
      BY CatAssoc
    <3> QED BY <1>10, <2>1, <2>2, <3>1, Zenon
  <2>4. PICK t : t = Cat(p.line, a)
    OBVIOUS
  <2>5. Len(a) <= p.need
    BY <1>5, <2>1, Zenon
  <2>6. /\ Len(a) < p.need => /\ Parsing(CrlfPart(p, t, Len(a)), m, y, tail)
                              /\ CrlfPart(p, t, Len(a)) \in Parsers
        /\ ~(Len(a) < p.need) /\ t = CRLF => /\ Parsing(CrlfEnds(p), m, y, tail)
                                             /\ CrlfEnds(p) \in Parsers
        /\ ~(Len(a) < p.need) /\ t # CRLF => /\ Refused(Refuse(p, 400), m)
                                             /\ Refuse(p, 400) \in Parsers
    BY <1>2, <1>3, <1>10, <2>3, <2>4, <2>5, CrlfTaken
  <2>7. two = t /\ buf' = b /\ n = Len(a)
    BY <1>3, <2>1, <2>4, Zenon
  <2> HIDE DEF n, two
  <2>8. Cat(buf', x) = y
    BY <2>2, <2>7, Zenon
  <2>9. CASE Len(a) < p.need
    <3>1. p' = CrlfPart(p, t, Len(a))
      BY <1>4, <2>7, <2>9, Zenon
    <3> QED BY <2>6, <2>8, <2>9, <3>1, Zenon
  <2>10. CASE ~(Len(a) < p.need) /\ t = CRLF
    <3>1. p' = CrlfEnds(p)
      BY <1>4, <2>7, <2>10, Zenon
    <3> QED BY <2>6, <2>8, <2>10, <3>1, Zenon
  <2>11. CASE ~(Len(a) < p.need) /\ t # CRLF
    <3>1. p' = Refuse(p, 400)
      BY <1>4, <2>7, <2>11, Zenon
    <3>2. Refused(p', m) /\ p' \in Parsers
      BY <2>6, <2>11, <3>1, Zenon
    <3> QED BY <3>2, Zenon DEF Parsing
  <2> QED BY <2>9, <2>10, <2>11
<1>11. buf' \in Seq(Octets)
  BY <1>3, <1>6, Zenon
<1>12. p.pc \in InLine \cup InData
  BY <1>3 DEF InData
<1> QED BY <1>3, <1>10, <1>11, <1>12, ReadStep, Zenon

(* The server is told to stop. *)
LEMMA InvStop ==
    ASSUME FramingInv, Stop
    PROVE  FramingInv'
<1>1. PICK k \in 0..Len(script) : At(script, sent, p, Rest, got, stopping, k)
  BY DEF FramingInv
<1>2. /\ p.pc # "closed" /\ stopping' = TRUE /\ script' = script /\ sent' = sent /\ wire' = wire
      /\ buf' = buf /\ p' = p /\ got' = got
  BY DEF Stop
<1>3. Rest' = Rest
  BY <1>2, Zenon DEF Rest
<1>4. At(script, sent, p, Rest, got, TRUE, k)
  BY <1>1, <1>2, Zenon DEF At, EndedAt
<1>5. At(script, sent, p, Rest, got, stopping, k)'
  BY <1>2, <1>3, <1>4, Zenon
<1>6. FramingType'
  BY <1>2, Zenon DEF FramingInv, FramingType
<1> QED BY <1>2, <1>5, <1>6, Zenon DEF FramingInv

(* The client hangs up, or is silent: in a message, or between two. *)
LEMMA InvNoMoreBytes ==
    ASSUME FramingInv, NEW timeout \in BOOLEAN, NoMoreBytes(timeout)
    PROVE  FramingInv'
<1>1. PICK k \in 0..Len(script) : At(script, sent, p, Rest, got, stopping, k)
  BY DEF FramingInv
<1>2. /\ script \in Scripts /\ sent \in 0..Len(FlattenSeq(BytesOfAll(script)))
      /\ wire \in Seq(Octets) /\ buf \in Seq(Octets) /\ p \in Parsers
      /\ got \in Seq(Requests) /\ stopping \in BOOLEAN
  BY DEF FramingInv, FramingType
<1>3. /\ p.pc \in InLine \cup InData /\ buf = <<>> /\ wire = <<>>
      /\ script' = script /\ sent' = sent /\ wire' = wire /\ buf' = buf /\ got' = got
      /\ stopping' = stopping
      /\ p' = Refuse(p, IF timeout /\ p.pc # "line" THEN 408 ELSE 0)
  BY Zenon DEF NoMoreBytes, Outcome
<1>4. PICK st \in Nat : st \in {0, 408} /\ p' = Refuse(p, st)
  <2>1. 0 \in Nat /\ 408 \in Nat
    OBVIOUS
  <2> QED BY <1>3, <2>1, Zenon
<1>5. p' \in Parsers /\ p'.pc = "closed" /\ p'.status \in {0, 408}
  <2>1. Refuse(p, st) \in Parsers /\ Refuse(p, st).pc = "closed" /\ Refuse(p, st).status = st
    BY <1>2, RefuseIs
  <2> QED BY <1>4, <2>1, Zenon
<1>6. PICK rest \in Seq(Octets) :
         rest = Rest /\ Len(FlattenSeq(BytesOfAll(script))) = sent + Len(rest)
  <2>1. RestOf(script, sent, buf, wire) \in Seq(Octets)
    BY <1>2, RestIs
  <2>2. Len(FlattenSeq(BytesOfAll(script))) = sent + Len(RestOf(script, sent, buf, wire))
    BY <1>2, <1>3, RestIs
  <2> QED BY <2>1, <2>2, Zenon DEF Rest
<1>7. sent \in Nat
  BY <1>2, UnsentIs
<1>8. HungUpAt(script, sent, p', k)
  <2>1. MessageAt(script, p, rest, k) \/ WaitingAt(script, p, rest, k)
    <3>1. p.pc # "closed"
      BY <1>3 DEF InLine, InData
    <3> QED BY <1>1, <1>6, <3>1, Zenon DEF At, HungUpAt, EndedAt
  <2>2. CASE MessageAt(script, p, rest, k)
    <3>1. Len(UpTo(BytesOfAll(script), k + 1)) > sent
      BY <1>2, <1>3, <1>6, <1>7, <2>2, HangsUpInside
    <3>2. KeptIn(script, k)
      BY <2>2, Zenon DEF MessageAt
    <3> QED BY <1>5, <3>1, <3>2, Zenon DEF HungUpAt
  <2>3. CASE WaitingAt(script, p, rest, k)
    <3>1. KeptIn(script, k) /\ k = Len(script)
      BY <2>3, Zenon DEF WaitingAt
    <3>2. ~(k < Len(script))
      BY <3>1
    <3> QED BY <1>5, <3>1, <3>2, Zenon DEF HungUpAt
  <2> QED BY <2>1, <2>2, <2>3, Zenon
<1>9. At(script, sent, p', Rest', got, stopping, k)
  BY <1>1, <1>8, Zenon DEF At
<1>10. FramingType'
  BY <1>2, <1>3, <1>5, Zenon DEF FramingType
<1>11. At(script, sent, p, Rest, got, stopping, k)'
  BY <1>3, <1>9, Zenon
<1>12. k \in 0..Len(script')
  BY <1>3, Zenon
<1> QED BY <1>10, <1>11, <1>12, Zenon DEF FramingInv

(* A request is served: another begins, or the connection ends. *)
LEMMA InvServe ==
    ASSUME FramingInv, NEW res, Serve(res)
    PROVE  FramingInv'
<1>1. PICK k \in 0..Len(script) : At(script, sent, p, Rest, got, stopping, k)
  BY DEF FramingInv
<1>2. /\ script \in Scripts /\ sent \in 0..Len(FlattenSeq(BytesOfAll(script)))
      /\ wire \in Seq(Octets) /\ buf \in Seq(Octets) /\ p \in Parsers
      /\ got \in Seq(Requests) /\ stopping \in BOOLEAN
  BY DEF FramingInv, FramingType
<1>3. /\ p.pc = "handler" /\ got' = Append(got, p.req)
      /\ script' = script /\ sent' = sent /\ wire' = wire /\ buf' = buf /\ stopping' = stopping
      /\ p' = IF KeepAlive(p.req) /\ ~stopping THEN Fresh ELSE Refuse(p, 0)
  BY Zenon DEF Serve
<1>4. PICK rest \in Seq(Octets) :
         rest = Rest /\ Len(FlattenSeq(BytesOfAll(script))) <= sent + Len(rest)
  <2>1. RestOf(script, sent, buf, wire) \in Seq(Octets)
    BY <1>2, RestIs
  <2>2. Len(FlattenSeq(BytesOfAll(script))) <= sent + Len(RestOf(script, sent, buf, wire))
    BY <1>2, RestIs
  <2> QED BY <2>1, <2>2, Zenon DEF Rest
<1>5. sent \in Nat
  BY <1>2, UnsentIs
<1>6. MessageAt(script, p, rest, k) /\ GotAre(script, sent, got, k)
  <2>1. p.pc # "closed" /\ p # Fresh
    BY <1>3, FreshIs
  <2> QED BY <1>1, <1>4, <2>1, Zenon DEF At, WaitingAt, HungUpAt, EndedAt
<1>7. /\ k + 1 \in 0..Len(script) /\ GotAre(script, sent, Append(got, p.req), k + 1)
      /\ p.req = Meaning(script[k + 1]) /\ KeptIn(script, k)
      /\ rest = From(BytesOfAll(script), k + 1)
  BY <1>2, <1>3, <1>4, <1>5, <1>6, ServesNext
<1>8. Rest' = rest
  BY <1>3, <1>4, Zenon DEF Rest
<1>9. k \in Nat /\ k + 1 > 0
  OBVIOUS
<1>10. At(script, sent, p', rest, got', stopping, k + 1) /\ p' \in Parsers
  <2>1. CASE KeepAlive(p.req) /\ ~stopping
    <3>1. p' = Fresh
      BY <1>3, <2>1, Zenon
    <3>2. KeptIn(script, k + 1)
      <4>1. \A i \in 1..(k + 1) : i \in 1..k \/ i = k + 1
        BY <1>9
      <4> QED BY <1>7, <2>1, <4>1, Zenon DEF KeptIn
    <3>3. MessageAt(script, Fresh, rest, k + 1) \/ WaitingAt(script, Fresh, rest, k + 1)
      BY <1>2, <1>7, <3>2, NextMessage
    <3> QED BY <1>3, <1>7, <3>1, <3>3, FreshIs, Zenon DEF At
  <2>2. CASE ~(KeepAlive(p.req) /\ ~stopping)
    <3>1. p' = Refuse(p, 0)
      BY <1>3, <2>2, Zenon
    <3>2. Refuse(p, 0) \in Parsers /\ Refuse(p, 0).pc = "closed" /\ Refuse(p, 0).status = 0
      <4>1. 0 \in Nat
        OBVIOUS
      <4> QED BY <1>2, <4>1, RefuseIs
    <3>3. stopping = TRUE \/ ~KeepAlive(Meaning(script[k + 1]))
      BY <1>2, <1>7, <2>2, Zenon
    <3>4. EndedAt(script, p', k + 1, stopping)
      BY <1>9, <3>1, <3>2, <3>3, Zenon DEF EndedAt
    <3> QED BY <1>3, <1>7, <3>1, <3>2, <3>4, Zenon DEF At
  <2> QED BY <2>1, <2>2, Zenon
<1>11. got' \in Seq(Requests)
  <2>1. PICK r \in Requests : r = p.req
    BY <1>2 DEF Parsers
  <2>2. Append(got, r) \in Seq(Requests)
    BY <1>2
  <2> QED BY <1>3, <2>1, <2>2, Zenon
<1>12. FramingType'
  BY <1>2, <1>3, <1>10, <1>11, Zenon DEF FramingType
<1>13. k + 1 \in 0..Len(script') /\ At(script', sent', p', Rest', got', stopping', k + 1)
  BY <1>3, <1>7, <1>8, <1>10, Zenon
<1> QED BY <1>12, <1>13, Zenon DEF FramingInv

(* At the beginning the rest is the whole script. *)
LEMMA InvFramingInit ==
    ASSUME FramingInit
    PROVE  FramingInv
<1> DEFINE all == FlattenSeq(BytesOfAll(script))
<1>1. /\ script \in Scripts /\ sent \in 0..Len(all) /\ wire = SubSeq(all, 1, sent)
      /\ buf = <<>> /\ p = Fresh /\ got = <<>> /\ stopping = FALSE
  BY Zenon DEF FramingInit
<1>2. PICK u \in Seq(Octets), w \in Seq(Octets) :
        /\ u = SubSeq(all, sent + 1, Len(all)) /\ w = SubSeq(all, 1, sent) /\ Cat(w, u) = all
  BY <1>1, UnsentIs, Zenon
<1>3. buf \in Seq(Octets) /\ got \in Seq(Requests) /\ stopping \in BOOLEAN
  <2>1. <<>> \in Seq(Octets) /\ <<>> \in Seq(Requests) /\ FALSE \in BOOLEAN
    OBVIOUS
  <2> QED BY <1>1, <2>1, Zenon
<1>4. FramingType
  BY <1>1, <1>2, <1>3, FreshIs, Zenon DEF FramingType
<1>5. 0 \in 0..Len(script) /\ BytesOfAll(script) \in Seq(Seq(Octets))
  BY <1>1, ScriptIs, BytesOfAllAre
<1>6. Rest = From(BytesOfAll(script), 0)
  <2>1. all \in Seq(Octets)
    BY <1>1, <1>5, BytesSplit, Zenon
  <2>2. Cat(<<>>, all) = all
    BY <2>1, CatEmpty
  <2>3. Rest = Cat(<<>>, Cat(w, u))
    BY <1>1, <1>2, Zenon DEF Rest, RestOf
  <2>4. From(BytesOfAll(script), 0) = all
    BY <1>5, FromEnds
  <2> QED BY <1>2, <2>2, <2>3, <2>4, Zenon
<1>7. KeptIn(script, 0) /\ KeptIn(script, 0 - 1)
  BY DEF KeptIn
<1>8. MessageAt(script, Fresh, Rest, 0) \/ WaitingAt(script, Fresh, Rest, 0)
  <2>1. PICK k \in 0..Len(script) : k = 0
    BY <1>5
  <2>2. KeptIn(script, k) /\ Rest = From(BytesOfAll(script), k)
    BY <1>6, <1>7, <2>1, Zenon
  <2>3. MessageAt(script, Fresh, Rest, k) \/ WaitingAt(script, Fresh, Rest, k)
    BY <1>1, <2>2, NextMessage
  <2> QED BY <2>1, <2>3, Zenon
<1>9. GotAre(script, sent, got, 0)
  <2>1. Len(UpTo(BytesOfAll(script), 0)) <= sent
    <3>1. UpTo(BytesOfAll(script), 0) = <<>>
      BY <1>5, UpToEnds
    <3>2. sent \in Nat
      BY <1>1, UnsentIs
    <3> QED BY <3>1, <3>2
  <2>2. Len(got) = 0 /\ \A i \in 1..0 : FALSE
    BY <1>1
  <2> QED BY <1>5, <1>7, <2>1, <2>2, Zenon DEF GotAre
<1>10. At(script, sent, p, Rest, got, stopping, 0)
  BY <1>1, <1>8, <1>9, Zenon DEF At
<1> QED BY <1>4, <1>5, <1>10, Zenon DEF FramingInv

(* http.rs:840 - wherever the bytes are cut, and wherever the client stops, *)
(* the parser is in the message after the last that it served: what it keeps *)
(* and what is to come are the bytes of that message from there on.         *)
THEOREM FramingIsInvariant == FramingSpec => []FramingInv
<1>1. FramingInit => FramingInv
  BY InvFramingInit
<1>2. FramingInv /\ [FramingNext]_framingVars => FramingInv'
  <2> SUFFICES ASSUME FramingInv, [FramingNext]_framingVars PROVE FramingInv'
    OBVIOUS
  <2>1. CASE Fill
    BY <2>1, InvFill
  <2>2. CASE LinePart
    BY <2>2, InvLinePart
  <2>3. CASE LineEnd
    BY <2>3, InvLineEnd
  <2>4. CASE Data
    BY <2>4, InvData
  <2>5. CASE AfterChunk
    BY <2>5, InvAfterChunk
  <2>6. CASE Stop
    BY <2>6, InvStop
  <2>7. ASSUME NEW timeout \in BOOLEAN, NoMoreBytes(timeout) PROVE FramingInv'
    BY <2>7, InvNoMoreBytes
  <2>8. ASSUME NEW res \in Responses \cup {Panic}, Serve(res) PROVE FramingInv'
    BY <2>8, InvServe
  <2>9. CASE UNCHANGED framingVars
    <3>1. script' = script /\ sent' = sent /\ wire' = wire /\ buf' = buf /\ p' = p /\ got' = got
          /\ stopping' = stopping
      BY <2>9 DEF framingVars
    <3>2. Rest' = Rest
      BY <3>1, Zenon DEF Rest
    <3>3. FramingType'
      BY <3>1, Zenon DEF FramingInv, FramingType
    <3> QED BY <3>1, <3>2, <3>3, Zenon DEF FramingInv
  <2> QED BY <2>1, <2>2, <2>3, <2>4, <2>5, <2>6, <2>7, <2>8, <2>9, Zenon DEF FramingNext
<1> QED BY <1>1, <1>2, PTL DEF FramingSpec

------------------------------------------------------------------------------
(* What the handler was given. *)

(* What a message means is a request. *)
LEMMA MeaningType ==
    ASSUME NEW m \in Messages
    PROVE  Meaning(m) \in Requests
<1>1. m.line[1] \in Symbols /\ m.fields \in Seq(Symbols) /\ m.chunks \in Seq(Seq(Octets))
  BY MessageType
<1>2. FlattenSeq(m.chunks) \in Seq(Octets)
  BY <1>1, FlatType
<1> QED BY <1>1, <1>2 DEF Meaning, Requests

(* To be a prefix, element by element. *)
LEMMA PrefixOf ==
    ASSUME NEW T, NEW k \in Nat, NEW n \in Nat, k <= n, NEW e \in Seq(T), Len(e) = n,
           NEW g \in Seq(T), Len(g) = k, \A i \in 1..k : g[i] = e[i]
    PROVE  IsPrefix(g, e) /\ (n = k => g = e)
<1>1. e \in Seq(T) /\ Len(e) = n
  OBVIOUS
<1>2. \A i \in 1..k : i \in 1..n /\ e[i] = g[i]
  BY <1>1
<1>3. SubSeq(g, 1, k) = g
  OBVIOUS
<1>4. SubSeq(e, 1, k) = g
  <2>1. SubSeq(e, 1, k) \in Seq(T) /\ Len(SubSeq(e, 1, k)) = k
        /\ \A i \in 1..k : SubSeq(e, 1, k)[i] = e[i]
    BY <1>1
  <2>2. \A i \in 1..k : SubSeq(e, 1, k)[i] = g[i]
    BY <1>2, <2>1
  <2> QED BY <2>1, <2>2
<1>5. IsPrefix(g, e)
  BY <1>1, <1>3, <1>4 DEF IsPrefix
<1>6. n = k => g = e
  <2> SUFFICES ASSUME n \in {k} PROVE g = e
    OBVIOUS
  <2>1. SubSeq(e, 1, k) = e
    BY <1>1
  <2> QED BY <1>4, <2>1
<1> QED BY <1>5, <1>6

(* How far the server is to come, by the reference. *)
LEMMA ExpectedIs ==
    ASSUME FramingInv
    PROVE  \E n \in 0..Len(script) :
              /\ Served(n) /\ \A i \in 0..Len(script) : Served(i) => i <= n
              /\ Expected = [i \in 1..n |-> Meaning(script[i])]
<1> DEFINE S == {n \in 0..Len(script) : Served(n)}
<1>1. PICK k \in 0..Len(script) : GotAre(script, sent, got, k)
  BY DEF FramingInv, At
<1>2. Len(script) \in Nat /\ k \in Nat
  BY ScriptIs DEF FramingInv, FramingType
<1>3. k \in S
  <2>1. BytesUpTo(k) <= sent
    BY <1>1, Zenon DEF GotAre, BytesUpTo, UpTo
  <2> QED BY <1>1, <2>1, Zenon DEF GotAre, KeptIn, Served
<1>4. Max(S) \in S /\ \A y \in S : y <= Max(S)
  <2>1. S \in SUBSET (0..Len(script)) /\ S # {}
    BY <1>3
  <2> HIDE DEF S
  <2> QED BY <1>2, <2>1, GreatestOf
<1>5. Expected = [i \in 1..Max(S) |-> Meaning(script[i])]
  BY Zenon DEF Expected
<1> QED BY <1>4, <1>5, Zenon

(* A parser that is closed in a message refused it. *)
LEMMA ClosedInMessage ==
    ASSUME NEW s, NEW q, NEW rest, NEW k, MessageAt(s, q, rest, k), q.pc = "closed"
    PROVE  Refused(q, s[k + 1])
<1> DEFINE m == s[k + 1]
           tail == From(BytesOfAll(s), k + 1)
<1>1. Parsing(q, m, rest, tail)
  BY Zenon DEF MessageAt
<1> HIDE DEF m, tail
<1>2. q.pc \notin {"line", "headers", "size", "trailer", "body", "chunk", "crlf", "handler"}
  OBVIOUS
<1>3. ~InHead(q, m, rest, tail)
  <2>1. \A i : AtHead(q, m, i) => q.pc \in {"line", "headers"}
    BY DEF AtHead
  <2>2. q.pc \notin {"line", "headers"}
    BY <1>2
  <2> QED BY <2>1, <2>2, Zenon DEF InHead
<1>4. ~InSize(q, m, rest, tail) /\ ~InTrailer(q, m, rest, tail) /\ ~InChunk(q, m, rest, tail)
      /\ ~InCrlf(q, m, rest, tail)
  BY <1>2 DEF InSize, InTrailer, InChunk, InCrlf, AtSize, AtTrailer, AtChunk, AtCrlf
<1>5. ~Ready(q, m, rest, tail) /\ ~InBody(q, m, rest, tail)
  BY <1>2 DEF Ready, InBody
<1> QED BY <1>1, <1>3, <1>4, <1>5, Zenon DEF Parsing, m

(* What is not served is refused, not sent, or follows an end. *)
LEMMA NothingIsMissed ==
    ASSUME FramingInv, p.pc = "closed", ~stopping, NEW k \in 0..Len(script),
           At(script, sent, p, Rest, got, stopping, k)
    PROVE  /\ \A n \in 0..Len(script) : Served(n) => n <= k
           /\ \/ k + 1 \notin 1..Len(script) \/ BytesUpTo(k + 1) > sent
              \/ ~KeptIn(script, k) \/ p.status = Verdict(script[k + 1])
<1>0. script \in Scripts /\ sent \in Nat /\ Len(script) \in Nat /\ k \in Nat
  <2>1. script \in Scripts /\ sent \in 0..Len(FlattenSeq(BytesOfAll(script)))
    BY DEF FramingInv, FramingType
  <2> QED BY <2>1, UnsentIs, ScriptIs
<1>1. \A n \in 0..Len(script) : n > k => k + 1 \in 1..n /\ (k > 0 => k \in 1..(n - 1))
  BY <1>0
<1>2. \A n \in 0..Len(script) : n > k \/ n <= k
  BY <1>0
<1>3. CASE MessageAt(script, p, Rest, k)
  <2>2. Refused(p, script[k + 1])
    BY <1>3, ClosedInMessage
  <2>3. Verdict(script[k + 1]) # 0 /\ p.status = Verdict(script[k + 1])
    BY <2>2, Zenon DEF Refused
  <2>4. \A n \in 0..Len(script) : Served(n) => n <= k
    BY <1>1, <1>2, <2>3, Zenon DEF Served
  <2> QED BY <2>3, <2>4, Zenon
<1>4. CASE HungUpAt(script, sent, p, k)
  <2>1. k < Len(script) => Len(UpTo(BytesOfAll(script), k + 1)) > sent
    BY <1>4, Zenon DEF HungUpAt
  <2>2. k + 1 \in 1..Len(script) => BytesUpTo(k + 1) > sent
    <3>1. k + 1 \in 1..Len(script) => k < Len(script)
      BY <1>0
    <3> QED BY <2>1, <3>1, Zenon DEF BytesUpTo, UpTo
  <2>3. ASSUME NEW n \in 0..Len(script), n > k PROVE ~Served(n)
    <3>1. k + 1 \in 0..Len(script) /\ n \in (k + 1)..Len(script) /\ k < Len(script)
      BY <1>0, <2>3
    <3>2. BytesOfAll(script) \in Seq(Seq(Octets)) /\ Len(BytesOfAll(script)) = Len(script)
      BY <1>0, BytesOfAllAre
    <3>3. k + 1 \in 0..Len(BytesOfAll(script)) /\ n \in (k + 1)..Len(BytesOfAll(script))
      BY <3>1, <3>2, Zenon
    <3>4. \A j \in (k + 1)..Len(BytesOfAll(script)) :
             Len(UpTo(BytesOfAll(script), k + 1)) <= Len(UpTo(BytesOfAll(script), j))
      BY <3>2, <3>3, UpToMonotone
    <3>5. PICK a \in Nat, b \in Nat : a = Len(UpTo(BytesOfAll(script), k + 1))
                                      /\ b = Len(UpTo(BytesOfAll(script), n))
      <4>1. /\ Len(UpTo(BytesOfAll(script), k + 1)) \in Nat
            /\ Len(UpTo(BytesOfAll(script), n)) \in Nat
        BY <1>0, <3>1, BytesSplit, Zenon
      <4> QED BY <4>1, Zenon
    <3>6. a <= b /\ a > sent
      BY <2>1, <3>1, <3>3, <3>4, <3>5, Zenon
    <3>7. ~(b <= sent)
      BY <1>0, <3>6
    <3> QED BY <3>5, <3>7, Zenon DEF Served, BytesUpTo, UpTo
  <2> QED BY <1>2, <2>2, <2>3, Zenon
<1>5. CASE EndedAt(script, p, k, stopping)
  <2>1. k > 0 /\ ~KeepAlive(Meaning(script[k]))
    BY <1>5, Zenon DEF EndedAt
  <2>2. k \in 1..k
    BY <1>0, <2>1
  <2>3. ~KeptIn(script, k)
    BY <2>1, <2>2, Zenon DEF KeptIn
  <2>4. \A n \in 0..Len(script) : Served(n) => n <= k
    BY <1>1, <1>2, <2>1, Zenon DEF Served
  <2> QED BY <2>3, <2>4, Zenon
<1>6. ~WaitingAt(script, p, Rest, k)
  <2>1. p # Fresh
    BY FreshIs
  <2> QED BY <2>1, Zenon DEF WaitingAt
<1> QED BY <1>3, <1>4, <1>5, <1>6, Zenon DEF At

(* The invariant says what RequestsAreAsSent says. *)
LEMMA SentAsReceived ==
    ASSUME FramingInv
    PROVE  RequestsAreAsSent
<1>1. PICK k \in 0..Len(script) : At(script, sent, p, Rest, got, stopping, k)
  BY DEF FramingInv
<1>2. script \in Scripts /\ got \in Seq(Requests) /\ stopping \in BOOLEAN
  BY DEF FramingInv, FramingType
<1>3. GotAre(script, sent, got, k)
  BY <1>1, Zenon DEF At
<1>4. PICK n \in 0..Len(script) :
         /\ Served(n) /\ \A i \in 0..Len(script) : Served(i) => i <= n
         /\ Expected = [i \in 1..n |-> Meaning(script[i])]
  BY ExpectedIs
<1>5. n \in Nat /\ k \in Nat /\ Len(script) \in Nat
  BY <1>2, ScriptIs
<1>6. k <= n
  <2>1. BytesUpTo(k) <= sent
    BY <1>3, Zenon DEF GotAre, BytesUpTo, UpTo
  <2>2. Served(k)
    BY <1>3, <2>1, Zenon DEF GotAre, KeptIn, Served
  <2> QED BY <1>4, <2>2, Zenon
<1>7. Len(got) = k /\ \A i \in 1..k : got[i] = Meaning(script[i])
  BY <1>3, Zenon DEF GotAre
<1>8. \A i \in 1..n : Meaning(script[i]) \in Requests
  <2> TAKE i \in 1..n
  <2>1. i \in 1..Len(script)
    BY <1>5
  <2>2. PICK m \in Messages : m = script[i]
    BY <1>2, <2>1, ScriptIs, Zenon
  <2> QED BY <2>2, MeaningType
<1>9. IsPrefix(got, Expected) /\ (n = k => got = Expected)
  <2> DEFINE F(i) == Meaning(script[i])
  <2>1. (\A i \in 1..n : F(i) \in Requests) /\ (\A i \in 1..k : got[i] = F(i))
    BY <1>7, <1>8
  <2>2. Expected = [i \in 1..n |-> F(i)]
    BY <1>4
  <2> HIDE DEF F
  <2>3. /\ [i \in 1..n |-> F(i)] \in Seq(Requests) /\ Len([i \in 1..n |-> F(i)]) = n
        /\ \A i \in 1..n : [j \in 1..n |-> F(j)][i] = F(i)
    BY <1>5, <2>1
  <2>4. PICK e \in Seq(Requests) : e = Expected /\ Len(e) = n /\ \A i \in 1..n : e[i] = F(i)
    BY <2>2, <2>3, Zenon
  <2>5. \A i \in 1..k : i \in 1..n
    BY <1>5, <1>6
  <2>6. \A i \in 1..k : got[i] = e[i]
    BY <2>1, <2>4, <2>5, Zenon
  <2>7. IsPrefix(got, e) /\ (n = k => got = e)
    BY <1>2, <1>5, <1>6, <1>7, <2>4, <2>6, PrefixOf
  <2> QED BY <2>4, <2>7, Zenon
<1>10. ASSUME p.pc = "closed", ~stopping
       PROVE  /\ got = Expected
              /\ LET m == Len(got) + 1
                     refused == /\ m <= Len(script) /\ BytesUpTo(m) <= sent
                                /\ \A i \in 1..(m - 1) : KeepAlive(Meaning(script[i]))
                 IN refused => p.status = Verdict(script[m])
  <2>1. /\ \A i \in 0..Len(script) : Served(i) => i <= k
        /\ \/ k + 1 \notin 1..Len(script) \/ BytesUpTo(k + 1) > sent
           \/ ~KeptIn(script, k) \/ p.status = Verdict(script[k + 1])
    BY <1>1, <1>10, NothingIsMissed
  <2>2. n = k
    <3>1. n <= k
      BY <1>4, <2>1, Zenon
    <3> QED BY <1>5, <1>6, <3>1
  <2>3. Len(got) + 1 = k + 1 /\ (k + 1) - 1 = k
    BY <1>5, <1>7
  <2>4. k + 1 <= Len(script) => k + 1 \in 1..Len(script)
    BY <1>5
  <2>5. BytesUpTo(k + 1) > sent => ~(k + 1 \in 1..Len(script) /\ BytesUpTo(k + 1) <= sent)
    <3> SUFFICES ASSUME k + 1 \in 1..Len(script), BytesUpTo(k + 1) > sent, BytesUpTo(k + 1) <= sent
                 PROVE  FALSE
      OBVIOUS
    <3>1. k + 1 \in 0..Len(script)
      BY <1>5
    <3>2. BytesUpTo(k + 1) \in Nat
      BY <1>2, <3>1, BytesSplit, Zenon DEF BytesUpTo, UpTo
    <3>3. sent \in Nat
      BY UnsentIs DEF FramingInv, FramingType
    <3> QED BY <3>2, <3>3
  <2>6. (\A i \in 1..k : KeepAlive(Meaning(script[i]))) => KeptIn(script, k)
    BY Zenon DEF KeptIn
  <2> QED BY <1>9, <2>1, <2>2, <2>3, <2>4, <2>5, <2>6, Zenon
<1> QED BY <1>9, <1>10, Zenon DEF RequestsAreAsSent

(* http.rs:840, :1170 - RequestsAreAsSent: the handler is given the requests *)
(* that were sent, in order and whole, and the first that it is not given is *)
(* refused with its own status, for every script, limits and segments.      *)
THEOREM RequestsSent == FramingSpec => []RequestsAreAsSent
<1>1. FramingInv => RequestsAreAsSent
  BY SentAsReceived
<1> QED BY <1>1, FramingIsInvariant, PTL

------------------------------------------------------------------------------
(* What the client reads. *)

(* The states of a client that read n bytes. *)
Reads(bytes, n, f, lines) ==
    /\ f = [i \in 0..n |-> f[i]]
    /\ \A i \in 0..n : f[i] = IF i = 0 THEN NothingRead ELSE ReadByte(f[i - 1], bytes[i], lines)

(* They are what the recursive function of Reading is. *)
LEMMA ReadsEquation ==
    ASSUME NEW bytes, NEW n, NEW f, NEW lines
    PROVE  f = [i \in 0..n |-> IF i = 0 THEN NothingRead
                 ELSE ReadByte(f[i - 1], bytes[i], lines)]
              <=> Reads(bytes, n, f, lines)
<1> DEFINE e(i) == IF i = 0 THEN NothingRead ELSE ReadByte(f[i - 1], bytes[i], lines)
<1> SUFFICES f = [i \in 0..n |-> e(i)] <=> Reads(bytes, n, f, lines)
  BY Zenon
<1>0. Reads(bytes, n, f, lines) <=> f = [i \in 0..n |-> f[i]] /\ \A i \in 0..n : f[i] = e(i)
  BY DEF Reads
<1> HIDE DEF e
<1>1. QED
  BY <1>0

(* A client can read any number of bytes. *)
LEMMA ReadsExist ==
    ASSUME NEW bytes, NEW lines
    PROVE  \A n \in Nat : \E f : Reads(bytes, n, f, lines)
<1> DEFINE S == {n \in Nat : \E f : Reads(bytes, n, f, lines)}
<1>1. 0 \in S
  <2> DEFINE f == [i \in 0..0 |-> NothingRead]
  <2>1. \A i \in 0..0 : f[i] = IF i = 0 THEN NothingRead ELSE ReadByte(f[i - 1], bytes[i], lines)
    OBVIOUS
  <2>2. f = [i \in 0..0 |-> f[i]]
    OBVIOUS
  <2> HIDE DEF f
  <2>3. Reads(bytes, 0, f, lines)
    BY <2>1, <2>2, Zenon DEF Reads
  <2> QED BY <2>3
<1>2. ASSUME NEW n \in Nat, n \in S PROVE n + 1 \in S
  <2>1. PICK f : Reads(bytes, n, f, lines)
    BY <1>2
  <2> DEFINE g == [i \in 0..(n + 1) |-> IF i <= n THEN f[i]
                                       ELSE ReadByte(f[n], bytes[n + 1], lines)]
  <2>2. ASSUME NEW i \in 0..(n + 1)
        PROVE  g[i] = IF i = 0 THEN NothingRead ELSE ReadByte(g[i - 1], bytes[i], lines)
    <3>1. CASE i <= n
      <4>0. i \in 0..n
        BY <3>1
      <4>1. f[i] = IF i = 0 THEN NothingRead ELSE ReadByte(f[i - 1], bytes[i], lines)
        BY <2>1, <4>0, Zenon DEF Reads
      <4>2. g[i] = f[i] /\ (i # 0 => g[i - 1] = f[i - 1])
        BY <3>1
      <4> HIDE DEF g
      <4> QED BY <4>1, <4>2, Zenon
    <3>2. CASE i = n + 1
      <4>1. g[n + 1] = ReadByte(f[n], bytes[n + 1], lines) /\ g[n] = f[n] /\ i # 0 /\ i - 1 = n
        BY <3>2
      <4> HIDE DEF g
      <4> QED BY <3>2, <4>1, Zenon
    <3> QED BY <3>1, <3>2
  <2>3. g = [i \in 0..(n + 1) |-> g[i]]
    OBVIOUS
  <2>4. Reads(bytes, n + 1, g, lines)
    <3> HIDE DEF g
    <3> QED BY <2>2, <2>3, Zenon DEF Reads
  <2> QED BY <2>4
<1>3. Nat \subseteq S
  <2> HIDE DEF S
  <2> QED BY <1>1, <1>2, NatInd
<1> QED BY <1>3

(* What it makes of them is the last of its states. *)
LEMMA ReadingDef ==
    ASSUME NEW bytes, NEW lines, Len(bytes) \in Nat
    PROVE  \E f : Reads(bytes, Len(bytes), f, lines) /\ Reading(bytes, lines) = f[Len(bytes)]
<1> DEFINE n == Len(bytes)
           E(f) == f = [i \in 0..n |-> IF i = 0 THEN NothingRead
                 ELSE ReadByte(f[i - 1], bytes[i], lines)]
           F == CHOOSE f : E(f)
<1>1. \E f : E(f)
  <2>1. PICK f : Reads(bytes, n, f, lines)
    BY ReadsExist
  <2>2. E(f)
    BY <2>1, ReadsEquation, Zenon
  <2> QED BY <2>2
<1>2. E(F)
  <2> HIDE DEF E
  <2> QED BY <1>1
<1>3. Reads(bytes, n, F, lines)
  <2> HIDE DEF F
  <2> QED BY <1>2, ReadsEquation
<1>4. Reading(bytes, lines) = F[n]
  BY Zenon DEF Reading
<1> QED BY <1>3, <1>4

(* What was read depends on the bytes read alone. *)
LEMMA ReadsAgree ==
    ASSUME NEW a, NEW b, NEW f, NEW g, NEW lines, NEW n \in Nat, NEW l \in Nat, l <= n,
           Reads(a, l, f, lines), Reads(b, n, g, lines), \A i \in 1..l : a[i] = b[i]
    PROVE  \A i \in 0..l : f[i] = g[i]
<1> DEFINE S == {i \in Nat : i \in 0..l => f[i] = g[i]}
<1>0. 0 \in 0..l /\ 0 \in 0..n
  OBVIOUS
<1>1. 0 \in S
  <2>1. f[0] = NothingRead /\ g[0] = NothingRead
    BY <1>0, Zenon DEF Reads
  <2> QED BY <2>1
<1>2. ASSUME NEW i \in Nat, i \in S PROVE i + 1 \in S
  <2> SUFFICES ASSUME i + 1 \in 0..l PROVE f[i + 1] = g[i + 1]
    OBVIOUS
  <2>0. i + 1 \in 0..n /\ (i + 1) - 1 = i /\ i + 1 # 0 /\ i \in 0..l /\ i + 1 \in 1..l
    OBVIOUS
  <2>1. f[i + 1] = ReadByte(f[i], a[i + 1], lines)
    BY <2>0, Zenon DEF Reads
  <2>2. g[i + 1] = ReadByte(g[i], b[i + 1], lines)
    BY <2>0, Zenon DEF Reads
  <2>3. f[i] = g[i]
    BY <1>2, <2>0
  <2> QED BY <2>0, <2>1, <2>2, <2>3, Zenon
<1>3. Nat \subseteq S
  <2> HIDE DEF S
  <2> QED BY <1>1, <1>2, NatInd
<1> QED BY <1>3

(* The bytes of answers. *)
Answers == [status : Nat, keep : BOOLEAN, len : Nat]

(* One more byte is read from what was read before. *)
LEMMA ReadingAppend ==
    ASSUME NEW a \in Seq(Answers), NEW x \in Answers, NEW lines
    PROVE  Reading(Append(a, x), lines) = ReadByte(Reading(a, lines), x, lines)
<1>1. PICK n \in Nat : n = Len(a)
  OBVIOUS
<1>2. PICK b \in Seq(Answers) : b = Append(a, x) /\ Len(b) = n + 1 /\ b[n + 1] = x
                                /\ \A i \in 1..n : a[i] = b[i]
  <2>1. /\ Append(a, x) \in Seq(Answers) /\ Len(Append(a, x)) = Len(a) + 1
        /\ Append(a, x)[Len(a) + 1] = x
    OBVIOUS
  <2>2. \A i \in 1..Len(a) : a[i] = Append(a, x)[i]
    OBVIOUS
  <2> QED BY <1>1, <2>1, <2>2, Zenon
<1>3. PICK f : Reads(a, n, f, lines) /\ Reading(a, lines) = f[n]
  BY <1>1, ReadingDef, Zenon
<1>4. n + 1 \in Nat /\ n <= n + 1 /\ n \in 0..n /\ n + 1 \in 0..(n + 1) /\ n + 1 # 0
        /\ (n + 1) - 1 = n
  OBVIOUS
<1>5. PICK g : Reads(b, n + 1, g, lines) /\ Reading(b, lines) = g[n + 1]
  BY <1>2, <1>4, ReadingDef, Zenon
<1>6. f[n] = g[n]
  <2>1. \A i \in 1..n : a[i] = b[i]
    BY <1>2
  <2>2. Reads(a, n, f, lines) /\ Reads(b, n + 1, g, lines)
    BY <1>3, <1>5
  <2>0. PICK m \in Nat : m = n + 1 /\ n <= m
    BY <1>4
  <2>4. Reads(b, m, g, lines)
    BY <2>0, <2>2, Zenon
  <2>3. \A i \in 0..n : f[i] = g[i]
    BY <2>0, <2>1, <2>2, <2>4, ReadsAgree
  <2> QED BY <1>4, <2>3, Zenon
<1>7. g[n + 1] = ReadByte(g[n], b[n + 1], lines)
  BY <1>4, <1>5, Zenon DEF Reads
<1> QED BY <1>2, <1>3, <1>5, <1>6, <1>7, Zenon

(* Of no bytes it makes nothing. *)
LEMMA ReadingNothing ==
    ASSUME NEW lines
    PROVE  Reading(<<>>, lines) = NothingRead
<1>1. PICK e \in Seq(Answers) : e = <<>> /\ Len(e) = 0 /\ 0 \in Nat /\ 0 \in 0..0
  <2>1. <<>> \in Seq(Answers) /\ Len(<<>>) = 0 /\ 0 \in Nat /\ 0 \in 0..0
    OBVIOUS
  <2> QED BY <2>1, Zenon
<1>2. PICK f : Reads(e, 0, f, lines) /\ Reading(e, lines) = f[0]
  BY <1>1, ReadingDef, Zenon
<1>3. f[0] = NothingRead
  BY <1>1, <1>2, Zenon DEF Reads
<1> QED BY <1>1, <1>2, <1>3, Zenon

(* The verdict is 0, or one of the statuses of errors. *)
LEMMA VerdictIs ==
    ASSUME NEW m
    PROVE  Verdict(m) \in {0, 400, 413, 431, 501, 505}
<1>1. \A i : HeadFault(m, i) \in {0, 400, 413, 431, 501, 505}
  BY DEF HeadFault
<1>2. BodyFault(m) \in {0, 400, 413, 431, 501, 505}
  BY DEF BodyFault
<1> DEFINE bad == {i \in DOMAIN HeadTexts(m) : HeadFault(m, i) # 0}
<1>3. Verdict(m) = BodyFault(m) \/ Verdict(m) = HeadFault(m, Min(bad))
  BY Zenon DEF Verdict
<1>4. HeadFault(m, Min(bad)) \in {0, 400, 413, 431, 501, 505}
  <2>1. PICK i : i = Min(bad)
    OBVIOUS
  <2> HIDE DEF bad
  <2>2. HeadFault(m, i) \in {0, 400, 413, 431, 501, 505}
    BY <1>1
  <2> QED BY <2>1, <2>2
<1> HIDE DEF bad
<1> QED BY <1>2, <1>3, <1>4

(* A closed connection was refused with one, or with none. *)
LEMMA ClosedStatus ==
    ASSUME FramingInv, p.pc = "closed"
    PROVE  p.status \in {0, 400, 408, 413, 431, 501, 505}
<1>1. PICK k \in 0..Len(script) : At(script, sent, p, Rest, got, stopping, k)
  BY DEF FramingInv
<1>2. CASE MessageAt(script, p, Rest, k)
  <2>1. p.status = Verdict(script[k + 1])
    BY <1>2, ClosedInMessage, Zenon DEF Refused
  <2>2. Verdict(script[k + 1]) \in {0, 400, 413, 431, 501, 505}
    BY VerdictIs
  <2> QED BY <2>1, <2>2
<1>3. ~WaitingAt(script, p, Rest, k)
  <2>1. p # Fresh
    BY FreshIs
  <2> QED BY <2>1, Zenon DEF WaitingAt
<1>4. CASE HungUpAt(script, sent, p, k)
  <2>1. p.status \in {0, 408}
    BY <1>4, Zenon DEF HungUpAt
  <2> QED BY <2>1
<1>5. CASE EndedAt(script, p, k, stopping)
  <2>1. p.status = 0
    BY <1>5, Zenon DEF EndedAt
  <2> QED BY <2>1
<1> QED BY <1>1, <1>2, <1>3, <1>4, <1>5, Zenon DEF At

(* The request that a handler is given is that of the next message. *)
LEMMA HandlerHasNext ==
    ASSUME FramingInv, p.pc = "handler"
    PROVE  Len(got) + 1 \in 1..Len(script) /\ p.req = Meaning(script[Len(got) + 1])
<1>1. PICK k \in 0..Len(script) : At(script, sent, p, Rest, got, stopping, k)
  BY DEF FramingInv
<1>2. /\ script \in Scripts /\ sent \in 0..Len(FlattenSeq(BytesOfAll(script)))
      /\ wire \in Seq(Octets) /\ buf \in Seq(Octets) /\ p \in Parsers /\ got \in Seq(Requests)
  BY DEF FramingInv, FramingType
<1>4. PICK rest \in Seq(Octets) :
         rest = Rest /\ Len(FlattenSeq(BytesOfAll(script))) <= sent + Len(rest)
  <2>1. RestOf(script, sent, buf, wire) \in Seq(Octets)
    BY <1>2, RestIs
  <2>2. Len(FlattenSeq(BytesOfAll(script))) <= sent + Len(RestOf(script, sent, buf, wire))
    BY <1>2, RestIs
  <2> QED BY <2>1, <2>2, Zenon DEF Rest
<1>5. sent \in Nat
  BY <1>2, UnsentIs
<1>6. MessageAt(script, p, rest, k) /\ GotAre(script, sent, got, k)
  <2>1. p.pc # "closed" /\ p # Fresh
    BY FreshIs
  <2> QED BY <1>1, <1>4, <2>1, Zenon DEF At, WaitingAt, HungUpAt, EndedAt
<1>7. k + 1 \in 0..Len(script) /\ p.req = Meaning(script[k + 1])
  BY <1>2, <1>4, <1>5, <1>6, ServesNext
<1>8. Len(got) = k
  BY <1>6, Zenon DEF GotAre
<1>9. k + 1 \in 1..Len(script)
  BY <1>7
<1> QED BY <1>7, <1>8, <1>9, Zenon

(* What a client has read. *)
Found(answers, body, open) == [answers |-> answers, body |-> body, open |-> open]
DataByte == [status |-> 0, keep |-> FALSE, len |-> 0]
DataBytes(n) == [i \in 1..n |-> DataByte]

(* The parts of what a client has read. *)
LEMMA FoundIs ==
    ASSUME NEW answers, NEW body, NEW open
    PROVE  LET r == Found(answers, body, open)
           IN r.body = body /\ [r EXCEPT !.body = @ - 1] = Found(answers, body - 1, open)
BY DEF Found

(* A byte of data is counted, ... *)
LEMMA FoundData ==
    ASSUME NEW answers, NEW body \in Nat, body > 0, NEW open, NEW x, NEW lines
    PROVE  ReadByte(Found(answers, body, open), x, lines) = Found(answers, body - 1, open)
<1>1. PICK r : r = Found(answers, body, open) /\ r.body = body
               /\ [r EXCEPT !.body = @ - 1] = Found(answers, body - 1, open)
  BY FoundIs
<1>2. ReadByte(r, x, lines) = [r EXCEPT !.body = @ - 1]
  BY <1>1 DEF ReadByte
<1> QED BY <1>1, <1>2, Zenon

(* ... 100 Continue and what follows the last answer are skipped, ... *)
LEMMA FoundNothing ==
    ASSUME NEW answers, NEW open, NEW x, NEW lines, ~open \/ x.status = 100
    PROVE  ReadByte(Found(answers, 0, open), x, lines) = Found(answers, 0, open)
<1>1. PICK r, z : z = 0 /\ r = Found(answers, z, open)
  OBVIOUS
<1>3. r.body = z /\ r.open = open
  <2>1. r.body = z
    BY <1>1 DEF Found
  <2>2. r.open = open
    BY <1>1, Zenon DEF Found
  <2> QED BY <2>1, <2>2
<1>2. ReadByte(r, x, lines) = r
  <2>1. ~(z > 0)
    BY <1>1
  <2>2. ~r.open \/ x.status = 100
    BY <1>3, Zenon
  <2>3. ~(r.body > 0)
    BY <1>3, <2>1, Zenon
  <2> QED BY <2>2, <2>3, Zenon DEF ReadByte
<1> QED BY <1>1, <1>2, Zenon

(* ... and any other is the head of an answer. *)
NoBody(answers, x, lines) ==
    \/ Len(answers) + 1 <= Len(lines) /\ lines[Len(answers) + 1] = "head"
    \/ x.status \in {204, 304}

(* Its status is the next of the answers; its length is still to be read. *)
LEMMA FoundHead ==
    ASSUME NEW answers, NEW x, NEW lines, x.status # 100
    PROVE  ReadByte(Found(answers, 0, TRUE), x, lines) =
              Found(Append(answers, x.status), IF NoBody(answers, x, lines) THEN 0
                    ELSE x.len, x.keep)
<1>1. PICK r, z, y : z = 0 /\ y = TRUE /\ r = Found(answers, z, y)
  OBVIOUS
<1>4. r.body = z /\ r.open = y /\ r.answers = answers
  <2>1. r.body = z
    BY <1>1 DEF Found
  <2>2. r.open = y
    BY <1>1, Zenon DEF Found
  <2>3. r.answers = answers
    BY <1>1 DEF Found
  <2> QED BY <2>1, <2>2, <2>3
<1>2. ~(r.body > 0) /\ ~(~r.open \/ x.status = 100)
  <2>1. ~(z > 0)
    BY <1>1
  <2>2. r.open
    BY <1>1, <1>4, Zenon
  <2> QED BY <1>4, <2>1, <2>2, Zenon
<1>3. ReadByte(r, x, lines) =
         [answers |-> Append(r.answers, x.status), open |-> x.keep,
          body |-> IF NoBody(r.answers, x, lines) THEN 0 ELSE x.len]
  BY <1>2, Zenon DEF ReadByte, NoBody
<1> QED BY <1>1, <1>3, <1>4, Zenon DEF Found

(* Data, with one byte more. *)
LEMMA DataIs ==
    /\ DataByte \in Answers /\ DataBytes(0) = <<>>
    /\ \A n \in Nat : DataBytes(n) \in Seq(Answers) /\ Len(DataBytes(n)) = n
                      /\ DataBytes(n + 1) = Append(DataBytes(n), DataByte)
<1>1. DataByte \in Answers
  BY DEF DataByte, Answers
<1> HIDE DEF DataByte
<1>2. \A n \in Nat : DataBytes(n) \in Seq(Answers) /\ Len(DataBytes(n)) = n
                     /\ \A i \in 1..n : DataBytes(n)[i] = DataByte
  BY <1>1 DEF DataBytes
<1>3. ASSUME NEW n \in Nat PROVE DataBytes(n + 1) = Append(DataBytes(n), DataByte)
  <2>1. PICK a \in Seq(Answers), b \in Seq(Answers), x \in Answers :
           /\ a = DataBytes(n) /\ Len(a) = n /\ \A i \in 1..n : a[i] = DataByte
           /\ b = DataBytes(n + 1) /\ Len(b) = n + 1 /\ \A i \in 1..(n + 1) : b[i] = DataByte
           /\ x = DataByte
    BY <1>1, <1>2
  <2>2. b = Append(a, x)
    BY <2>1
  <2> QED BY <2>1, <2>2, Zenon
<1>4. DataBytes(0) = <<>>
  BY <1>2
<1> QED BY <1>1, <1>2, <1>3, <1>4, Zenon

(* The data of an answer is all read. *)
LEMMA DataRead ==
    ASSUME NEW a \in Seq(Answers), NEW lines, NEW answers \in Seq(Nat), NEW n \in Nat,
           NEW open \in BOOLEAN,
           Reading(a, lines) = Found(answers, n, open)
    PROVE  Reading(Cat(a, DataBytes(n)), lines) = Found(answers, 0, open)
<1> DEFINE S == {j \in Nat : j <= n =>
      Reading(Cat(a, DataBytes(j)), lines) = Found(answers, n - j, open)}
<1>1. 0 \in S
  <2>1. Cat(a, DataBytes(0)) = a
    BY DataIs, CatEmpty
  <2>2. n - 0 = n
    OBVIOUS
  <2> QED BY <2>1, <2>2
<1>2. ASSUME NEW j \in Nat, j \in S PROVE j + 1 \in S
  <2> SUFFICES ASSUME j + 1 <= n
               PROVE  Reading(Cat(a, DataBytes(j + 1)), lines) =
                            Found(answers, n - (j + 1), open)
    OBVIOUS
  <2>1. PICK b \in Nat : b = n - j /\ b > 0 /\ b - 1 = n - (j + 1)
    OBVIOUS
  <2>2. Reading(Cat(a, DataBytes(j)), lines) = Found(answers, b, open)
    BY <1>2, <2>1
  <2>3. PICK d \in Seq(Answers), c \in Seq(Answers), x \in Answers :
           d = DataBytes(j) /\ c = Cat(a, d) /\ x = DataByte /\ DataBytes(j + 1) = Append(d, x)
    BY DataIs, CatType
  <2>4. Cat(a, Append(d, x)) = Append(Cat(a, d), x)
    BY DEF Cat
  <2>5. Reading(Append(c, x), lines) = ReadByte(Reading(c, lines), x, lines)
    BY ReadingAppend
  <2>6. ReadByte(Found(answers, b, open), x, lines) = Found(answers, b - 1, open)
    BY <2>1, FoundData
  <2> QED BY <2>1, <2>2, <2>3, <2>4, <2>5, <2>6, Zenon
<1>3. Nat \subseteq S
  <2> HIDE DEF S
  <2> QED BY <1>1, <1>2, NatInd
<1>4. n - n = 0 /\ n <= n
  OBVIOUS
<1> QED BY <1>3, <1>4

(* What an answer consists of. *)
Bodyless(res) == res.status \in (100..199) \cup {204, 304}

(* An answer that has a status and a body. *)
IsResponse(res) ==
    /\ res.status \in Nat \ {100}
    /\ Len(res.body) \in Nat /\ DOMAIN res.body = 1..Len(res.body)

(* Its head and its data. *)
HeadOf(res, keep) ==
    [status |-> res.status, keep |-> keep, len |-> IF Bodyless(res) THEN 0 ELSE Len(res.body)]
DataOf(res, headOnly) ==
    IF Bodyless(res) \/ headOnly THEN <<>> ELSE DataBytes(Len(res.body))

(* Response is the one and the other. *)
LEMMA ResponseIs ==
    ASSUME NEW res, NEW headOnly, NEW keep, IsResponse(res)
    PROVE  Response(res, headOnly, keep) = Cat(<<HeadOf(res, keep)>>, DataOf(res, headOnly))
<1>1. DOMAIN res.body = 1..Len(res.body)
  BY DEF IsResponse
<1>2. DataBytes(Len(res.body)) =
         [i \in DOMAIN res.body |-> [status |-> 0, keep |-> FALSE, len |-> 0]]
  BY <1>1, Zenon DEF DataBytes, DataByte
<1> QED BY <1>2, Zenon DEF Response, HeadOf, DataOf, Bodyless, Cat

(* A head is a byte of an answer, and has its status. *)
LEMMA HeadIs ==
    ASSUME NEW res, IsResponse(res), NEW keep \in BOOLEAN
    PROVE  /\ HeadOf(res, keep) \in Answers /\ HeadOf(res, keep).status = res.status
           /\ HeadOf(res, keep).keep = keep
           /\ HeadOf(res, keep).len = IF Bodyless(res) THEN 0 ELSE Len(res.body)
<1>1. res.status \in Nat /\ Len(res.body) \in Nat
  BY DEF IsResponse
<1>2. PICK l \in Nat : l = IF Bodyless(res) THEN 0 ELSE Len(res.body)
  BY <1>1
<1>3. PICK st \in Nat : st = res.status
  BY <1>1
<1>4. HeadOf(res, keep) = [status |-> st, keep |-> keep, len |-> l]
  BY <1>2, <1>3, Zenon DEF HeadOf
<1>5. PICK x : x = [status |-> st, keep |-> keep, len |-> l]
  OBVIOUS
<1>6. x.status = st /\ x.len = l
  BY <1>5
<1>7. x.keep = keep
  BY <1>5, Zenon
<1>8. x \in Answers
  BY <1>5 DEF Answers
<1> QED BY <1>2, <1>3, <1>4, <1>5, <1>6, <1>7, <1>8, Zenon

(* A head and its data, byte by byte. *)
LEMMA CatOne ==
    ASSUME NEW a \in Seq(Answers), NEW x \in Answers, NEW d \in Seq(Answers)
    PROVE  Cat(a, Cat(<<x>>, d)) = Cat(Append(a, x), d) /\ Append(a, x) \in Seq(Answers)
<1>1. PICK s \in Seq(Answers) : s = <<x>>
  <2>1. <<x>> \in Seq(Answers)
    OBVIOUS
  <2> QED BY <2>1, Zenon
<1>2. Cat(a, s) = Append(a, x)
  BY <1>1 DEF Cat
<1>3. Append(a, x) \in Seq(Answers)
  OBVIOUS
<1>4. Cat(a, Cat(s, d)) = Cat(Cat(a, s), d)
  BY CatAssoc
<1> QED BY <1>1, <1>2, <1>3, <1>4, Zenon

(* A client has read some answers, and is in none of them. *)
HasRead(bytes, lines, answers, body, open) == Reading(bytes, lines) = Found(answers, body, open)
SameMethod(answers, lines, headOnly) ==
    headOnly <=> (Len(answers) + 1 <= Len(lines) /\ lines[Len(answers) + 1] = "head")

(* It reads a head, ... *)
LEMMA HeadRead ==
    ASSUME NEW a \in Seq(Answers), NEW lines, NEW answers, NEW x \in Answers,
           HasRead(a, lines, answers, 0, TRUE), x.status # 100
    PROVE  HasRead(Append(a, x), lines, Append(answers, x.status),
                   IF NoBody(answers, x, lines) THEN 0 ELSE x.len, x.keep)
<1>1. Reading(Append(a, x), lines) = ReadByte(Reading(a, lines), x, lines)
  BY ReadingAppend, Zenon
<1>2. ReadByte(Found(answers, 0, TRUE), x, lines) =
         Found(Append(answers, x.status), IF NoBody(answers, x, lines) THEN 0 ELSE x.len, x.keep)
  BY FoundHead, Zenon
<1> QED BY <1>1, <1>2, Zenon DEF HasRead

(* ... skips 100 Continue, ... *)
LEMMA SkippedRead ==
    ASSUME NEW a \in Seq(Answers), NEW lines, NEW answers, NEW x \in Answers,
           NEW open \in BOOLEAN,
           HasRead(a, lines, answers, 0, open), ~open \/ x.status = 100
    PROVE  HasRead(Append(a, x), lines, answers, 0, open)
<1>1. Reading(Append(a, x), lines) = ReadByte(Reading(a, lines), x, lines)
  BY ReadingAppend, Zenon
<1>2. ReadByte(Found(answers, 0, open), x, lines) = Found(answers, 0, open)
  BY FoundNothing, Zenon
<1> QED BY <1>1, <1>2, Zenon DEF HasRead

(* ... and reads the data to their end. *)
LEMMA AllDataRead ==
    ASSUME NEW a \in Seq(Answers), NEW lines, NEW answers \in Seq(Nat), NEW n \in Nat,
           NEW open \in BOOLEAN,
           HasRead(a, lines, answers, n, open)
    PROVE  HasRead(Cat(a, DataBytes(n)), lines, answers, 0, open)
<1>1. Reading(a, lines) = Found(answers, n, open)
  BY Zenon DEF HasRead
<1>2. Reading(Cat(a, DataBytes(n)), lines) = Found(answers, 0, open)
  BY <1>1, DataRead, Zenon
<1> QED BY <1>2, Zenon DEF HasRead

(* An answer is read as one, and all of it is read. *)
LEMMA AnswerRead ==
    ASSUME NEW a \in Seq(Answers), NEW lines,
           NEW answers \in Seq(Nat), HasRead(a, lines, answers, 0, TRUE),
           NEW res, IsResponse(res), NEW headOnly, NEW keep \in BOOLEAN,
           SameMethod(answers, lines, headOnly)
    PROVE  /\ Cat(a, Response(res, headOnly, keep)) \in Seq(Answers)
           /\ HasRead(Cat(a, Response(res, headOnly, keep)), lines, Append(answers, res.status), 0, keep)
<1>1. PICK x \in Answers :
        /\ x = HeadOf(res, keep) /\ x.status = res.status /\ x.keep = keep
        /\ x.len = IF Bodyless(res) THEN 0 ELSE Len(res.body)
  BY HeadIs, Zenon
<1>2. Len(res.body) \in Nat /\ res.status \in Nat /\ res.status # 100
  BY DEF IsResponse
<1>3. DataBytes(Len(res.body)) \in Seq(Answers) /\ <<>> \in Seq(Answers)
  <2>1. <<>> \in Seq(Answers)
    OBVIOUS
  <2> QED BY <1>2, <2>1, DataIs, Zenon
<1>4. PICK d \in Seq(Answers) : d = DataOf(res, headOnly)
  BY <1>3, Zenon DEF DataOf
<1>5. PICK b \in Seq(Answers) : b = Append(a, x)
  BY CatOne, Zenon
<1>6. /\ Cat(a, Response(res, headOnly, keep)) = Cat(b, d) /\ Cat(b, d) \in Seq(Answers)
  <2>1. Response(res, headOnly, keep) = Cat(<<x>>, d)
    BY <1>1, <1>4, ResponseIs, Zenon
  <2>2. Cat(a, Cat(<<x>>, d)) = Cat(b, d) /\ Cat(b, d) \in Seq(Answers)
    <3>1. Cat(a, Cat(<<x>>, d)) = Cat(Append(a, x), d)
      BY CatOne, Zenon
    <3>2. Cat(b, d) \in Seq(Answers)
      BY CatType
    <3> QED BY <1>5, <3>1, <3>2, Zenon
  <2> QED BY <2>1, <2>2, Zenon
<1>7. PICK more \in Seq(Nat) : more = Append(answers, res.status)
  <2>1. PICK st \in Nat : st = res.status
    BY <1>2
  <2>2. Append(answers, st) \in Seq(Nat)
    OBVIOUS
  <2> QED BY <2>1, <2>2, Zenon
<1>8. HasRead(b, lines, more, IF NoBody(answers, x, lines) THEN 0 ELSE x.len, keep)
  BY <1>1, <1>2, <1>5, <1>7, HeadRead, Zenon
<1>9. NoBody(answers, x, lines) <=> headOnly \/ res.status \in {204, 304}
  BY <1>1, Zenon DEF NoBody, SameMethod
<1>10. CASE Bodyless(res) \/ headOnly
  <2>1. d = <<>> /\ Cat(b, <<>>) = b
    <3>1. Cat(b, <<>>) = b
      BY CatEmpty
    <3> QED BY <1>4, <1>10, <3>1, Zenon DEF DataOf
  <2>2. (IF NoBody(answers, x, lines) THEN 0 ELSE x.len) = 0
    BY <1>1, <1>9, <1>10, Zenon
  <2> QED BY <1>6, <1>7, <1>8, <2>1, <2>2, Zenon
<1>11. CASE ~(Bodyless(res) \/ headOnly)
  <2>1. d = DataBytes(Len(res.body)) /\ x.len = Len(res.body)
    BY <1>1, <1>4, <1>11, Zenon DEF DataOf
  <2>2. ~NoBody(answers, x, lines)
    <3>1. res.status \notin {204, 304}
      BY <1>11 DEF Bodyless
    <3> QED BY <1>9, <1>11, <3>1, Zenon
  <2>3. HasRead(b, lines, more, Len(res.body), keep)
    BY <1>8, <2>1, <2>2, Zenon
  <2>4. HasRead(Cat(b, d), lines, more, 0, keep)
    BY <1>2, <2>1, <2>3, AllDataRead, Zenon
  <2> QED BY <1>6, <1>7, <2>4, Zenon
<1> QED BY <1>10, <1>11

(* The statuses of errors. *)
ErrorStatuses == {400, 408, 413, 431, 500, 501, 505}

(* An error is an answer with a body. *)
LEMMA ErrorIs ==
    ASSUME NEW st \in ErrorStatuses
    PROVE  /\ st \in Nat /\ IsResponse(ErrorText(st)) /\ ~Bodyless(ErrorText(st))
           /\ ErrorText(st).status = st /\ st # 100 /\ Len(ErrorText(st).body) = 1
<1>1. st \in Nat /\ st # 100 /\ st \notin (100..199) \cup {204, 304}
  BY DEF ErrorStatuses
<1>2. PICK b : b = <<"x">> /\ Len(b) = 1 /\ Len(b) \in Nat /\ DOMAIN b = 1..Len(b)
  <2>1. Len(<<"x">>) = 1 /\ 1 \in Nat
    OBVIOUS
  <2>2. DOMAIN <<"x">> = 1..Len(<<"x">>)
    OBVIOUS
  <2> QED BY <2>1, <2>2, Zenon
<1>3. PICK r : r = ErrorText(st)
  OBVIOUS
<1>4. r = [status |-> st, body |-> b]
  BY <1>2, <1>3, Zenon DEF ErrorText
<1>5. r.status = st /\ r.body = b
  BY <1>4
<1>6. IsResponse(r)
  <2>1. st \in Nat \ {100}
    BY <1>1
  <2> QED BY <1>2, <1>5, <2>1, Zenon DEF IsResponse
<1>7. ~Bodyless(r)
  BY <1>1, <1>5, Zenon DEF Bodyless
<1> QED BY <1>1, <1>2, <1>3, <1>5, <1>6, <1>7, Zenon

(* So is an error, whatever the client asked for. *)
LEMMA ErrorRead ==
    ASSUME NEW a \in Seq(Answers), NEW lines, NEW answers \in Seq(Nat),
           HasRead(a, lines, answers, 0, TRUE), NEW st \in ErrorStatuses
    PROVE  /\ Cat(a, Response(ErrorText(st), FALSE, FALSE)) \in Seq(Answers)
           /\ HasRead(Cat(a, Response(ErrorText(st), FALSE, FALSE)), lines, Append(answers, st), 0, FALSE)
<1>1. PICK res : /\ res = ErrorText(st) /\ IsResponse(res) /\ ~Bodyless(res)
                 /\ res.status = st /\ Len(res.body) = 1
  BY ErrorIs, Zenon
<1>2. st \in Nat /\ st # 100
  BY ErrorIs, Zenon
<1>3. PICK x \in Answers : x = HeadOf(res, FALSE) /\ x.status = st /\ x.keep = FALSE /\ x.len = 1
  BY <1>1, HeadIs, Zenon
<1>4. PICK d \in Seq(Answers), y \in Answers : d = DataOf(res, FALSE) /\ d = <<y>>
            /\ y = DataByte
  <2>1. 0 \in Nat /\ 0 + 1 = 1 /\ 1 \in Nat
    OBVIOUS
  <2>2. DataBytes(1) = Append(<<>>, DataByte) /\ DataBytes(1) \in Seq(Answers)
          /\ DataByte \in Answers
    BY <2>1, DataIs, Zenon
  <2>3. Append(<<>>, DataByte) = <<DataByte>>
    OBVIOUS
  <2> QED BY <1>1, <2>2, <2>3, Zenon DEF DataOf
<1>5. PICK b \in Seq(Answers) : b = Append(a, x)
  BY CatOne, Zenon
<1>6. /\ Cat(a, Response(res, FALSE, FALSE)) = Cat(b, d) /\ Cat(b, d) \in Seq(Answers)
  <2>1. Response(res, FALSE, FALSE) = Cat(<<x>>, d)
    <3>1. Response(res, FALSE, FALSE) = Cat(<<HeadOf(res, FALSE)>>, DataOf(res, FALSE))
      BY <1>1, ResponseIs, Zenon
    <3> QED BY <1>3, <1>4, <3>1, Zenon
  <2>2. Cat(a, Cat(<<x>>, d)) = Cat(b, d) /\ Cat(b, d) \in Seq(Answers)
    <3>1. Cat(a, Cat(<<x>>, d)) = Cat(Append(a, x), d)
      BY CatOne, Zenon
    <3>2. Cat(b, d) \in Seq(Answers)
      BY CatType
    <3> QED BY <1>5, <3>1, <3>2, Zenon
  <2> QED BY <2>1, <2>2, Zenon
<1>7. PICK more \in Seq(Nat) : more = Append(answers, st)
  <2>1. Append(answers, st) \in Seq(Nat)
    BY <1>2
  <2> QED BY <2>1
<1>8. HasRead(b, lines, more, IF NoBody(answers, x, lines) THEN 0 ELSE 1, FALSE)
  BY <1>2, <1>3, <1>5, <1>7, HeadRead, Zenon
<1>9. HasRead(Cat(b, d), lines, more, 0, FALSE)
  <2>1. CASE NoBody(answers, x, lines)
    <3>1. HasRead(b, lines, more, 0, FALSE)
      BY <1>8, <2>1, Zenon
    <3>2. HasRead(Append(b, y), lines, more, 0, FALSE)
      BY <3>1, SkippedRead, Zenon
    <3>3. Cat(b, <<y>>) = Append(b, y)
      BY DEF Cat
    <3> QED BY <1>4, <3>2, <3>3, Zenon
  <2>2. CASE ~NoBody(answers, x, lines)
    <3>1. HasRead(b, lines, more, Len(res.body), FALSE)
      BY <1>1, <1>8, <2>2, Zenon
    <3>2. Len(res.body) \in Nat /\ FALSE \in BOOLEAN
      BY <1>1
    <3>3. HasRead(Cat(b, DataBytes(Len(res.body))), lines, more, 0, FALSE)
      BY <3>1, <3>2, AllDataRead, Zenon
    <3>4. d = DataBytes(Len(res.body))
      BY <1>1, <1>4, Zenon DEF DataOf
    <3> QED BY <3>3, <3>4, Zenon
  <2> QED BY <2>1, <2>2
<1> QED BY <1>1, <1>6, <1>7, <1>9, Zenon

(* What the client has read of the bytes written so far. *)
TheLines == [i \in DOMAIN script |-> script[i].line[1]]
Given == {r.status : r \in Responses} \cup ErrorStatuses
Refusals == IF p.pc = "closed" /\ p.status # 0 THEN 1 ELSE 0
StatusInv == p.pc = "closed" => p.status \in {0} \cup ErrorStatuses
ReadSoFar(answers, open) ==
    /\ HasRead(out, TheLines, answers, 0, open)
    /\ Len(answers) = Len(got) + Refusals
    /\ \A i \in 1..Len(answers) : answers[i] \in Given
    /\ p.pc # "closed" => open = TRUE
OutInv ==
    out \in Seq(Answers) /\ \E answers \in Seq(Nat), open \in BOOLEAN : ReadSoFar(answers, open)

(* 100 Continue. *)
LEMMA ContinueIs == Continue \in Answers /\ Continue.status = 100
<1>1. Continue \in Answers
  BY DEF Continue, Answers
<1>2. Continue.status = 100
  BY DEF Continue
<1> QED BY <1>1, <1>2

(* One answer more of those that may be given. *)
LEMMA MoreGiven ==
    ASSUME NEW answers \in Seq(Nat), \A i \in 1..Len(answers) : answers[i] \in Given,
           NEW st \in Nat, st \in Given
    PROVE  /\ Append(answers, st) \in Seq(Nat) /\ Len(Append(answers, st)) = Len(answers) + 1
           /\ \A i \in 1..Len(Append(answers, st)) : Append(answers, st)[i] \in Given
<1> HIDE DEF Given
<1>1. Append(answers, st) \in Seq(Nat) /\ Len(Append(answers, st)) = Len(answers) + 1
  OBVIOUS
<1>2. \A i \in 1..(Len(answers) + 1) :
         (i \in 1..Len(answers)
           /\ Append(answers, st)[i] = answers[i]) \/ Append(answers, st)[i] = st
  OBVIOUS
<1> QED BY <1>1, <1>2, Zenon

(* A step of the parser: what it says, if anything, is 100 Continue and the *)
(* refusal of the message.                                                  *)
LEMMA OutParsing ==
    ASSUME FramingInv, OutInv, StatusInv', p.pc # "closed", script' = script, got' = got,
           out' = Cat(out, Spoken(p')) \/ out' = Cat(Append(out, Continue), Spoken(p'))
    PROVE  OutInv'
<1>1. out \in Seq(Answers)
  BY DEF OutInv
<1>2. PICK answers \in Seq(Nat) : ReadSoFar(answers, TRUE)
  <2>1. PICK answers \in Seq(Nat), open \in BOOLEAN : ReadSoFar(answers, open)
    BY DEF OutInv
  <2>2. open = TRUE
    BY <2>1, Zenon DEF ReadSoFar
  <2> QED BY <2>1, <2>2, Zenon
<1>3. TheLines' = TheLines
  BY Zenon DEF TheLines
<1>4. PICK b \in Seq(Answers) : out' = Cat(b, Spoken(p'))
            /\ HasRead(b, TheLines, answers, 0, TRUE)
  <2>1. HasRead(out, TheLines, answers, 0, TRUE)
    BY <1>2, Zenon DEF ReadSoFar
  <2>2. PICK x \in Answers : x = Continue /\ x.status = 100
    BY ContinueIs
  <2>3. HasRead(Append(out, x), TheLines, answers, 0, TRUE)
    BY <1>1, <2>1, <2>2, SkippedRead, Zenon
  <2>4. Append(out, x) \in Seq(Answers)
    BY <1>1
  <2> QED BY <1>1, <2>1, <2>2, <2>3, <2>4, Zenon
<1>5. Refusals = 0 /\ Len(got) \in Nat
  <2>1. Refusals = 0
    BY DEF Refusals
  <2>2. got \in Seq(Requests)
    BY DEF FramingInv, FramingType
  <2> QED BY <2>1, <2>2
<1>6. Len(answers) = Len(got)
  <2>1. Len(answers) = Len(got) + Refusals
    BY <1>2, Zenon DEF ReadSoFar
  <2> QED BY <1>5, <2>1
<1>7. \A i \in 1..Len(answers) : answers[i] \in Given
  BY <1>2, Zenon DEF ReadSoFar
<1>8. CASE p'.pc = "closed" /\ p'.status # 0
  <2>1. PICK st \in ErrorStatuses : st = p'.status
    BY <1>8 DEF StatusInv
  <2>2. Spoken(p') = Response(ErrorText(st), FALSE, FALSE)
    BY <1>8, <2>1, Zenon DEF Spoken
  <2>3. out' \in Seq(Answers) /\ HasRead(out', TheLines, Append(answers, st), 0, FALSE)
    BY <1>4, <2>2, ErrorRead, Zenon
  <2>4. st \in Nat /\ st \in Given
    BY ErrorIs, Zenon DEF Given
  <2>5. PICK more \in Seq(Nat) : /\ more = Append(answers, st) /\ Len(more) = Len(answers) + 1
                                 /\ \A i \in 1..Len(more) : more[i] \in Given
    BY <1>7, <2>4, MoreGiven, Zenon
  <2>6. Refusals' = 1
    BY <1>8 DEF Refusals
  <2>7. ReadSoFar(more, FALSE)'
    BY <1>3, <1>6, <1>8, <2>3, <2>5, <2>6, Zenon DEF ReadSoFar
  <2> QED BY <2>3, <2>7, Zenon DEF OutInv
<1>9. CASE ~(p'.pc = "closed" /\ p'.status # 0)
  <2>1. Spoken(p') = <<>>
    BY <1>9, Zenon DEF Spoken
  <2>2. Cat(b, <<>>) = b
    BY CatEmpty
  <2>3. out' \in Seq(Answers) /\ HasRead(out', TheLines, answers, 0, TRUE)
    BY <1>4, <2>1, <2>2, Zenon
  <2>4. Refusals' = 0
    BY <1>9 DEF Refusals
  <2>5. Len(answers) = Len(got) + 0
    BY <1>5, <1>6
  <2>6. ReadSoFar(answers, TRUE)'
    BY <1>3, <1>7, <2>3, <2>4, <2>5, Zenon DEF ReadSoFar
  <2> QED BY <2>3, <2>6, Zenon DEF OutInv
<1> QED BY <1>8, <1>9

(* Nothing is written. *)
LEMMA OutSame ==
    ASSUME OutInv, script' = script, got' = got, out' = out,
           p' = p \/ (p.pc # "closed" /\ p'.pc # "closed")
    PROVE  OutInv'
<1>1. PICK answers \in Seq(Nat), open \in BOOLEAN : ReadSoFar(answers, open)
  BY DEF OutInv
<1>2. TheLines' = TheLines
  BY Zenon DEF TheLines
<1>3. Refusals' = Refusals
  BY Zenon DEF Refusals
<1>4. ReadSoFar(answers, open)'
  BY <1>1, <1>2, <1>3, Zenon DEF ReadSoFar
<1>5. out' \in Seq(Answers)
  BY DEF OutInv
<1> QED BY <1>4, <1>5, Zenon DEF OutInv

(* What is served is an answer. *)
LEMMA ServedIsResponse ==
    ASSUME NEW res \in Responses \cup {Panic}
    PROVE  IsResponse(res) /\ res.status \in Given /\ res.status \in Nat
<1>1. CASE res \in Responses
  <2>1. res.status \in Nat \ {100} /\ res.body \in Seq(STRING)
    BY <1>1, ResponsesAssumption
  <2>2. Len(res.body) \in Nat /\ DOMAIN res.body = 1..Len(res.body)
    BY <2>1
  <2>3. res.status \in Nat
    BY <2>1
  <2>4. res.status \in Given
    BY <1>1, Zenon DEF Given
  <2> QED BY <2>1, <2>2, <2>3, <2>4, Zenon DEF IsResponse
<1>2. CASE res = Panic
  <2>1. 500 \in ErrorStatuses
    BY DEF ErrorStatuses
  <2>2. PICK st \in ErrorStatuses : st = 500
    BY <2>1, Zenon
  <2>3. IsResponse(ErrorText(st)) /\ ErrorText(st).status = st /\ st \in Nat
    BY ErrorIs, Zenon
  <2>4. res = ErrorText(st)
    BY <1>2, <2>2, Zenon DEF Panic
  <2> QED BY <2>3, <2>4, Zenon DEF Given
<1> QED BY <1>1, <1>2

(* A request is served: its answer is written. *)
LEMMA OutServe ==
    ASSUME FramingInv, OutInv, NEW res \in Responses \cup {Panic}, Serve(res)
    PROVE  OutInv'
<1>1. out \in Seq(Answers) /\ got \in Seq(Requests) /\ script \in Scripts /\ Len(got) \in Nat
  <2>1. out \in Seq(Answers) /\ got \in Seq(Requests) /\ script \in Scripts
    BY DEF OutInv, FramingInv, FramingType
  <2> QED BY <2>1
<1>2. PICK headOnly \in BOOLEAN, keep \in BOOLEAN :
         /\ headOnly = (p.req.line = "head")
         /\ keep = (KeepAlive(p.req) /\ ~stopping)
  <2>1. (p.req.line = "head") \in BOOLEAN
    OBVIOUS
  <2>2. (KeepAlive(p.req) /\ ~stopping) \in BOOLEAN
    OBVIOUS
  <2> QED BY <2>1, <2>2, Zenon
<1>3. /\ p.pc = "handler" /\ script' = script /\ got' = Append(got, p.req)
      /\ out' = Cat(out, Response(res, p.req.line = "head", KeepAlive(p.req) /\ ~stopping))
      /\ p' = IF KeepAlive(p.req) /\ ~stopping THEN Fresh ELSE Refuse(p, 0)
  BY Zenon DEF Serve, Cat
<1>4. PICK answers \in Seq(Nat) : ReadSoFar(answers, TRUE)
  <2>1. PICK answers \in Seq(Nat), open \in BOOLEAN : ReadSoFar(answers, open)
    BY DEF OutInv
  <2>2. p.pc # "closed"
    BY <1>3
  <2>3. open = TRUE
    BY <2>1, <2>2, Zenon DEF ReadSoFar
  <2> QED BY <2>1, <2>3, Zenon
<1>5. TheLines' = TheLines
  BY <1>3, Zenon DEF TheLines
<1>6. Len(answers) = Len(got)
  <2>1. Len(answers) = Len(got) + Refusals
    BY <1>4, Zenon DEF ReadSoFar
  <2>2. Refusals = 0
    BY <1>3 DEF Refusals
  <2> QED BY <1>1, <2>1, <2>2
<1>7. SameMethod(answers, TheLines, headOnly)
  <2>1. Len(got) + 1 \in 1..Len(script) /\ p.req = Meaning(script[Len(got) + 1])
    BY <1>3, HandlerHasNext
  <2>2. DOMAIN script = 1..Len(script) /\ Len(script) \in Nat
    BY <1>1, ScriptIs
  <2>3. DOMAIN TheLines = 1..Len(script) /\ TheLines[Len(got) + 1] = script[Len(got) + 1].line[1]
    BY <2>1, <2>2, Zenon DEF TheLines
  <2>4. Len(TheLines) = Len(script)
    BY <2>2, <2>3
  <2>5. Len(got) + 1 <= Len(script)
    BY <2>1, <2>2
  <2>6. p.req.line = script[Len(got) + 1].line[1]
    <3>1. PICK m : m = script[Len(got) + 1]
      OBVIOUS
    <3>2. Meaning(m).line = m.line[1]
      BY DEF Meaning
    <3> QED BY <2>1, <3>1, <3>2, Zenon
  <2> QED BY <1>2, <1>6, <2>3, <2>4, <2>5, <2>6, Zenon DEF SameMethod
<1>8. IsResponse(res) /\ res.status \in Given /\ res.status \in Nat
  BY ServedIsResponse
<1>9. Response(res, p.req.line = "head", KeepAlive(p.req)
        /\ ~stopping) = Response(res, headOnly, keep)
  BY <1>2, Zenon
<1>10. out' \in Seq(Answers) /\ HasRead(out', TheLines, Append(answers, res.status), 0, keep)
  <2>1. HasRead(out, TheLines, answers, 0, TRUE)
    BY <1>4, Zenon DEF ReadSoFar
  <2>2. out' = Cat(out, Response(res, headOnly, keep))
    BY <1>3, <1>9, Zenon
  <2>3. PICK a \in Seq(Answers), lines \in {TheLines} :
           /\ a = out /\ lines = TheLines
           /\ HasRead(a, lines, answers, 0, TRUE) /\ SameMethod(answers, lines, headOnly)
    BY <1>1, <1>7, <2>1, Zenon
  <2>4. /\ Cat(a, Response(res, headOnly, keep)) \in Seq(Answers)
        /\ HasRead(Cat(a, Response(res, headOnly, keep)), lines, Append(answers, res.status), 0, keep)
    <3>1. HasRead(a, lines, answers, 0, TRUE) /\ SameMethod(answers, lines, headOnly)
      BY <2>3, Zenon
    <3>2. IsResponse(res)
      BY <1>8
    <3> QED BY <3>1, <3>2, AnswerRead
  <2> QED BY <2>2, <2>3, <2>4, Zenon
<1>11. PICK more \in Seq(Nat) : /\ more = Append(answers, res.status)
             /\ Len(more) = Len(answers) + 1
                                /\ \A i \in 1..Len(more) : more[i] \in Given
  <2>1. \A i \in 1..Len(answers) : answers[i] \in Given
    BY <1>4, Zenon DEF ReadSoFar
  <2> QED BY <1>8, <2>1, MoreGiven, Zenon
<1>12. Refusals' = 0 /\ (p'.pc # "closed" => keep = TRUE)
  <2>1. CASE keep
    <3>1. p' = Fresh
      BY <1>2, <1>3, <2>1, Zenon
    <3>2. p'.pc = "line"
      BY <3>1, FreshIs
    <3>3. Refusals' = 0
      BY <3>2 DEF Refusals
    <3> QED BY <2>1, <3>3, Zenon
  <2>2. CASE ~keep
    <3>1. p' = Refuse(p, 0)
      BY <1>2, <1>3, <2>2, Zenon
    <3>2. p'.pc = "closed" /\ p'.status = 0
      <4>1. p \in Parsers /\ 0 \in Nat
        BY DEF FramingInv, FramingType
      <4>2. Refuse(p, 0).pc = "closed" /\ Refuse(p, 0).status = 0
        BY <4>1, RefuseIs
      <4> QED BY <3>1, <4>2, Zenon
    <3>3. Refusals' = 0
      BY <3>2 DEF Refusals
    <3> QED BY <3>2, <3>3, Zenon
  <2> QED BY <2>1, <2>2
<1>13. Len(got') + 0 = Len(got) + 1
  <2>1. PICK r \in Requests : r = p.req
    BY DEF FramingInv, FramingType, Parsers
  <2>2. Len(Append(got, r)) + 0 = Len(got) + 1
    BY <1>1
  <2> QED BY <1>3, <2>1, <2>2, Zenon
<1>14. ReadSoFar(more, keep)'
  BY <1>5, <1>6, <1>10, <1>11, <1>12, <1>13, Zenon DEF ReadSoFar
<1> QED BY <1>10, <1>14, Zenon DEF OutInv

(* The invariant bounds the status of a closed connection. *)
LEMMA StatusFromInv ==
    ASSUME FramingInv
    PROVE  StatusInv
<1>1. p.pc = "closed" => p.status \in {0, 400, 408, 413, 431, 501, 505}
  BY ClosedStatus
<1> QED BY <1>1 DEF StatusInv, ErrorStatuses

(* At the beginning nothing is written. *)
LEMMA OutInitially ==
    ASSUME FramingInit
    PROVE  OutInv
<1>1. out = <<>> /\ got = <<>> /\ p = Fresh
  BY Zenon DEF FramingInit
<1>2. PICK answers \in Seq(Nat) : answers = <<>> /\ Len(answers) = 0
  <2>1. <<>> \in Seq(Nat) /\ Len(<<>>) = 0
    OBVIOUS
  <2> QED BY <2>1, Zenon
<1>3. out \in Seq(Answers)
  <2>1. <<>> \in Seq(Answers)
    OBVIOUS
  <2> QED BY <1>1, <2>1, Zenon
<1>4. HasRead(out, TheLines, answers, 0, TRUE)
  <2>1. Reading(<<>>, TheLines) = NothingRead
    BY ReadingNothing, Zenon
  <2> QED BY <1>1, <1>2, <2>1, Zenon DEF HasRead, Found, NothingRead
<1>5. Len(answers) = Len(got) + Refusals
  <2>1. Refusals = 0
    BY <1>1, FreshIs DEF Refusals
  <2>2. Len(got) = 0
    BY <1>1
  <2> QED BY <1>2, <2>1, <2>2
<1>6. \A i \in 1..Len(answers) : answers[i] \in Given
  BY <1>2
<1>7. ReadSoFar(answers, TRUE)
  BY <1>4, <1>5, <1>6, Zenon DEF ReadSoFar
<1> QED BY <1>3, <1>7, Zenon DEF OutInv

(* A parser that moves and nothing else. *)
LEMMA WithPc ==
    ASSUME NEW q \in Parsers, NEW b, NEW c, NEW d
    PROVE  [q EXCEPT !.req.body = b, !.pc = c, !.need = d].pc = c
BY DEF Parsers

(* Every step keeps what the client has read in line. *)
LEMMA OutStep ==
    ASSUME FramingInv, OutInv, StatusInv', [FramingNext]_framingVars
    PROVE  OutInv'
<1>1. CASE Fill
  <2>1. script' = script /\ got' = got /\ out' = out /\ p' = p
    BY <1>1, Zenon DEF Fill
  <2> QED BY <2>1, OutSame, Zenon
<1>2. CASE LinePart
  <2>1. p.pc \in InLine /\ script' = script /\ got' = got /\ out' = Cat(out, Spoken(p'))
    BY <1>2, Zenon DEF LinePart, Outcome, Cat
  <2>2. p.pc # "closed"
    BY <2>1 DEF InLine
  <2> QED BY <2>1, <2>2, OutParsing, Zenon
<1>3. CASE LineEnd
  <2>1. buf \in Seq(Octets)
    BY DEF FramingInv, FramingType
  <2>2. /\ p.pc \in InLine /\ script' = script /\ got' = got
        /\ out' = out \o Spoken(p') \/ out' = Append(out, Continue) \o Spoken(p')
    BY <1>3, <2>1, LineEndIs, Zenon
  <2>3. out' = Cat(out, Spoken(p')) \/ out' = Cat(Append(out, Continue), Spoken(p'))
    BY <2>2, Zenon DEF Cat
  <2>4. p.pc # "closed"
    BY <2>2 DEF InLine
  <2> QED BY <2>2, <2>3, <2>4, OutParsing, Zenon
<1>4. CASE Data
  <2> DEFINE n == Least(p.need, Len(buf))
             body == p.req.body \o SubSeq(buf, 1, n)
             need == IF p.need = n /\ p.pc = "chunk" THEN 2 ELSE p.need - n
             pc == IF p.need = n THEN IF p.pc = "body" THEN "handler" ELSE "crlf" ELSE p.pc
  <2>1. /\ p.pc \in {"body", "chunk"} /\ script' = script /\ got' = got /\ out' = out
        /\ p' = [p EXCEPT !.req.body = @ \o SubSeq(buf, 1, n),
                          !.pc = IF p.need = n THEN IF p.pc = "body" THEN "handler"
                                ELSE "crlf" ELSE @,
                          !.need = IF p.need = n /\ p.pc = "chunk" THEN 2 ELSE @ - n]
    BY <1>4, Zenon DEF Data
  <2>2. p \in Parsers
    BY DEF FramingInv, FramingType
  <2>3. p'.pc \in {p.pc, "handler", "crlf"}
    <3> HIDE DEF n
    <3>2. p' = [p EXCEPT !.req.body = body, !.pc = pc, !.need = need]
      BY <2>1
    <3>3. pc \in {p.pc, "handler", "crlf"}
      OBVIOUS
    <3> HIDE DEF body, need, pc
    <3>4. p'.pc = pc
      <4>1. \A b, c, d : [p EXCEPT !.req.body = b, !.pc = c, !.need = d].pc = c
        BY <2>2, WithPc, Zenon
      <4> QED BY <3>2, <4>1, Zenon
    <3> QED BY <3>3, <3>4
  <2>4. p.pc # "closed" /\ p'.pc # "closed"
    BY <2>1, <2>3
  <2> QED BY <2>1, <2>4, OutSame, Zenon
<1>5. CASE AfterChunk
  <2>1. p.pc = "crlf" /\ script' = script /\ got' = got /\ out' = Cat(out, Spoken(p'))
    BY <1>5, Zenon DEF AfterChunk, Outcome, Cat
  <2>2. p.pc # "closed"
    BY <2>1
  <2> QED BY <2>1, <2>2, OutParsing, Zenon
<1>6. CASE Stop
  <2>1. script' = script /\ got' = got /\ out' = out /\ p' = p
    BY <1>6, Zenon DEF Stop
  <2> QED BY <2>1, OutSame, Zenon
<1>7. ASSUME NEW timeout \in BOOLEAN, NoMoreBytes(timeout) PROVE OutInv'
  <2>1. p.pc \in InLine \cup InData /\ script' = script /\ got' = got
          /\ out' = Cat(out, Spoken(p'))
    BY <1>7, Zenon DEF NoMoreBytes, Outcome, Cat
  <2>2. p.pc # "closed"
    BY <2>1 DEF InLine, InData
  <2> QED BY <2>1, <2>2, OutParsing, Zenon
<1>8. ASSUME NEW res \in Responses \cup {Panic}, Serve(res) PROVE OutInv'
  BY <1>8, OutServe
<1>9. CASE UNCHANGED framingVars
  <2>1. script' = script /\ got' = got /\ out' = out /\ p' = p
    BY <1>9 DEF framingVars
  <2> QED BY <2>1, OutSame, Zenon
<1> QED BY <1>1, <1>2, <1>3, <1>4, <1>5, <1>6, <1>7, <1>8, <1>9, Zenon DEF FramingNext

(* Then the answers line up. *)
LEMMA OutLinesUp ==
    ASSUME FramingInv, OutInv
    PROVE  AnswersLineUp
<1>1. PICK answers \in Seq(Nat), open \in BOOLEAN : ReadSoFar(answers, open)
  BY DEF OutInv
<1>2. Reading(out, [i \in DOMAIN script |-> script[i].line[1]]) = Found(answers, 0, open)
  BY <1>1, Zenon DEF ReadSoFar, HasRead, TheLines
<1>3. PICK z : z = 0
  OBVIOUS
<1>4. PICK r : r = Found(answers, z, open)
  OBVIOUS
<1>5. r.answers = answers /\ r.body = z
  <2>1. r.answers = answers
    BY <1>4 DEF Found
  <2>2. r.body = z
    BY <1>4 DEF Found
  <2> QED BY <2>1, <2>2
<1>6. Len(answers) = Len(got) + Refusals /\ \A i \in 1..Len(answers) : answers[i] \in Given
  BY <1>1, Zenon DEF ReadSoFar
<1>7. DOMAIN answers = 1..Len(answers)
  OBVIOUS
<1>8. \A i \in DOMAIN r.answers :
         r.answers[i] \in {x.status : x \in Responses} \cup {400, 408, 413, 431, 500, 501, 505}
  <2> TAKE i \in DOMAIN r.answers
  <2>1. r.answers[i] \in Given
    BY <1>5, <1>6, <1>7, Zenon
  <2> QED BY <2>1 DEF Given, ErrorStatuses
<1>9. Len(r.answers) = Len(got) + (IF p.pc = "closed" /\ p.status # 0 THEN 1 ELSE 0)
        /\ r.body = 0
  BY <1>3, <1>5, <1>6, Zenon DEF Refusals
<1>10. r = Reading(out, [i \in DOMAIN script |-> script[i].line[1]])
  BY <1>2, <1>3, <1>4, Zenon
<1> DEFINE read == Reading(out, [i \in DOMAIN script |-> script[i].line[1]])
<1> HIDE DEF read
<1>11. /\ Len(read.answers) = Len(got) + (IF p.pc = "closed" /\ p.status # 0 THEN 1 ELSE 0)
       /\ read.body = 0
       /\ \A i \in DOMAIN read.answers :
             read.answers[i] \in {x.status : x \in Responses} \cup {400, 408, 413, 431, 500, 501, 505}
  <2>1. read = r
    BY <1>10, Zenon DEF read
  <2>2. read.answers = r.answers /\ read.body = r.body
    BY <2>1
  <2>3. read.body = 0
    BY <1>9, <2>2, Zenon
  <2>4. Len(read.answers) = Len(got) + (IF p.pc = "closed" /\ p.status # 0 THEN 1 ELSE 0)
    BY <1>9, <2>2, Zenon
  <2>5. \A i \in DOMAIN read.answers :
           read.answers[i] \in {x.status : x \in Responses} \cup {400, 408, 413, 431, 500, 501, 505}
    BY <1>8, <2>2
  <2> QED BY <2>3, <2>4, <2>5, Zenon
<1> QED BY <1>11, Zenon DEF AnswersLineUp, read

(* http.rs:1256 - AnswersLineUp: for every script, every handler and every  *)
(* point at which the connection ends, a client finds an answer for each    *)
(* request in the bytes, and none in a body.                                *)
THEOREM AnswersInLine == FramingSpec => []AnswersLineUp
<1>1. FramingInit => OutInv
  BY OutInitially
<1>2. FramingInv => StatusInv
  BY StatusFromInv
<1>3. FramingInv /\ StatusInv' /\ OutInv /\ [FramingNext]_framingVars => OutInv'
  BY OutStep
<1>4. FramingInv /\ OutInv => AnswersLineUp
  BY OutLinesUp
<1> QED BY <1>1, <1>2, <1>3, <1>4, FramingIsInvariant, PTL DEF FramingSpec
------------------------------------------------------------------------------
(* Digest: blocks of bytes. *)

(* Whole blocks: so many bytes. *)
Times(n) == n * Block

(* A block has at least a byte; one more block is a block's bytes more. *)
LEMMA TimesIs ==
    /\ Block \in Nat /\ Block > 0
    /\ Times(0) = 0
    /\ \A n \in Nat : Times(n) \in Nat /\ Times(n + 1) = Times(n) + Block
BY DigestAssumption DEF Times

(* More blocks are not fewer bytes. *)
LEMMA TimesGrow ==
    \A m, n \in Nat : m <= n => Times(m) <= Times(n)
<1>1. ASSUME NEW m \in Nat, NEW n \in Nat, m <= n PROVE m * Block <= n * Block
  BY <1>1, TimesIs
<1> QED BY <1>1 DEF Times

(* As many whole blocks as there are leave less than a block. *)
LEMMA Divided ==
    ASSUME NEW a \in Nat
    PROVE  /\ a \div Block \in Nat
           /\ Times(a \div Block) <= a /\ a < Times(a \div Block) + Block
BY TimesIs DEF Times

(* And that tells how many they are, and what is left. *)
LEMMA DividedIs ==
    ASSUME NEW q \in Nat, NEW r \in Nat, r < Block
    PROVE  (Times(q) + r) \div Block = q /\ (Times(q) + r) % Block = r
BY TimesIs DEF Times

(* Fewer blocks are a whole block shorter. *)
LEMMA TimesNext ==
    ASSUME NEW i \in Nat, NEW n \in Nat, i < n
    PROVE  Times(i + 1) <= Times(n)
<1>1. i + 1 \in Nat /\ i + 1 <= n
  OBVIOUS
<1> QED BY <1>1, TimesGrow

(* The first part of a first part. *)
LEMMA FirstOfFirst ==
    ASSUME NEW T, NEW s \in Seq(T), NEW y \in 0..Len(s), NEW x \in 0..y
    PROVE  /\ SubSeq(SubSeq(s, 1, y), 1, x) = SubSeq(s, 1, x)
           /\ SubSeq(SubSeq(s, 1, y), x + 1, y) = SubSeq(s, x + 1, y)
OBVIOUS

(* A first part, and the part after it. *)
LEMMA SplitTwo ==
    ASSUME NEW T, NEW s \in Seq(T), NEW y \in 0..Len(s), NEW x \in 0..y
    PROVE  Cat(SubSeq(s, 1, x), SubSeq(s, x + 1, y)) = SubSeq(s, 1, y)
<1>1. SubSeq(s, 1, y) \in Seq(T) /\ Len(SubSeq(s, 1, y)) = y
  BY Split
<1>2. PICK w \in Seq(T) : w = SubSeq(s, 1, y) /\ Len(w) = y
  BY <1>1
<1>3. Cat(SubSeq(w, 1, x), SubSeq(w, x + 1, Len(w))) = w
  BY <1>2, Split
<1>4. /\ SubSeq(w, 1, x) = SubSeq(s, 1, x)
      /\ SubSeq(w, x + 1, y) = SubSeq(s, x + 1, y)
  BY <1>2, FirstOfFirst
<1> QED BY <1>2, <1>3, <1>4

(* The middle one of three. *)
LEMMA MiddleIs ==
    ASSUME NEW T, NEW u \in Seq(T), NEW b \in Seq(T), NEW r \in Seq(T)
    PROVE  SubSeq(u \o (b \o r), Len(u) + 1, Len(u) + Len(b)) = b
<1> DEFINE all == u \o (b \o r)
           m == SubSeq(all, Len(u) + 1, Len(u) + Len(b))
<1>1. /\ all \in Seq(T) /\ Len(all) = Len(u) + (Len(b) + Len(r))
      /\ \A i \in 1..Len(b) : all[Len(u) + i] = b[i]
      /\ Len(u) \in Nat /\ Len(b) \in Nat /\ Len(r) \in Nat
  OBVIOUS
<1> HIDE DEF all
<1>2. m \in Seq(T) /\ Len(m) = Len(b) /\ \A i \in 1..Len(b) : m[i] = all[Len(u) + i]
  BY <1>1
<1> HIDE DEF m
<1>3. m = b
  <2>1. Len(m) = Len(b) /\ \A i \in 1..Len(b) : m[i] = b[i]
    BY <1>1, <1>2
  <2> QED BY <1>2, <2>1, SeqEqual
<1> QED BY <1>3 DEF m, all

(* Sequences of whole blocks. *)
Blocks(T) == {b \in Seq(T) : Len(b) = Block}

(* Blocks are parts of equal length. *)
LEMMA BlocksAre ==
    ASSUME NEW T, NEW s \in Seq(Blocks(T))
    PROVE  /\ s \in Seq(Seq(T)) /\ Len(s) \in Nat
           /\ \A i \in 1..Len(s) : s[i] \in Seq(T) /\ Len(s[i]) = Block
<1>1. \A i \in 1..Len(s) : s[i] \in Blocks(T)
  OBVIOUS
<1>2. \A i \in 1..Len(s) : s[i] \in Seq(T) /\ Len(s[i]) = Block
  BY <1>1 DEF Blocks
<1>3. s \in Seq(Seq(T))
  <2>1. Len(s) \in Nat /\ s = [i \in 1..Len(s) |-> s[i]]
    OBVIOUS
  <2> QED BY <1>2, <2>1
<1> QED BY <1>2, <1>3

(* The first n of them have n times the bytes. *)
LEMMA UpToBlocks ==
    ASSUME NEW T, NEW s \in Seq(Blocks(T))
    PROVE  \A n \in 0..Len(s) : UpTo(s, n) \in Seq(T) /\ Len(UpTo(s, n)) = Times(n)
<1> DEFINE N == Len(s)
           S == {n \in Nat : n <= N => Len(UpTo(s, n)) = Times(n)}
<1>1. s \in Seq(Seq(T)) /\ N \in Nat /\ \A i \in 1..N : s[i] \in Seq(T) /\ Len(s[i]) = Block
  BY BlocksAre
<1>2. \A n \in 0..N : UpTo(s, n) \in Seq(T)
  BY <1>1, UpToType
<1>3. 0 \in S
  <2>1. Len(<<>>) = 0
    OBVIOUS
  <2> QED BY <1>1, <2>1, UpToEnds, TimesIs
<1>4. ASSUME NEW n \in Nat, n < N, n \in S PROVE n + 1 \in S
  <2>1. Len(UpTo(s, n + 1)) = Len(UpTo(s, n)) + Len(s[n + 1])
    BY <1>1, <1>4, UpToLonger
  <2>2. Len(s[n + 1]) = Block
    BY <1>1, <1>4
  <2>3. Len(UpTo(s, n)) = Times(n)
    BY <1>1, <1>4
  <2> QED BY <2>1, <2>2, <2>3, <1>4, TimesIs
<1>5. 0..N \subseteq S
  <2> HIDE DEF S
  <2> QED BY <1>1, <1>3, <1>4, IndUpTo
<1>6. ASSUME NEW n \in 0..N PROVE Len(UpTo(s, n)) = Times(n)
  <2>1. n \in S /\ n <= N
    BY <1>1, <1>5
  <2> QED BY <2>1
<1> QED BY <1>2, <1>6

(* All of them. *)
LEMMA FlatBlocks ==
    ASSUME NEW T, NEW s \in Seq(Blocks(T))
    PROVE  FlattenSeq(s) \in Seq(T) /\ Len(FlattenSeq(s)) = Times(Len(s))
<1>1. s \in Seq(Seq(T)) /\ Len(s) \in Nat
  BY BlocksAre
<1>2. UpTo(s, Len(s)) = FlattenSeq(s)
  BY <1>1, UpToEnds
<1> QED BY <1>1, <1>2, UpToBlocks

(* The n-th of them is found where it should be. *)
LEMMA BlockIsAt ==
    ASSUME NEW T, NEW s \in Seq(Blocks(T)), NEW n \in Nat, n < Len(s)
    PROVE  SubSeq(FlattenSeq(s), Times(n) + 1, Times(n + 1)) = s[n + 1]
<1> DEFINE all == FlattenSeq(s)
           u == UpTo(s, n)
           b == s[n + 1]
           r == From(s, n + 1)
<1>1. s \in Seq(Seq(T)) /\ Len(s) \in Nat /\ b \in Seq(T) /\ Len(b) = Block /\ n \in 0..Len(s)
  BY BlocksAre
<1>2. u \in Seq(T) /\ Len(u) = Times(n) /\ r \in Seq(T)
  BY <1>1, UpToBlocks, FromType
<1>3. all = Cat(u, Cat(b, r))
  <2>1. all = Cat(UpTo(s, n), From(s, n))
    BY <1>1, FlatSplits
  <2>2. From(s, n) = Cat(b, r)
    BY <1>1, FromStep
  <2> QED BY <2>1, <2>2, Zenon
<1>4. Times(n) \in Nat /\ Times(n + 1) = Times(n) + Block /\ Block \in Nat
  BY TimesIs
<1> HIDE DEF all, u, b, r
<1>5. SubSeq(Cat(u, Cat(b, r)), Len(u) + 1, Len(u) + Len(b)) = b
  BY <1>1, <1>2, MiddleIs, Zenon DEF Cat
<1>6. SubSeq(all, Times(n) + 1, Times(n) + Block) = b
  BY <1>1, <1>2, <1>3, <1>5, Zenon
<1>7. SubSeq(all, Times(n) + 1, Times(n + 1)) = b
  BY <1>4, <1>6, Zenon
<1> QED BY <1>7 DEF all, b

(* Two sequences of parts, one after the other. *)
LEMMA FlatCat ==
    ASSUME NEW T, NEW s \in Seq(Seq(T)), NEW t \in Seq(Seq(T))
    PROVE  FlattenSeq(Cat(s, t)) = Cat(FlattenSeq(s), FlattenSeq(t))
<1>0. Cat(s, t) \in Seq(Seq(T)) /\ Len(Cat(s, t)) = Len(s) + Len(t)
  BY CatType, Zenon
<1>1. /\ Cat(s, t) \in Seq(Seq(T)) /\ Len(Cat(s, t)) = Len(s) + Len(t)
      /\ Len(s) \in 0..(Len(s) + Len(t)) /\ Len(s) \in 0..Len(Cat(s, t))
  <2>1. Len(s) \in Nat /\ Len(t) \in Nat
    OBVIOUS
  <2> QED BY <1>0, <2>1
<1>2. FlattenSeq(Cat(s, t)) = Cat(UpTo(Cat(s, t), Len(s)), From(Cat(s, t), Len(s)))
  BY <1>1, FlatSplits
<1>3. SubSeq(Cat(s, t), 1, Len(s)) = s
  BY DEF Cat
<1>4. SubSeq(Cat(s, t), Len(s) + 1, Len(Cat(s, t))) = t
  BY <1>1 DEF Cat
<1> QED BY <1>2, <1>3, <1>4, Zenon DEF UpTo, From

(* A sequence, cut into n blocks. *)
Cut(s, n) == [b \in 1..n |-> SubSeq(s, (b - 1) * Block + 1, b * Block)]

(* These are blocks, each with the bytes of its place. *)
LEMMA CutIs ==
    ASSUME NEW T, NEW s \in Seq(T), NEW n \in Nat, Times(n) <= Len(s)
    PROVE  /\ Cut(s, n) \in Seq(Blocks(T)) /\ Len(Cut(s, n)) = n
           /\ \A i \in 0..(n - 1) : Cut(s, n)[i + 1] = SubSeq(s, Times(i) + 1, Times(i + 1))
<1>1. ASSUME NEW b \in 1..n
      PROVE  /\ SubSeq(s, (b - 1) * Block + 1, b * Block) \in Blocks(T)
  <2>1. PICK i \in Nat : b = i + 1 /\ i < n
    BY <1>1
  <2>2. (b - 1) * Block = Times(i) /\ b * Block = Times(i + 1)
    BY <2>1 DEF Times
  <2>3. Times(i) \in Nat /\ Times(i + 1) = Times(i) + Block /\ Block \in Nat /\ Block > 0
    BY TimesIs
  <2>4. Times(i + 1) <= Len(s)
    <3>1. Times(i + 1) <= Times(n)
      BY <2>1, TimesNext
    <3>2. i + 1 \in Nat /\ Len(s) \in Nat
      BY <2>1
    <3>3. Times(i + 1) \in Nat /\ Times(n) \in Nat
      BY <3>2, TimesIs
    <3> QED BY <3>1, <3>2, <3>3
  <2>5. SubSeq(s, Times(i) + 1, Times(i + 1)) \in Seq(T)
    BY <2>3, <2>4
  <2>6. Len(SubSeq(s, Times(i) + 1, Times(i + 1))) = Block
    BY <2>3, <2>4
  <2> QED BY <2>2, <2>5, <2>6 DEF Blocks
<1>2. Cut(s, n) \in Seq(Blocks(T)) /\ Len(Cut(s, n)) = n
  BY <1>1 DEF Cut
<1>3. ASSUME NEW i \in 0..(n - 1) PROVE Cut(s, n)[i + 1] = SubSeq(s, Times(i) + 1, Times(i + 1))
  <2>1. i + 1 \in 1..n /\ (i + 1) - 1 = i
    OBVIOUS
  <2> QED BY <2>1, Zenon DEF Cut, Times
<1> QED BY <1>2, <1>3

(* The blocks make up the bytes that they were cut from. *)
LEMMA FlatCut ==
    ASSUME NEW T, NEW s \in Seq(T), NEW n \in Nat, Times(n) <= Len(s)
    PROVE  FlattenSeq(Cut(s, n)) = SubSeq(s, 1, Times(n))
<1> DEFINE c == Cut(s, n)
           S == {k \in Nat : k <= n => UpTo(c, k) = SubSeq(s, 1, Times(k))}
<1>1. /\ c \in Seq(Blocks(T)) /\ Len(c) = n
      /\ \A i \in 0..(n - 1) : c[i + 1] = SubSeq(s, Times(i) + 1, Times(i + 1))
  BY CutIs
<1>2. c \in Seq(Seq(T))
  BY <1>1, BlocksAre
<1> HIDE DEF c
<1>3. 0 \in S
  <2>1. SubSeq(s, 1, 0) = <<>>
    OBVIOUS
  <2> QED BY <1>2, <2>1, UpToEnds, TimesIs
<1>4. ASSUME NEW k \in Nat, k < n, k \in S PROVE k + 1 \in S
  <2>1. UpTo(c, k) = SubSeq(s, 1, Times(k))
    BY <1>4
  <2>2. UpTo(c, k + 1) = Cat(UpTo(c, k), c[k + 1])
    BY <1>1, <1>2, <1>4, UpToStep
  <2>3. c[k + 1] = SubSeq(s, Times(k) + 1, Times(k + 1))
    BY <1>1, <1>4
  <2>4. Times(k) \in Nat /\ Times(k + 1) = Times(k) + Block /\ Block \in Nat /\ Block > 0
    BY TimesIs
  <2>5. Times(k + 1) <= Len(s)
    <3>1. Times(k + 1) <= Times(n)
      BY <1>4, TimesNext
    <3>2. Times(k + 1) \in Nat /\ Times(n) \in Nat /\ Len(s) \in Nat
      BY <1>4, TimesIs
    <3> QED BY <3>1, <3>2
  <2>6. PICK x \in Nat, y \in Nat : x = Times(k) /\ y = Times(k + 1) /\ x <= y /\ y <= Len(s)
    BY <2>4, <2>5
  <2>7. Cat(SubSeq(s, 1, x), SubSeq(s, x + 1, y)) = SubSeq(s, 1, y)
    <3>1. y \in 0..Len(s) /\ x \in 0..y
      BY <2>6
    <3> QED BY <3>1, SplitTwo
  <2>8. UpTo(c, k + 1) = SubSeq(s, 1, Times(k + 1))
    BY <2>1, <2>2, <2>3, <2>6, <2>7, Zenon
  <2> QED BY <2>8
<1>5. 0..n \subseteq S
  <2> HIDE DEF S
  <2> QED BY <1>3, <1>4, IndUpTo
<1>6. UpTo(c, n) = FlattenSeq(c)
  BY <1>1, <1>2, UpToEnds
<1> QED BY <1>5, <1>6 DEF c

(* And blocks are cut where they were. *)
LEMMA CutFlat ==
    ASSUME NEW T, NEW s \in Seq(Blocks(T))
    PROVE  Cut(FlattenSeq(s), Len(s)) = s
<1> DEFINE all == FlattenSeq(s)
           n == Len(s)
<1>1. n \in Nat /\ all \in Seq(T) /\ Len(all) = Times(n)
  BY FlatBlocks, BlocksAre
<1>2. /\ Cut(all, n) \in Seq(Blocks(T)) /\ Len(Cut(all, n)) = n
      /\ \A i \in 0..(n - 1) : Cut(all, n)[i + 1] = SubSeq(all, Times(i) + 1, Times(i + 1))
  <2>1. Times(n) <= Len(all)
    BY <1>1, TimesIs
  <2> HIDE DEF all, n
  <2> QED BY <1>1, <2>1, CutIs
<1>3. ASSUME NEW b \in 1..n PROVE Cut(all, n)[b] = s[b]
  <2>1. PICK i \in Nat : b = i + 1 /\ i < n
    BY <1>1, <1>3
  <2>2. SubSeq(all, Times(i) + 1, Times(i + 1)) = s[i + 1]
    BY <2>1, BlockIsAt
  <2>3. i \in 0..(n - 1)
    BY <1>1, <2>1
  <2>4. Cut(all, n)[i + 1] = s[i + 1]
    BY <1>2, <2>2, <2>3, Zenon
  <2> QED BY <2>1, <2>4
<1>4. Cut(all, n) \in Seq(Blocks(T)) /\ Len(Cut(all, n)) = n
  BY <1>2
<1>5. PICK c \in Seq(Blocks(T)) : c = Cut(all, n) /\ Len(c) = Len(s)
  BY <1>4
<1>6. \A b \in 1..Len(s) : c[b] = s[b]
  BY <1>3, <1>5
<1>7. c = s
  <2> HIDE DEF all, n
  <2> QED BY <1>5, <1>6, SeqEqual
<1> QED BY <1>5, <1>7

------------------------------------------------------------------------------
(* Digest: what a hasher has taken in. *)

(* The states that a hasher can be in. *)
Hashers ==
    [state : Seq(Blocks(Int)), buf : Blocks(Int), bufLen : 0..(Block - 1), total : Nat]

(* What a hasher has taken in: the blocks that it compressed, and what      *)
(* counts of its buffer.                                                    *)
TakenIn(h) == Cat(FlattenSeq(h.state), SubSeq(h.buf, 1, h.bufLen))


(* What the fields of a hasher are, and how much it has taken in. *)
LEMMA HasherIs ==
    ASSUME NEW h \in Hashers
    PROVE  /\ h.state \in Seq(Blocks(Int)) /\ h.buf \in Seq(Int) /\ Len(h.buf) = Block
           /\ h.bufLen \in Nat /\ h.bufLen < Block /\ h.total \in Nat
           /\ FlattenSeq(h.state) \in Seq(Int) /\ Len(FlattenSeq(h.state)) = Times(Len(h.state))
           /\ SubSeq(h.buf, 1, h.bufLen) \in Seq(Int) /\ Len(SubSeq(h.buf, 1, h.bufLen)) = h.bufLen
           /\ TakenIn(h) \in Seq(Int) /\ Len(TakenIn(h)) = Times(Len(h.state)) + h.bufLen
<1>1. /\ h.state \in Seq(Blocks(Int)) /\ h.buf \in Seq(Int) /\ Len(h.buf) = Block
      /\ h.bufLen \in Nat /\ h.bufLen < Block /\ h.total \in Nat
  BY TimesIs DEF Hashers, Blocks
<1>2. FlattenSeq(h.state) \in Seq(Int) /\ Len(FlattenSeq(h.state)) = Times(Len(h.state))
  BY <1>1, FlatBlocks
<1>3. SubSeq(h.buf, 1, h.bufLen) \in Seq(Int) /\ Len(SubSeq(h.buf, 1, h.bufLen)) = h.bufLen
  <2>1. h.bufLen \in 0..Len(h.buf)
    BY <1>1
  <2> QED BY <1>1, <2>1, Split
<1>4. TakenIn(h) \in Seq(Int) /\ Len(TakenIn(h)) = Times(Len(h.state)) + h.bufLen
  BY <1>2, <1>3, CatType DEF TakenIn
<1> QED BY <1>1, <1>2, <1>3, <1>4

(* Overwriting: what was there, then the data. *)
LEMMA OverwriteIs ==
    ASSUME NEW old \in Blocks(Int), NEW from \in 0..Block, NEW data \in Seq(Int),
           from + Len(data) <= Block
    PROVE  /\ Overwrite(old, from, data) \in Blocks(Int)
           /\ SubSeq(Overwrite(old, from, data), 1, from + Len(data)) = Cat(SubSeq(old, 1, from), data)
<1> DEFINE o == Overwrite(old, from, data)
           n == from + Len(data)
<1>0. old \in Seq(Int) /\ Len(old) = Block /\ Block \in Nat /\ Len(data) \in Nat /\ from \in Nat
      /\ DOMAIN old = 1..Block
  BY TimesIs DEF Blocks
<1>1. ASSUME NEW i \in 1..Block
      PROVE  /\ o[i] \in Int
             /\ i <= from => o[i] = old[i]
             /\ i > from /\ i <= n => o[i] = data[i - from]
  <2>1. o[i] = IF i > from /\ i <= from + Len(data) THEN data[i - from] ELSE old[i]
    BY <1>0 DEF Overwrite
  <2>2. i > from /\ i <= n => i - from \in 1..Len(data)
    BY <1>0
  <2>3. old[i] \in Int /\ (i > from /\ i <= n => data[i - from] \in Int)
    BY <1>0, <2>2
  <2> QED BY <2>1, <2>3
<1>2. o \in [1..Block -> Int]
  <2>1. o = [i \in 1..Block |-> o[i]]
    BY <1>0 DEF Overwrite
  <2> QED BY <1>1, <2>1
<1> HIDE DEF o
<1>3. o \in Seq(Int) /\ Len(o) = Block
  BY <1>0, <1>2
<1>4. o \in Blocks(Int)
  BY <1>3 DEF Blocks
<1>5. /\ SubSeq(old, 1, from) \in Seq(Int) /\ Len(SubSeq(old, 1, from)) = from
      /\ \A i \in 1..from : SubSeq(old, 1, from)[i] = old[i]
  BY <1>0, Split
<1>6. PICK f \in Seq(Int) : f = SubSeq(old, 1, from) /\ Len(f) = from /\ \A i \in 1..from : f[i] = old[i]
  BY <1>5
<1>7. Cat(f, data) \in Seq(Int) /\ Len(Cat(f, data)) = from + Len(data)
  BY <1>6, CatType
<1>8. /\ SubSeq(o, 1, n) \in Seq(Int) /\ Len(SubSeq(o, 1, n)) = n
      /\ \A i \in 1..n : SubSeq(o, 1, n)[i] = o[i]
  <2>1. n \in 0..Len(o)
    BY <1>0, <1>3
  <2> QED BY <1>3, <2>1, Split
<1>9. ASSUME NEW i \in 1..n PROVE SubSeq(o, 1, n)[i] = Cat(f, data)[i]
  <2>1. i \in 1..Block /\ i \in 1..(Len(f) + Len(data))
    BY <1>0, <1>6
  <2>2. Cat(f, data)[i] = IF i <= from THEN f[i] ELSE data[i - from]
    BY <2>1, <1>6, CatAt
  <2>3. o[i] = IF i <= from THEN old[i] ELSE data[i - from]
    BY <2>1, <1>0, <1>1
  <2>4. i <= from => f[i] = old[i]
    BY <1>6, <2>1, <1>0
  <2> QED BY <1>8, <2>2, <2>3, <2>4
<1>10. SubSeq(o, 1, n) = Cat(f, data)
  <2>1. \A i \in 1..Len(Cat(f, data)) : SubSeq(o, 1, n)[i] = Cat(f, data)[i]
    BY <1>7, <1>9
  <2>2. Len(SubSeq(o, 1, n)) = Len(Cat(f, data))
    BY <1>7, <1>8
  <2> HIDE DEF n
  <2> QED BY <1>7, <1>8, <2>1, <2>2, SeqEqual
<1> QED BY <1>4, <1>6, <1>10 DEF o

(* update, first step: the hasher takes in the first of the data, and then  *)
(* its buffer is empty or there is no more.                                 *)
LEMMA TopUpFits ==
    ASSUME NEW h \in Hashers, NEW data \in Seq(Int)
    PROVE  LET t == TopUp(h, data) IN
           /\ t.h \in Hashers /\ t.rest \in Seq(Int) /\ t.h.total = h.total
           /\ Cat(TakenIn(t.h), t.rest) = Cat(TakenIn(h), data)
           /\ t.h.bufLen = 0 \/ t.rest = <<>>
<1> DEFINE take == IF h.bufLen > 0 THEN Shorter(Len(data), Block - h.bufLen) ELSE 0
           first == SubSeq(data, 1, take)
           rest == SubSeq(data, take + 1, Len(data))
           filled == Overwrite(h.buf, h.bufLen, first)
           full == h.bufLen + take = Block
           g == TopUp(h, data).h
<1>0. Block \in Nat /\ Block > 0 /\ Len(data) \in Nat
  BY TimesIs
<1>1. /\ h.state \in Seq(Blocks(Int)) /\ h.buf \in Blocks(Int) /\ h.bufLen \in Nat /\ h.bufLen < Block
      /\ h.total \in Nat /\ h.bufLen \in 0..Block /\ h.bufLen \in 0..(Block - 1)
      /\ FlattenSeq(h.state) \in Seq(Int)
      /\ SubSeq(h.buf, 1, h.bufLen) \in Seq(Int)
  <2>1. h.buf \in Blocks(Int) /\ h.bufLen \in 0..(Block - 1)
    BY DEF Hashers
  <2> QED BY <1>0, <2>1, HasherIs
<1>2. /\ take \in 0..Len(data) /\ take \in Nat /\ h.bufLen + take <= Block
      /\ h.bufLen = 0 => take = 0
      /\ h.bufLen > 0 /\ ~full => take = Len(data)
  BY <1>0, <1>1 DEF Shorter
<1>3. /\ first \in Seq(Int) /\ rest \in Seq(Int) /\ Cat(first, rest) = data
      /\ Len(first) = take /\ Len(rest) = Len(data) - take
  <2> HIDE DEF take
  <2> QED BY <1>2, Split
<1>4. /\ filled \in Blocks(Int)
      /\ SubSeq(filled, 1, h.bufLen + take) = Cat(SubSeq(h.buf, 1, h.bufLen), first)
  <2>1. h.bufLen + Len(first) <= Block
    BY <1>2, <1>3
  <2> HIDE DEF take, first
  <2> QED BY <1>1, <1>3, <2>1, OverwriteIs
<1>5. /\ TopUp(h, data).rest = rest
      /\ g = [h EXCEPT !.buf = filled,
                       !.state = IF full THEN Compress(@, filled) ELSE @,
                       !.bufLen = IF full THEN 0 ELSE @ + take]
  BY Zenon DEF TopUp
<1> HIDE DEF take, first, rest, filled, full, g
<1>6. /\ g.buf = filled /\ g.total = h.total
      /\ g.state = IF full THEN Append(h.state, filled) ELSE h.state
      /\ g.bufLen = IF full THEN 0 ELSE h.bufLen + take
      /\ g = [state |-> g.state, buf |-> g.buf, bufLen |-> g.bufLen, total |-> g.total]
  BY <1>5 DEF Hashers, Compress
<1>7. g \in Hashers
  <2>1. g.state \in Seq(Blocks(Int))
    <3>1. Append(h.state, filled) \in Seq(Blocks(Int))
      BY <1>1, <1>4
    <3> QED BY <1>1, <1>6, <3>1
  <2>2. g.bufLen \in 0..(Block - 1)
    <3>1. h.bufLen \in Nat /\ take \in Nat /\ h.bufLen + take <= Block
      BY <1>1, <1>2
    <3>2. CASE full
      BY <3>2, <1>0, <1>6
    <3>3. CASE ~full
      <4>1. h.bufLen + take # Block /\ g.bufLen = h.bufLen + take
        BY <3>3, <1>6 DEF full
      <4> QED BY <1>0, <3>1, <4>1
    <3> QED BY <3>2, <3>3
  <2> QED BY <1>1, <1>4, <1>6, <2>1, <2>2 DEF Hashers
<1>8. TakenIn(g) = Cat(TakenIn(h), first)
  <2> DEFINE a == FlattenSeq(h.state)
             k == SubSeq(h.buf, 1, h.bufLen)
  <2>1. Cat(a, Cat(k, first)) = Cat(TakenIn(h), first)
    <3>1. TakenIn(h) = Cat(a, k)
      BY DEF TakenIn
    <3>2. Cat(Cat(a, k), first) = Cat(a, Cat(k, first))
      <4>1. a \in Seq(Int) /\ k \in Seq(Int) /\ first \in Seq(Int)
        BY <1>1, <1>3
      <4> HIDE DEF a, k
      <4> QED BY <4>1, CatAssoc
    <3> QED BY <3>1, <3>2, Zenon
  <2>2. CASE full
    <3>1. FlattenSeq(g.state) = Cat(a, filled)
      <4>1. h.state \in Seq(Seq(Int)) /\ filled \in Seq(Int)
        BY <1>1, <1>4, BlocksAre DEF Blocks
      <4>2. FlattenSeq(Append(h.state, filled)) = Cat(FlattenSeq(h.state), filled)
        BY <4>1, FlatAppend, Zenon DEF Cat
      <4> QED BY <2>2, <4>2, <1>6
    <3>2. filled = Cat(k, first)
      <4>1. filled \in Seq(Int) /\ Len(filled) = Block
        BY <1>4 DEF Blocks
      <4>2. SubSeq(filled, 1, Len(filled)) = filled
        BY <4>1
      <4>3. h.bufLen + take = Len(filled)
        BY <2>2, <4>1 DEF full
      <4> QED BY <1>4, <4>2, <4>3, Zenon
    <3>3. SubSeq(g.buf, 1, g.bufLen) = <<>>
      <4>1. g.bufLen = 0 /\ g.buf \in Seq(Int)
        BY <2>2, <1>4, <1>6 DEF Blocks
      <4> QED BY <4>1
    <3>4. TakenIn(g) = Cat(Cat(a, filled), <<>>)
      BY <3>1, <3>3, Zenon DEF TakenIn
    <3>5. Cat(Cat(a, filled), <<>>) = Cat(a, filled)
      <4>1. filled \in Seq(Int) /\ a \in Seq(Int)
        BY <1>1, <1>4 DEF Blocks
      <4>2. Cat(a, filled) \in Seq(Int)
        BY <4>1, CatType
      <4> QED BY <4>2, CatEmpty
    <3> QED BY <2>1, <3>2, <3>4, <3>5, Zenon
  <2>3. CASE ~full
    <3>1. g.state = h.state /\ g.bufLen = h.bufLen + take /\ g.buf = filled
      BY <2>3, <1>6
    <3>2. TakenIn(g) = Cat(a, Cat(k, first))
      BY <3>1, <1>4, Zenon DEF TakenIn
    <3> QED BY <2>1, <3>2, Zenon
  <2> QED BY <2>2, <2>3
<1>9. Cat(TakenIn(g), rest) = Cat(TakenIn(h), data)
  <2>1. TakenIn(h) \in Seq(Int)
    BY HasherIs
  <2>2. Cat(Cat(TakenIn(h), first), rest) = Cat(TakenIn(h), Cat(first, rest))
    BY <1>3, <2>1, CatAssoc
  <2> QED BY <1>3, <1>8, <2>2, Zenon
<1>10. g.bufLen = 0 \/ rest = <<>>
  <2>1. CASE full
    BY <2>1, <1>6
  <2>2. CASE h.bufLen = 0
    BY <2>2, <1>2, <1>6
  <2>3. CASE h.bufLen > 0 /\ ~full
    <3>1. Len(rest) = 0
      BY <2>3, <1>2, <1>3, <1>0
    <3> QED BY <3>1, <1>3
  <2> QED BY <2>1, <2>2, <2>3, <1>1
<1>11. g.total = h.total /\ rest \in Seq(Int)
  BY <1>3, <1>6
<1>12. TopUp(h, data).h = g
  BY DEF g
<1> QED BY <1>5, <1>7, <1>9, <1>10, <1>11, <1>12, Zenon

(* update, second step: whole blocks, and the rest into the buffer. *)
LEMMA AbsorbFits ==
    ASSUME NEW h \in Hashers, NEW data \in Seq(Int), h.bufLen = 0 \/ data = <<>>
    PROVE  LET g == Absorb(h, data) IN
           /\ g \in Hashers /\ g.total = h.total
           /\ TakenIn(g) = Cat(TakenIn(h), data)
<1> DEFINE n == Len(data) \div Block
           first == SubSeq(data, 1, Times(n))
           left == SubSeq(data, Times(n) + 1, Len(data))
           g == Absorb(h, data)
<1>0. Block \in Nat /\ Block > 0 /\ Len(data) \in Nat
  BY TimesIs
<1>1. /\ h.state \in Seq(Blocks(Int)) /\ h.buf \in Blocks(Int) /\ h.bufLen \in Nat /\ h.bufLen < Block
      /\ h.total \in Nat /\ h.bufLen \in 0..(Block - 1)
      /\ FlattenSeq(h.state) \in Seq(Int)
      /\ SubSeq(h.buf, 1, h.bufLen) \in Seq(Int)
  <2>1. h.buf \in Blocks(Int) /\ h.bufLen \in 0..(Block - 1)
    BY DEF Hashers
  <2> QED BY <1>0, <2>1, HasherIs
<1>2. /\ n \in Nat /\ Times(n) \in Nat /\ Times(n) <= Len(data) /\ Len(data) < Times(n) + Block
      /\ Times(n) \in 0..Len(data)
  <2>1. n \in Nat /\ Times(n) <= Len(data) /\ Len(data) < Times(n) + Block
    BY <1>0, Divided
  <2>2. Times(n) \in Nat
    BY <2>1, TimesIs
  <2> QED BY <2>1, <2>2, <1>0
<1>3. /\ first \in Seq(Int) /\ left \in Seq(Int) /\ Cat(first, left) = data
      /\ Len(left) = Len(data) - Times(n)
  <2> HIDE DEF n
  <2>1. Times(n) \in 0..Len(data)
    BY <1>2
  <2>2. PICK x \in 0..Len(data) : x = Times(n)
    BY <2>1
  <2>3. /\ SubSeq(data, 1, x) \in Seq(Int) /\ SubSeq(data, x + 1, Len(data)) \in Seq(Int)
        /\ Cat(SubSeq(data, 1, x), SubSeq(data, x + 1, Len(data))) = data
        /\ Len(SubSeq(data, x + 1, Len(data))) = Len(data) - x
    BY Split
  <2> QED BY <2>2, <2>3, Zenon
<1>4. g = [h EXCEPT !.state = @ \o Cut(data, n),
                    !.buf = Overwrite(@, 0, left),
                    !.bufLen = IF left = <<>> THEN @ ELSE Len(left)]
  BY Zenon DEF Absorb, Cut, Times
<1> HIDE DEF first, left, g, n
<1>5. /\ g.state = Cat(h.state, Cut(data, n)) /\ g.buf = Overwrite(h.buf, 0, left) /\ g.total = h.total
      /\ g.bufLen = IF left = <<>> THEN h.bufLen ELSE Len(left)
      /\ g = [state |-> g.state, buf |-> g.buf, bufLen |-> g.bufLen, total |-> g.total]
  BY <1>4 DEF Hashers, Cat
<1>6. Cut(data, n) \in Seq(Blocks(Int))
  BY <1>2, CutIs
<1>7. g.state \in Seq(Blocks(Int))
  BY <1>1, <1>5, <1>6, CatType
<1>8. g.buf \in Blocks(Int) /\ SubSeq(g.buf, 1, Len(left)) = Cat(SubSeq(h.buf, 1, 0), left)
  <2>1. 0 \in 0..Block /\ Len(left) \in Nat /\ Len(left) < Block /\ 0 + Len(left) <= Block
        /\ 0 + Len(left) = Len(left)
    BY <1>0, <1>2, <1>3
  <2>2. /\ Overwrite(h.buf, 0, left) \in Blocks(Int)
        /\ SubSeq(Overwrite(h.buf, 0, left), 1, 0 + Len(left)) = Cat(SubSeq(h.buf, 1, 0), left)
    BY <1>1, <1>3, <2>1, OverwriteIs
  <2> QED BY <1>5, <2>1, <2>2
<1>9. g.bufLen \in 0..(Block - 1)
  BY <1>0, <1>1, <1>2, <1>3, <1>5
<1>10. g \in Hashers
  BY <1>1, <1>5, <1>7, <1>8, <1>9 DEF Hashers
<1>11. FlattenSeq(g.state) = Cat(FlattenSeq(h.state), first)
  <2>1. h.state \in Seq(Seq(Int)) /\ Cut(data, n) \in Seq(Seq(Int))
    BY <1>1, <1>6, BlocksAre
  <2>2. FlattenSeq(Cat(h.state, Cut(data, n))) = Cat(FlattenSeq(h.state), FlattenSeq(Cut(data, n)))
    BY <2>1, FlatCat
  <2>3. FlattenSeq(Cut(data, n)) = first
    BY <1>2, FlatCut DEF first
  <2> QED BY <1>5, <2>2, <2>3, Zenon
<1>12. CASE h.bufLen = 0
  <2>1. g.bufLen = Len(left)
    <3>1. Len(<<>>) = 0
      OBVIOUS
    <3> QED BY <1>12, <1>5, <3>1
  <2>2. SubSeq(h.buf, 1, 0) = <<>>
    <3>1. h.buf \in Seq(Int)
      BY <1>1 DEF Blocks
    <3> QED BY <3>1
  <2>3. Cat(<<>>, left) = left
    BY <1>3, CatEmpty
  <2>4. TakenIn(h) = FlattenSeq(h.state)
    <3>1. TakenIn(h) = Cat(FlattenSeq(h.state), <<>>)
      BY <1>12, <2>2, Zenon DEF TakenIn
    <3>2. Cat(FlattenSeq(h.state), <<>>) = FlattenSeq(h.state)
      BY <1>1, CatEmpty
    <3> QED BY <3>1, <3>2, Zenon
  <2>5. SubSeq(g.buf, 1, g.bufLen) = left
    BY <1>8, <2>1, <2>2, <2>3, Zenon
  <2>6. TakenIn(g) = Cat(Cat(FlattenSeq(h.state), first), left)
    BY <1>11, <2>5, Zenon DEF TakenIn
  <2>7. Cat(Cat(FlattenSeq(h.state), first), left) = Cat(FlattenSeq(h.state), Cat(first, left))
    BY <1>1, <1>3, CatAssoc
  <2>8. TakenIn(g) = Cat(TakenIn(h), data)
    BY <1>3, <2>4, <2>6, <2>7, Zenon
  <2> QED BY <2>8, <1>5, <1>10 DEF g
<1>13. CASE data = <<>>
  <2>1. Len(data) = 0
    BY <1>13
  <2>2. Len(left) = 0 /\ Times(n) = 0
    BY <1>2, <1>3, <2>1
  <2>3. left = <<>> /\ first = <<>>
    <3>1. left = <<>>
      BY <2>2, <1>3
    <3>2. first = <<>>
      <4>1. SubSeq(data, 1, 0) = <<>>
        OBVIOUS
      <4> QED BY <4>1, <2>2 DEF first
    <3> QED BY <3>1, <3>2
  <2>4. g.bufLen = h.bufLen
    BY <1>5, <2>3
  <2>5. FlattenSeq(g.state) = FlattenSeq(h.state)
    BY <1>1, <1>11, <2>3, CatEmpty
  <2>6. SubSeq(g.buf, 1, g.bufLen) = SubSeq(h.buf, 1, h.bufLen)
    <3>1. /\ h.buf \in Seq(Int) /\ Len(h.buf) = Block
      BY <1>1 DEF Blocks
    <3>2. g.buf = h.buf
      <4>1. g.buf \in Seq(Int) /\ Len(g.buf) = Block
        BY <1>8 DEF Blocks
      <4>2. Len(left) = 0
        BY <2>2
      <4>3. \A i \in 1..Block : Overwrite(h.buf, 0, left)[i] = h.buf[i]
        <5>1. DOMAIN h.buf = 1..Block
          BY <3>1, <1>0
        <5> QED BY <5>1, <4>2 DEF Overwrite
      <4>4. Len(g.buf) = Len(h.buf) /\ \A i \in 1..Len(h.buf) : g.buf[i] = h.buf[i]
        BY <1>5, <3>1, <4>1, <4>3
      <4> QED BY <3>1, <4>1, <4>4, SeqEqual
    <3> QED BY <3>2, <2>4
  <2>7. TakenIn(g) = TakenIn(h)
    BY <2>5, <2>6, Zenon DEF TakenIn
  <2>8. Cat(TakenIn(h), data) = TakenIn(h)
    <3>1. TakenIn(h) \in Seq(Int)
      BY HasherIs
    <3> QED BY <1>13, <3>1, CatEmpty
  <2> QED BY <2>7, <2>8, <1>5, <1>10 DEF g
<1> QED BY <1>12, <1>13

(* update: a hasher takes in its data. *)
LEMMA UpdateFits ==
    ASSUME NEW h \in Hashers, NEW data \in Seq(Int)
    PROVE  /\ Update(h, data) \in Hashers
           /\ TakenIn(Update(h, data)) = Cat(TakenIn(h), data)
           /\ Update(h, data).total = h.total + Len(data)
<1> DEFINE e == [h EXCEPT !.total = @ + Len(data)]
           t == TopUp(e, data)
<1>1. e \in Hashers /\ TakenIn(e) = TakenIn(h) /\ e.total = h.total + Len(data)
  <2>1. Len(data) \in Nat /\ h.total \in Nat
    BY HasherIs
  <2> QED BY <2>1 DEF Hashers, TakenIn
<1> HIDE DEF e
<1>2. /\ t.h \in Hashers /\ t.rest \in Seq(Int) /\ t.h.total = e.total
      /\ Cat(TakenIn(t.h), t.rest) = Cat(TakenIn(e), data)
      /\ t.h.bufLen = 0 \/ t.rest = <<>>
  BY <1>1, TopUpFits
<1>3. Update(h, data) = Absorb(t.h, t.rest)
  BY Zenon DEF Update, e
<1> HIDE DEF t
<1>4. /\ Absorb(t.h, t.rest) \in Hashers /\ Absorb(t.h, t.rest).total = t.h.total
      /\ TakenIn(Absorb(t.h, t.rest)) = Cat(TakenIn(t.h), t.rest)
  BY <1>2, AbsorbFits
<1> QED BY <1>1, <1>2, <1>3, <1>4, Zenon

------------------------------------------------------------------------------
(* Digest: the padding, and the invariant. *)

(* What finalize feeds to update. *)
Padding(bufLen, total) ==
    <<Mark>> \o Zeros(PadLen(bufLen) - 1) \o [i \in 1..LenBytes |-> LengthByte(total, i)]

(* The padding fills a block, or this and the next one, and less would not. *)
LEMMA PadLenIs ==
    ASSUME NEW r \in Nat, r < Block
    PROVE  /\ PadLen(r) \in 1..Block /\ LenBytes \in Nat
           /\ \/ r + PadLen(r) + LenBytes = Block
                 /\ \A k \in 0..(PadLen(r) - 2) : r + 1 + k + LenBytes \in 1..(Block - 1)
              \/ r + PadLen(r) + LenBytes = Block + Block
                 /\ \A k \in 0..(PadLen(r) - 2) :
                      r + 1 + k + LenBytes \in (Block + 1)..(Block + Block - 1)
<1>1. /\ Block \in Nat /\ LenBytes \in Nat /\ Block > 0 /\ LenBytes > 0 /\ LenBytes < Block
  BY DigestAssumption
<1>2. CASE r < Block - LenBytes
  <2>1. PadLen(r) = Block - LenBytes - r
    BY <1>2 DEF PadLen
  <2>2. PadLen(r) \in 1..Block /\ r + PadLen(r) + LenBytes = Block
    BY <1>1, <1>2, <2>1
  <2>3. ASSUME NEW k \in 0..(PadLen(r) - 2) PROVE r + 1 + k + LenBytes \in 1..(Block - 1)
    BY <1>1, <2>1
  <2> QED BY <1>1, <2>2, <2>3
<1>3. CASE ~(r < Block - LenBytes)
  <2>1. PadLen(r) = 2 * Block - LenBytes - r
    BY <1>3 DEF PadLen
  <2>2. PadLen(r) \in 1..Block /\ r + PadLen(r) + LenBytes = Block + Block
    BY <1>1, <1>3, <2>1
  <2>3. ASSUME NEW k \in 0..(PadLen(r) - 2)
        PROVE  r + 1 + k + LenBytes \in (Block + 1)..(Block + Block - 1)
    BY <1>1, <1>3, <2>1
  <2> QED BY <1>1, <2>2, <2>3
<1> QED BY <1>2, <1>3

(* In terms of the whole message: it comes out even with PadLen, and not    *)
(* with less.                                                               *)
LEMMA PadLenFills ==
    ASSUME NEW c \in Nat, NEW r \in Nat, r < Block
    PROVE  /\ \E q \in Nat : Times(c) + r + PadLen(r) + LenBytes = Times(q)
           /\ \A k \in 0..(PadLen(r) - 2) : (Times(c) + r + 1 + k + LenBytes) % Block # 0
<1>1. PadLen(r) \in 1..Block /\ LenBytes \in Nat /\ Block \in Nat /\ Times(c) \in Nat
  BY PadLenIs, TimesIs
<1>2. /\ c + 1 \in Nat /\ c + 2 \in Nat /\ Times(c + 1) = Times(c) + Block
      /\ Times(c + 2) = Times(c) + Block + Block
  <2>1. c + 1 \in Nat /\ c + 2 \in Nat /\ (c + 1) + 1 = c + 2
    OBVIOUS
  <2> QED BY <2>1, TimesIs
<1>3. CASE /\ r + PadLen(r) + LenBytes = Block
           /\ \A k \in 0..(PadLen(r) - 2) : r + 1 + k + LenBytes \in 1..(Block - 1)
  <2>1. Times(c) + r + PadLen(r) + LenBytes = Times(c + 1)
    BY <1>1, <1>2, <1>3
  <2>2. ASSUME NEW k \in 0..(PadLen(r) - 2)
        PROVE  (Times(c) + r + 1 + k + LenBytes) % Block # 0
    <3>1. PICK m \in Nat : m = r + 1 + k + LenBytes /\ m < Block /\ m > 0
      BY <1>1, <1>3
    <3>2. (Times(c) + m) % Block = m
      BY <3>1, DividedIs
    <3>3. Times(c) + r + 1 + k + LenBytes = Times(c) + m
      BY <1>1, <3>1
    <3> QED BY <3>1, <3>2, <3>3
  <2> QED BY <1>2, <2>1, <2>2
<1>4. CASE /\ r + PadLen(r) + LenBytes = Block + Block
           /\ \A k \in 0..(PadLen(r) - 2) :
                r + 1 + k + LenBytes \in (Block + 1)..(Block + Block - 1)
  <2>1. Times(c) + r + PadLen(r) + LenBytes = Times(c + 2)
    BY <1>1, <1>2, <1>4
  <2>2. ASSUME NEW k \in 0..(PadLen(r) - 2)
        PROVE  (Times(c) + r + 1 + k + LenBytes) % Block # 0
    <3>1. PICK m \in Nat : m + Block = r + 1 + k + LenBytes /\ m < Block /\ m > 0
      <4>1. r + 1 + k + LenBytes \in (Block + 1)..(Block + Block - 1)
        BY <1>4
      <4>2. PICK x \in Int : x = r + 1 + k + LenBytes - Block
        BY <1>1
      <4>3. x \in Nat /\ x + Block = r + 1 + k + LenBytes /\ x < Block /\ x > 0
        BY <1>1, <4>1, <4>2
      <4> QED BY <4>3
    <3>2. (Times(c + 1) + m) % Block = m
      BY <1>2, <3>1, DividedIs
    <3>3. Times(c) + r + 1 + k + LenBytes = Times(c + 1) + m
      BY <1>1, <1>2, <3>1
    <3> QED BY <3>1, <3>2, <3>3
  <2> QED BY <1>2, <2>1, <2>2
<1> QED BY <1>3, <1>4, PadLenIs

(* The zeros that the standard asks for are the ones that finalize writes.  *)
LEMMA ZerosAreRight ==
    ASSUME NEW msg \in Seq(Int), NEW c \in Nat, NEW r \in Nat, r < Block, Len(msg) = Times(c) + r
    PROVE  Padded(msg) = msg \o Padding(r, Len(msg))
<1> DEFINE P(n) == /\ (Len(msg) + 1 + n + LenBytes) % Block = 0
                   /\ \A k \in 0..(n - 1) : (Len(msg) + 1 + k + LenBytes) % Block # 0
           z == PadLen(r) - 1
           zeros == CHOOSE n \in 0..Block : P(n)
           end == [i \in 1..LenBytes |-> LengthByte(Len(msg), i)]
<1>1. PadLen(r) \in 1..Block /\ LenBytes \in Nat /\ Block \in Nat /\ Block > 0 /\ Times(c) \in Nat
  BY PadLenIs, TimesIs
<1>2. z \in 0..Block
  BY <1>1
<1>3. P(z)
  <2>1. PICK q \in Nat : Times(c) + r + PadLen(r) + LenBytes = Times(q)
    BY PadLenFills
  <2>2. (Times(q) + 0) % Block = 0 /\ Times(q) \in Nat
    BY <1>1, DividedIs, TimesIs
  <2>3. Len(msg) + 1 + z + LenBytes = Times(q) + 0
    BY <1>1, <2>1, <2>2
  <2>4. ASSUME NEW k \in 0..(z - 1) PROVE (Len(msg) + 1 + k + LenBytes) % Block # 0
    <3>1. k \in 0..(PadLen(r) - 2)
      BY <1>1
    <3> QED BY <3>1, PadLenFills
  <2> QED BY <2>2, <2>3, <2>4
<1>4. ASSUME NEW n \in 0..Block, P(n) PROVE n = z
  <2>1. n < z => (Len(msg) + 1 + n + LenBytes) % Block # 0
    BY <1>1, <1>3
  <2>2. z < n => (Len(msg) + 1 + z + LenBytes) % Block # 0
    BY <1>1, <1>4
  <2>3. (Len(msg) + 1 + n + LenBytes) % Block = 0 /\ (Len(msg) + 1 + z + LenBytes) % Block = 0
    BY <1>3, <1>4
  <2> QED BY <1>1, <1>2, <2>1, <2>2, <2>3
<1> HIDE DEF P
<1>5. zeros = z
  BY <1>2, <1>3, <1>4
<1>6. Padded(msg) = msg \o <<Mark>> \o Zeros(zeros) \o end
  BY Zenon DEF Padded, P
<1> HIDE DEF zeros
<1>7. Padded(msg) = msg \o <<Mark>> \o Zeros(z) \o end
  BY <1>5, <1>6, Zenon
<1>8. <<Mark>> \in Seq(Int) /\ Zeros(z) \in Seq(Int) /\ end \in Seq(Int)
  BY <1>1, <1>2 DEF Mark, Zeros, Zero, LengthByte
<1>9. PICK a \in Seq(Int), y \in Seq(Int), e \in Seq(Int) : a = <<Mark>> /\ y = Zeros(z) /\ e = end
  BY <1>8
<1> HIDE DEF z, end
<1>10. Cat(Cat(Cat(msg, a), y), e) = Cat(msg, Cat(Cat(a, y), e))
  <2>1. Cat(Cat(msg, a), y) = Cat(msg, Cat(a, y))
    BY CatAssoc
  <2>2. Cat(a, y) \in Seq(Int)
    BY CatType
  <2>3. Cat(Cat(msg, Cat(a, y)), e) = Cat(msg, Cat(Cat(a, y), e))
    BY <2>2, CatAssoc
  <2> QED BY <2>1, <2>3, Zenon
<1>11. Padding(r, Len(msg)) = Cat(Cat(a, y), e)
  BY <1>9, Zenon DEF Padding, Cat, z, end
<1>12. Padded(msg) = Cat(Cat(Cat(msg, a), y), e)
  BY <1>7, <1>9, Zenon DEF Cat
<1> QED BY <1>10, <1>11, <1>12, Zenon DEF Cat

(* The padding as a sequence of bytes. *)
LEMMA PaddingIs ==
    ASSUME NEW r \in Nat, r < Block, NEW total \in Nat
    PROVE  Padding(r, total) \in Seq(Int) /\ Len(Padding(r, total)) = PadLen(r) + LenBytes
<1> DEFINE end == [i \in 1..LenBytes |-> LengthByte(total, i)]
<1>1. PadLen(r) \in 1..Block /\ LenBytes \in Nat /\ Block \in Nat /\ PadLen(r) - 1 \in Nat
  BY PadLenIs, TimesIs
<1>2. <<Mark>> \in Seq(Int) /\ Len(<<Mark>>) = 1
  BY DEF Mark
<1>3. PICK n \in Nat : n = PadLen(r) - 1
  BY <1>1
<1>4. Zeros(n) \in Seq(Int) /\ Len(Zeros(n)) = n
  BY DEF Zeros, Zero
<1>5. end \in Seq(Int) /\ Len(end) = LenBytes
  BY <1>1 DEF LengthByte
<1>6. PICK a \in Seq(Int), y \in Seq(Int), e \in Seq(Int) : a = <<Mark>> /\ y = Zeros(n) /\ e = end
  BY <1>2, <1>4, <1>5
<1>7. Len(a) = 1 /\ Len(y) = n /\ Len(e) = LenBytes
  BY <1>2, <1>4, <1>5, <1>6, Zenon
<1> HIDE DEF end
<1>8. Cat(a, y) \in Seq(Int) /\ Len(Cat(a, y)) = 1 + n
  BY <1>7, CatType
<1>9. Cat(Cat(a, y), e) \in Seq(Int) /\ Len(Cat(Cat(a, y), e)) = (1 + n) + LenBytes
  BY <1>8, <1>7, CatType
<1>10. Padding(r, total) = Cat(Cat(a, y), e)
  BY <1>3, <1>6, Zenon DEF Padding, Cat, end
<1> QED BY <1>1, <1>3, <1>9, <1>10

(* A hasher that has taken in a message yields the blocks of the padded one. *)
LEMMA FinalizeIs ==
    ASSUME NEW h \in Hashers, NEW msg \in Seq(Int), TakenIn(h) = msg, h.total = Len(msg)
    PROVE  Finalize(h) = BlocksOf(Padded(msg))
<1> DEFINE r == h.bufLen
           c == Len(h.state)
           pad == Padding(r, h.total)
           e == [h EXCEPT !.total = 0]
           g == Update(e, pad)
           all == Padded(msg)
<1>1. /\ r \in Nat /\ r < Block /\ c \in Nat /\ Len(msg) = Times(c) + r /\ Block \in Nat
  <2>1. h.state \in Seq(Blocks(Int)) /\ r \in Nat /\ r < Block /\ Len(TakenIn(h)) = Times(c) + r
    BY HasherIs
  <2>2. c \in Nat
    BY <2>1
  <2> HIDE DEF r, c
  <2> QED BY <2>1, <2>2, TimesIs
<1>2. all = Cat(msg, pad)
  BY <1>1, ZerosAreRight, Zenon DEF Cat
<1>3. pad \in Seq(Int) /\ Len(pad) = PadLen(r) + LenBytes
  <2> HIDE DEF r
  <2> QED BY <1>1, PaddingIs
<1>4. e \in Hashers /\ TakenIn(e) = msg
  BY DEF Hashers, TakenIn
<1>5. Finalize(h) = g.state
  BY Zenon DEF Finalize, Padding
<1> HIDE DEF r, c, pad, e, all
<1>6. g \in Hashers /\ TakenIn(g) = all
  BY <1>2, <1>3, <1>4, UpdateFits
<1> HIDE DEF g
<1>7. /\ g.state \in Seq(Blocks(Int)) /\ g.bufLen \in Nat /\ g.bufLen < Block
      /\ all \in Seq(Int) /\ Len(all) = Times(Len(g.state)) + g.bufLen
      /\ g.buf \in Seq(Int)
  BY <1>6, HasherIs
<1>8. PICK q \in Nat : Len(all) = Times(q)
  <2>1. Len(all) = Times(c) + r + (PadLen(r) + LenBytes)
    BY <1>1, <1>2, <1>3, CatType
  <2>2. PICK q \in Nat : Times(c) + r + PadLen(r) + LenBytes = Times(q)
    BY <1>1, PadLenFills
  <2>3. PadLen(r) \in Nat /\ LenBytes \in Nat /\ Times(c) \in Nat
    <3>1. PadLen(r) \in 1..Block
      BY <1>1, PadLenIs
    <3>2. LenBytes \in Nat
      BY <1>1, PadLenIs
    <3> QED BY <1>1, <3>1, <3>2, TimesIs
  <2> QED BY <1>1, <2>1, <2>2, <2>3
<1>9. Len(g.state) = q /\ g.bufLen = 0 /\ Len(all) \div Block = q
  <2>1. PICK x \in Nat, y \in Nat : x = Len(g.state) /\ y = g.bufLen
    BY <1>7
  <2>2. (Times(x) + y) \div Block = x /\ (Times(x) + y) % Block = y
    BY <1>7, <2>1, DividedIs
  <2>3. (Times(q) + 0) \div Block = q /\ (Times(q) + 0) % Block = 0 /\ Times(q) \in Nat
    BY TimesIs, DividedIs
  <2>4. Times(x) + y = Times(q) + 0 /\ Len(all) = Times(q) + 0
    BY <1>7, <1>8, <2>1, <2>3
  <2> QED BY <2>1, <2>2, <2>3, <2>4
<1>10. FlattenSeq(g.state) = all
  <2>1. SubSeq(g.buf, 1, g.bufLen) = <<>>
    BY <1>7, <1>9
  <2>2. FlattenSeq(g.state) \in Seq(Int)
    BY <1>7, FlatBlocks
  <2>3. TakenIn(g) = Cat(FlattenSeq(g.state), <<>>)
    BY <2>1, Zenon DEF TakenIn
  <2>4. Cat(FlattenSeq(g.state), <<>>) = FlattenSeq(g.state)
    BY <2>2, CatEmpty
  <2> QED BY <1>6, <2>3, <2>4, Zenon
<1>11. Cut(FlattenSeq(g.state), Len(g.state)) = g.state
  BY <1>7, CutFlat
<1>12. BlocksOf(all) = Cut(all, q)
  BY <1>9, Zenon DEF BlocksOf, Cut
<1> QED BY <1>5, <1>9, <1>10, <1>11, <1>12, Zenon DEF all

(* The hasher has taken in what it was fed. *)
DigestInv ==
    /\ hasher \in Hashers
    /\ fed \in Seq(Nat)
    /\ TakenIn(hasher) = fed
    /\ hasher.total = Len(fed)

(* A new hasher has taken in nothing. *)
LEMMA DigestStarts == DigestInit => DigestInv
<1> SUFFICES ASSUME DigestInit PROVE DigestInv
  OBVIOUS
<1>1. hasher = New /\ fed = <<>>
  BY DEF DigestInit
<1>2. Block \in Nat /\ Block > 0
  BY TimesIs
<1>3. /\ New.state = <<>> /\ New.buf = [i \in 1..Block |-> Zero] /\ New.bufLen = 0 /\ New.total = 0
  BY DEF New
<1>4. New.buf \in Seq(Int) /\ New.buf \in Blocks(Int)
  BY <1>2, <1>3 DEF Blocks, Zero
<1>5. New \in Hashers
  <2>1. <<>> \in Seq(Blocks(Int)) /\ 0 \in 0..(Block - 1)
    BY <1>2
  <2> QED BY <2>1, <1>3, <1>4 DEF New, Hashers
<1>6. TakenIn(New) = <<>>
  <2>1. SubSeq(New.buf, 1, 0) = <<>>
    BY <1>4
  <2>2. TakenIn(New) = Cat(<<>>, <<>>)
    BY <1>3, <2>1, FlatEmpty, Zenon DEF TakenIn
  <2>3. <<>> \in Seq(Int)
    OBVIOUS
  <2> QED BY <2>2, <2>3, CatEmpty
<1>7. <<>> \in Seq(Nat) /\ Len(<<>>) = 0
  OBVIOUS
<1> QED BY <1>1, <1>3, <1>5, <1>6, <1>7, Zenon DEF DigestInv

(* A hasher that is fed takes in what it is fed, after what it had. *)
LEMMA DigestSteps ==
    DigestInv /\ [\E data \in Seq(Nat) : Feed(data)]_digestVars => DigestInv'
<1> SUFFICES ASSUME DigestInv, [\E data \in Seq(Nat) : Feed(data)]_digestVars PROVE DigestInv'
  OBVIOUS
<1>1. ASSUME NEW data \in Seq(Nat), Feed(data) PROVE DigestInv'
  <2>1. data \in Seq(Int) /\ hasher' = Update(hasher, data) /\ fed' = Cat(fed, data)
    BY <1>1 DEF Feed, Cat
  <2>2. /\ Update(hasher, data) \in Hashers
        /\ TakenIn(Update(hasher, data)) = Cat(TakenIn(hasher), data)
        /\ Update(hasher, data).total = hasher.total + Len(data)
    BY <2>1, UpdateFits DEF DigestInv
  <2>3. Cat(fed, data) \in Seq(Nat) /\ Len(Cat(fed, data)) = Len(fed) + Len(data)
    BY CatType DEF DigestInv
  <2>4. TakenIn(hasher) = fed /\ hasher.total = Len(fed)
    BY DEF DigestInv
  <2>5. TakenIn(hasher') = fed' /\ hasher'.total = Len(fed') /\ hasher' \in Hashers /\ fed' \in Seq(Nat)
    BY <2>1, <2>2, <2>3, <2>4, Zenon
  <2> QED BY <2>5 DEF DigestInv, TakenIn
<1>2. CASE UNCHANGED digestVars
  BY <1>2 DEF digestVars, DigestInv, TakenIn
<1> QED BY <1>1, <1>2

(* So when it is finalized, it has compressed the padded message. *)
LEMMA DigestFollows == DigestInv => DigestIsStandard
<1> SUFFICES ASSUME DigestInv PROVE DigestIsStandard
  OBVIOUS
<1>1. fed \in Seq(Int) /\ hasher \in Hashers /\ TakenIn(hasher) = fed /\ hasher.total = Len(fed)
  BY DEF DigestInv
<1>2. Finalize(hasher) = BlocksOf(Padded(fed))
  BY <1>1, FinalizeIs
<1> QED BY <1>2 DEF DigestIsStandard

(* crypto.rs:49 - DigestIsStandard: for every block size, every message and *)
(* every way of feeding it in pieces, "chunk boundaries never affect the    *)
(* digest", which is that of the padded message.                            *)
THEOREM DigestIsRight == DigestSpec => []DigestIsStandard
<1>1. DigestInit => DigestInv
  BY DigestStarts
<1>2. DigestInv /\ [\E data \in Seq(Nat) : Feed(data)]_digestVars => DigestInv'
  BY DigestSteps
<1>3. DigestInv => DigestIsStandard
  BY DigestFollows
<1> QED BY <1>1, <1>2, <1>3, PTL DEF DigestSpec
------------------------------------------------------------------------------
(* Calendar. *)

(* The year of an era that a day is in: 400 years that begin on 1 March     *)
(* and end on the leap day of the last.                                     *)
YearOf(doe) == (doe - doe \div 1460 + doe \div 36524 - doe \div 146096) \div 365
DayOf(doe) == doe - (365 * YearOf(doe) + YearOf(doe) \div 4 - YearOf(doe) \div 100)

(* A day of an era is in one of its 400 years, and is its 366th day only    *)
(* in a leap year.                                                          *)
LEMMA YearArithmetic ==
    ASSUME NEW doe \in Int, NEW a \in Int, NEW b \in Int, NEW c \in Int, NEW y \in Int,
           NEW f \in Int, NEW h \in Int,
           0 <= doe, doe <= 146096,
           1460 * a <= doe, doe < 1460 * a + 1460,
           36524 * b <= doe, doe < 36524 * b + 36524,
           146096 * c <= doe, doe < 146096 * c + 146096,
           365 * y <= doe - a + b - c, doe - a + b - c < 365 * y + 365,
           4 * f <= y, y < 4 * f + 4, 100 * h <= y, y < 100 * h + 100
    PROVE  LET d == doe - (365 * y + f - h)
           IN /\ 0 <= y /\ y <= 399 /\ 0 <= d /\ d <= 365
              /\ d = 365 => y = 4 * f + 3 /\ (y = 399 \/ y < 100 * h + 99)
<1>1. 0 <= y /\ y <= 399
  BY SMT
<1>2. 0 <= doe - (365 * y + f - h)
  BY SMT
<1>3. doe - (365 * y + f - h) <= 365
  BY SMT
<1>4. doe - (365 * y + f - h) = 365 => y = 4 * f + 3
  BY SMT
<1>5. doe - (365 * y + f - h) = 365 => y = 399 \/ y < 100 * h + 99
  BY SMT
<1> QED BY <1>1, <1>2, <1>3, <1>4, <1>5, SMT

(* Quotients, as bounds. *)
LEMMA DivBy4 ==
    ASSUME NEW x \in Int
    PROVE  x \div 4 \in Int /\ 4 * (x \div 4) <= x /\ x < 4 * (x \div 4) + 4
BY SMT

LEMMA DivBy100 ==
    ASSUME NEW x \in Int
    PROVE  x \div 100 \in Int /\ 100 * (x \div 100) <= x /\ x < 100 * (x \div 100) + 100
BY SMT

LEMMA DivBy365 ==
    ASSUME NEW x \in Int
    PROVE  x \div 365 \in Int /\ 365 * (x \div 365) <= x /\ x < 365 * (x \div 365) + 365
BY SMT

LEMMA DivBy1460 ==
    ASSUME NEW x \in Int
    PROVE  x \div 1460 \in Int /\ 1460 * (x \div 1460) <= x /\ x < 1460 * (x \div 1460) + 1460
BY SMT

LEMMA DivBy36524 ==
    ASSUME NEW x \in Int
    PROVE  x \div 36524 \in Int /\ 36524 * (x \div 36524) <= x /\ x < 36524 * (x \div 36524) + 36524
BY SMT

LEMMA DivBy146096 ==
    ASSUME NEW x \in Int
    PROVE  x \div 146096 \in Int /\ 146096 * (x \div 146096) <= x /\ x < 146096 * (x \div 146096) + 146096
BY SMT

LEMMA YearIs ==
    ASSUME NEW doe \in Int, 0 <= doe, doe <= 146096
    PROVE  /\ YearOf(doe) \in Int /\ 0 <= YearOf(doe) /\ YearOf(doe) <= 399
           /\ DayOf(doe) \in Int /\ 0 <= DayOf(doe) /\ DayOf(doe) <= 365
           /\ DayOf(doe) = 365 => /\ (YearOf(doe) + 1) % 4 = 0
                                  /\ (YearOf(doe) + 1) % 100 = 0 => YearOf(doe) = 399
           /\ doe = DayOf(doe) + 365 * YearOf(doe) + (YearOf(doe) \div 4) - (YearOf(doe) \div 100)
<1> DEFINE a == doe \div 1460
           b == doe \div 36524
           c == doe \div 146096
           y == YearOf(doe)
           f == y \div 4
           h == y \div 100
           d == DayOf(doe)
<1>1. a \in Int /\ 1460 * a <= doe /\ doe < 1460 * a + 1460
  BY DivBy1460, SMT
<1>2. b \in Int /\ 36524 * b <= doe /\ doe < 36524 * b + 36524
  BY DivBy36524, SMT
<1>3. c \in Int /\ 146096 * c <= doe /\ doe < 146096 * c + 146096
  BY DivBy146096, SMT
<1>4. y = (doe - a + b - c) \div 365
  BY SMT DEF YearOf
<1> HIDE DEF a, b, c
<1>5. y \in Int /\ 365 * y <= doe - a + b - c /\ doe - a + b - c < 365 * y + 365
  <2>1. doe - a + b - c \in Int
    BY <1>1, <1>2, <1>3, SMT
  <2> QED BY <2>1, <1>4, DivBy365, SMT
<1> HIDE DEF y
<1>6. f \in Int /\ 4 * f <= y /\ y < 4 * f + 4
  BY <1>5, DivBy4, SMT
<1>7. h \in Int /\ 100 * h <= y /\ y < 100 * h + 100
  BY <1>5, DivBy100, SMT
<1>8. d = doe - (365 * y + f - h)
  BY SMT DEF DayOf, y
<1> HIDE DEF f, h, d
<1>9. /\ 0 <= y /\ y <= 399 /\ 0 <= d /\ d <= 365
      /\ d = 365 => y = 4 * f + 3 /\ (y = 399 \/ y < 100 * h + 99)
  <2>1. LET e == doe - (365 * y + f - h)
        IN /\ 0 <= y /\ y <= 399 /\ 0 <= e /\ e <= 365
           /\ e = 365 => y = 4 * f + 3 /\ (y = 399 \/ y < 100 * h + 99)
    BY <1>1, <1>2, <1>3, <1>5, <1>6, <1>7, YearArithmetic, SMT
  <2> QED BY <2>1, <1>8, SMT
<1>10. d = 365 => (y + 1) % 4 = 0
  BY <1>5, <1>6, <1>9, SMT
<1>11. d = 365 /\ (y + 1) % 100 = 0 => y = 399
  <2> SUFFICES ASSUME (y + 1) % 100 = 0, y < 100 * h + 99 PROVE FALSE
    BY <1>9, SMT
  <2> QED BY <1>5, <1>7, SMT
<1>12. d \in Int /\ doe = d + 365 * y + f - h
  BY <1>5, <1>6, <1>7, <1>8, SMT
<1> QED BY <1>5, <1>9, <1>10, <1>11, <1>12, SMT DEF y, d, f, h

LEMMA YearRange ==
    ASSUME NEW doe \in Int, 0 <= doe, doe <= 146096
    PROVE  /\ YearOf(doe) \in 0..399 /\ DayOf(doe) \in 0..365
           /\ (YearOf(doe) \div 4) - (YearOf(doe) \div 100) \in Int
<1>1. /\ YearOf(doe) \in Int /\ 0 <= YearOf(doe) /\ YearOf(doe) <= 399
      /\ DayOf(doe) \in Int /\ 0 <= DayOf(doe) /\ DayOf(doe) <= 365
  BY YearIs, SMT
<1> QED BY <1>1, SMT

(* March is month 0. *)
MonthOf(doy) == (5 * doy + 2) \div 153
FirstOf(mp) == (153 * mp + 2) \div 5
LengthOf(mp) == CASE mp \in {1, 3, 6, 8} -> 30 [] mp = 11 -> 29 [] OTHER -> 31

LEMMA MonthIs ==
    ASSUME NEW doy \in 0..365
    PROVE  /\ MonthOf(doy) \in 0..11
           /\ doy - FirstOf(MonthOf(doy)) + 1 \in 1..LengthOf(MonthOf(doy))
           /\ MonthOf(doy) = 11 /\ doy - FirstOf(MonthOf(doy)) + 1 = 29 => doy = 365
BY SMTT(60) DEF MonthOf, FirstOf, LengthOf

(* Leap days, counted at the end of February. *)
LEMMA LeapsAre ==
    ASSUME NEW year \in Nat
    PROVE  LeapsBefore(year) + (IF IsLeap(year) THEN 1 ELSE 0)
             = year \div 4 - year \div 100 + year \div 400
BY SMTT(60) DEF LeapsBefore, IsLeap

(* The days of a year before each of its months. *)
Leap(year) == IF IsLeap(year) THEN 1 ELSE 0
Before(year, m) ==
    CASE m = 1 -> 0 [] m = 2 -> 31 [] m = 3 -> 59 + Leap(year) [] m = 4 -> 90 + Leap(year)
      [] m = 5 -> 120 + Leap(year) [] m = 6 -> 151 + Leap(year) [] m = 7 -> 181 + Leap(year)
      [] m = 8 -> 212 + Leap(year) [] m = 9 -> 243 + Leap(year) [] m = 10 -> 273 + Leap(year)
      [] m = 11 -> 304 + Leap(year) [] OTHER -> 334 + Leap(year)

LEMMA BeforeIs ==
    ASSUME NEW year \in Nat, NEW m \in 1..12
    PROVE  /\ Before(year, m) \in Nat
           /\ Before(year, m) = IF m = 1 THEN 0 ELSE Before(year, m - 1) + DaysOf(year, m - 1)
BY SMTT(60) DEF Before, DaysOf, Leap

SumIs(year, f) ==
    f = [m \in 1..12 |-> IF m = 1 THEN 0 ELSE f[m - 1] + DaysOf(year, m - 1)]

(* DaysBefore sums the months by a recursive function: it is Before. *)
LEMMA SumExists ==
    ASSUME NEW year \in Nat
    PROVE  SumIs(year, [m \in 1..12 |-> Before(year, m)])
<1> DEFINE f == [m \in 1..12 |-> Before(year, m)]
<1>1. ASSUME NEW m \in 1..12
      PROVE  f[m] = IF m = 1 THEN 0 ELSE f[m - 1] + DaysOf(year, m - 1)
  <2>1. Before(year, m) = IF m = 1 THEN 0 ELSE Before(year, m - 1) + DaysOf(year, m - 1)
    BY BeforeIs
  <2>2. m # 1 => m - 1 \in 1..12
    OBVIOUS
  <2> QED BY <2>1, <2>2
<1>2. f = [m \in 1..12 |-> f[m]]
  OBVIOUS
<1> HIDE DEF f
<1>3. f = [m \in 1..12 |-> IF m = 1 THEN 0 ELSE f[m - 1] + DaysOf(year, m - 1)]
  BY <1>1, <1>2
<1> QED BY <1>3 DEF SumIs, f

LEMMA SumIsUnique ==
    ASSUME NEW year \in Nat, NEW f, SumIs(year, f), NEW k \in 1..12
    PROVE  f[k] = Before(year, k)
<1>1. \A m \in 1..12 : f[m] = IF m = 1 THEN 0 ELSE f[m - 1] + DaysOf(year, m - 1)
  <2>1. f = [m \in 1..12 |-> IF m = 1 THEN 0 ELSE f[m - 1] + DaysOf(year, m - 1)]
    BY DEF SumIs
  <2> QED BY <2>1
<1>2. f[1] = Before(year, 1)
  <2>1. f[1] = 0
    BY <1>1
  <2>2. Before(year, 1) = 0
    BY DEF Before
  <2> QED BY <2>1, <2>2
<1>3. ASSUME NEW m \in 1..11, f[m] = Before(year, m)
      PROVE  f[m + 1] = Before(year, m + 1)
  <2>1. m + 1 \in 1..12 /\ m + 1 # 1 /\ (m + 1) - 1 = m
    OBVIOUS
  <2>2. f[m + 1] = f[m] + DaysOf(year, m)
    BY <1>1, <2>1
  <2>3. Before(year, m + 1) = Before(year, m) + DaysOf(year, m)
    BY <2>1, BeforeIs
  <2> QED BY <1>3, <2>2, <2>3
<1>4. f[2] = Before(year, 2) BY <1>2, <1>3
<1>5. f[3] = Before(year, 3) BY <1>4, <1>3
<1>6. f[4] = Before(year, 4) BY <1>5, <1>3
<1>7. f[5] = Before(year, 5) BY <1>6, <1>3
<1>8. f[6] = Before(year, 6) BY <1>7, <1>3
<1>9. f[7] = Before(year, 7) BY <1>8, <1>3
<1>10. f[8] = Before(year, 8) BY <1>9, <1>3
<1>11. f[9] = Before(year, 9) BY <1>10, <1>3
<1>12. f[10] = Before(year, 10) BY <1>11, <1>3
<1>13. f[11] = Before(year, 11) BY <1>12, <1>3
<1>14. f[12] = Before(year, 12) BY <1>13, <1>3
<1>15. k \in {1, 2, 3, 4, 5, 6, 7, 8, 9, 10, 11, 12}
  OBVIOUS
<1> QED BY <1>2, <1>4, <1>5, <1>6, <1>7, <1>8, <1>9, <1>10, <1>11, <1>12, <1>13, <1>14, <1>15

LEMMA DaysBeforeIs ==
    ASSUME NEW date, date.year \in Nat, date.month \in 1..12
    PROVE  DaysBefore(date) = 365 * (date.year - 1970) + LeapsBefore(date.year) - LeapsBefore(1970)
                                + Before(date.year, date.month) + date.day - 1
<1> DEFINE sum == CHOOSE f : SumIs(date.year, f)
<1>1. SumIs(date.year, sum)
  <2>1. \E f : SumIs(date.year, f)
    <3> WITNESS [m \in 1..12 |-> Before(date.year, m)]
    <3> QED BY SumExists, Zenon
  <2> QED BY <2>1, Zenon
<1>2. DaysBefore(date) = 365 * (date.year - 1970) + LeapsBefore(date.year) - LeapsBefore(1970)
                           + sum[date.month] + date.day - 1
  BY SMT DEF DaysBefore, SumIs
<1> HIDE DEF sum
<1>3. sum[date.month] = Before(date.year, date.month)
  BY <1>1, SumIsUnique, SMT
<1> QED BY <1>2, <1>3, SMT

(* The first day of a month, counted from 1 March and from 1 January. *)
LEMMA FirstIs ==
    /\ FirstOf(0) = 0 /\ FirstOf(1) = 31 /\ FirstOf(2) = 61 /\ FirstOf(3) = 92
    /\ FirstOf(4) = 122 /\ FirstOf(5) = 153 /\ FirstOf(6) = 184 /\ FirstOf(7) = 214
    /\ FirstOf(8) = 245 /\ FirstOf(9) = 275 /\ FirstOf(10) = 306 /\ FirstOf(11) = 337
BY SMT DEF FirstOf

LEMMA MonthFirst ==
    ASSUME NEW year \in Nat, NEW mp \in 0..11
    PROVE  LET m == IF mp < 10 THEN mp + 3 ELSE mp - 9
           IN /\ m \in 1..12
              /\ Before(year, m) = IF m > 2 THEN 59 + Leap(year) + FirstOf(mp) ELSE FirstOf(mp) - 306
<1>1. Leap(year) \in Int
  BY SMT DEF Leap
<1>2. mp \in {0, 1, 2, 3, 4, 5, 6, 7, 8, 9, 10, 11}
  BY SMT
<1> QED BY <1>1, <1>2, FirstIs, SMT DEF Before

(* The date that a day of an era is. *)
YearIn(era, doe) ==
    IF MonthOf(DayOf(doe)) < 10 THEN YearOf(doe) + era * 400 ELSE YearOf(doe) + era * 400 + 1
MonthIn(doe) ==
    IF MonthOf(DayOf(doe)) < 10 THEN MonthOf(DayOf(doe)) + 3 ELSE MonthOf(DayOf(doe)) - 9
DayIn(doe) == DayOf(doe) - FirstOf(MonthOf(DayOf(doe))) + 1

LEMMA CivilIs ==
    ASSUME NEW days \in Nat
    PROVE  LET era == (days + 719468) \div 146097
               doe == (days + 719468) % 146097
           IN CivilFromDays(days) = [year |-> YearIn(era, doe), month |-> MonthIn(doe), day |-> DayIn(doe)]
<1> DEFINE era == (days + 719468) \div 146097
           doe == (days + 719468) % 146097
           mp == MonthOf(DayOf(doe))
           m == IF mp < 10 THEN mp + 3 ELSE mp - 9
           y == YearOf(doe) + era * 400
<1>1. CivilFromDays(days) = [year |-> IF m <= 2 THEN y + 1 ELSE y, month |-> m,
                             day |-> DayOf(doe) - FirstOf(mp) + 1]
  BY SMT DEF CivilFromDays, YearOf, DayOf, MonthOf, FirstOf
<1>2. doe \in Int /\ 0 <= doe /\ doe <= 146096
  BY SMT
<1> HIDE DEF doe, era
<1>3. DayOf(doe) \in 0..365
  BY <1>2, YearRange, SMT
<1>4. mp \in 0..11
  BY <1>3, MonthIs, SMT
<1>5. m <= 2 <=> ~(mp < 10)
  BY <1>4, SMT
<1> QED BY <1>1, <1>5, SMT DEF YearIn, MonthIn, DayIn, era, doe

(* The leap days before a year of an era that begins in March of y. *)
LEMMA EraLeaps ==
    ASSUME NEW era \in Nat, NEW yoe \in 0..399
    PROVE  LET y == yoe + era * 400
               n == 97 * era + (yoe \div 4) - (yoe \div 100)
           IN /\ LeapsBefore(y) + Leap(y) = n
              /\ LeapsBefore(y + 1) = n
<1> DEFINE y == yoe + era * 400
           n == 97 * era + (yoe \div 4) - (yoe \div 100)
<1>1. y \in Nat
  BY SMT
<1>2. (y \div 4) - (y \div 100) + (y \div 400) = n
  <2>1. y \div 4 = 100 * era + (yoe \div 4)
    BY SMT
  <2>2. y \div 100 = 4 * era + (yoe \div 100)
    BY SMT
  <2>3. y \div 400 = era
    BY SMT
  <2>4. yoe \div 4 \in Int /\ yoe \div 100 \in Int
    BY SMT
  <2> HIDE DEF y
  <2> QED BY <2>1, <2>2, <2>3, <2>4, SMT
<1> HIDE DEF y, n
<1>3. LeapsBefore(y) + Leap(y) = y \div 4 - y \div 100 + y \div 400
  <2>1. LeapsBefore(y) + (IF IsLeap(y) THEN 1 ELSE 0) = y \div 4 - y \div 100 + y \div 400
    BY <1>1, LeapsAre, SMT
  <2> QED BY <2>1, SMT DEF Leap
<1>4. LeapsBefore(y + 1) = y \div 4 - y \div 100 + y \div 400
  BY <1>1, SMT DEF LeapsBefore
<1>5. LeapsBefore(y) + Leap(y) = n /\ LeapsBefore(y + 1) = n
  BY <1>2, <1>3, <1>4, SMT
<1> QED BY <1>5, SMT DEF y, n

LEMMA DayInIsOfMonth ==
    ASSUME NEW era \in Nat, NEW doe \in Int, 0 <= doe, doe <= 146096
    PROVE  /\ YearIn(era, doe) \in Nat /\ MonthIn(doe) \in 1..12
           /\ DayIn(doe) \in 1..DaysOf(YearIn(era, doe), MonthIn(doe))
<1> DEFINE yoe == YearOf(doe)
           doy == DayOf(doe)
           mp == MonthOf(doy)
           year == YearIn(era, doe)
           m == MonthIn(doe)
           day == DayIn(doe)
<1>1. /\ yoe \in 0..399 /\ doy \in 0..365
      /\ doy = 365 => (yoe + 1) % 4 = 0 /\ ((yoe + 1) % 100 = 0 => yoe = 399)
  <2>1. yoe \in 0..399 /\ doy \in 0..365
    BY YearRange, SMT
  <2>2. doy = 365 => (yoe + 1) % 4 = 0 /\ ((yoe + 1) % 100 = 0 => yoe = 399)
    BY YearIs, SMT
  <2> QED BY <2>1, <2>2
<1>2. /\ mp \in 0..11 /\ day \in 1..LengthOf(mp)
      /\ mp = 11 /\ day = 29 => doy = 365
  BY <1>1, MonthIs, SMT DEF DayIn
<1>3. m = IF mp < 10 THEN mp + 3 ELSE mp - 9
  BY SMT DEF MonthIn
<1>4. year = IF mp < 10 THEN yoe + era * 400 ELSE yoe + era * 400 + 1
  BY SMT DEF YearIn
<1> HIDE DEF yoe, doy, mp, year, m, day
<1>5. year \in Nat /\ m \in 1..12
  BY <1>1, <1>2, <1>3, <1>4, SMT
<1>6. CASE mp # 11
  <2>1. DaysOf(year, m) = LengthOf(mp)
    BY <1>2, <1>3, <1>6, SMT DEF DaysOf, LengthOf
  <2> QED BY <1>2, <1>5, <2>1, SMT DEF year, m, day
<1>7. CASE mp = 11
  <2>1. m = 2 /\ day \in 1..29 /\ year = (yoe + 1) + 400 * era
    BY <1>1, <1>2, <1>3, <1>4, <1>7, SMT DEF LengthOf
  <2>2. DaysOf(year, m) = IF IsLeap(year) THEN 29 ELSE 28
    BY <2>1, SMT DEF DaysOf
  <2>3. day = 29 => IsLeap(year)
    <3> SUFFICES ASSUME day = 29 PROVE IsLeap(year)
      OBVIOUS
    <3>1. (yoe + 1) % 4 = 0 /\ ((yoe + 1) % 100 = 0 => yoe = 399)
      BY <1>1, <1>2, <1>7, SMT
    <3>2. year % 4 = 0
      BY <1>1, <2>1, <3>1, SMT
    <3>3. year % 100 = (yoe + 1) % 100
      BY <1>1, <2>1, SMT
    <3>4. yoe = 399 => year % 400 = 0
      BY <2>1, SMT
    <3> QED BY <3>1, <3>2, <3>3, <3>4, SMT DEF IsLeap
  <2>4. day \in 1..DaysOf(year, m)
    BY <2>1, <2>2, <2>3, SMT
  <2> QED BY <1>5, <2>4, SMT DEF year, m, day
<1> QED BY <1>6, <1>7

(* A day of an era is as many days after the era's first as its date says.  *)
LEMMA DaysBeforeIn ==
    ASSUME NEW era \in Nat, NEW doe \in Int, 0 <= doe, doe <= 146096
    PROVE  DaysBefore([year |-> YearIn(era, doe), month |-> MonthIn(doe), day |-> DayIn(doe)])
             = 146097 * era + doe - 719468
<1> DEFINE yoe == YearOf(doe)
           doy == DayOf(doe)
           mp == MonthOf(doy)
           first == FirstOf(mp)
           ofEra == (yoe \div 4) - (yoe \div 100)
           year == YearIn(era, doe)
           m == MonthIn(doe)
           day == DayIn(doe)
           leaps == LeapsBefore(year)
           before == Before(year, m)
           y == yoe + era * 400
<1>1. /\ yoe \in 0..399 /\ doy \in 0..365 /\ ofEra \in Int
      /\ doe = doy + 365 * yoe + ofEra
  <2>1. yoe \in 0..399 /\ doy \in 0..365 /\ ofEra \in Int
    BY YearRange, SMT
  <2>2. doe = doy + 365 * yoe + (yoe \div 4) - (yoe \div 100)
    BY YearIs, SMT
  <2> HIDE DEF yoe, doy
  <2>3. yoe \div 4 \in Int /\ yoe \div 100 \in Int
    BY <2>1, SMT
  <2>4. doe = doy + 365 * yoe + ofEra
    BY <2>1, <2>2, <2>3, SMT
  <2> QED BY <2>1, <2>4
<1>2. mp \in 0..11
  BY <1>1, MonthIs, SMT
<1>3. first \in Int
  BY <1>2, SMT DEF FirstOf
<1>4. day = doy - first + 1
  BY SMT DEF DayIn
<1>5. m = IF mp < 10 THEN mp + 3 ELSE mp - 9
  BY SMT DEF MonthIn
<1>6. year = IF mp < 10 THEN y ELSE y + 1
  BY SMT DEF YearIn
<1>7. year \in Nat /\ m \in 1..12
  BY DayInIsOfMonth, SMT
<1>8. DaysBefore([year |-> year, month |-> m, day |-> day])
        = 365 * (year - 1970) + leaps - LeapsBefore(1970) + before + day - 1
  BY <1>7, DaysBeforeIs, SMT
<1>9. LeapsBefore(1970) = 477
  BY SMT DEF LeapsBefore
<1>10. LeapsBefore(y) + Leap(y) = 97 * era + ofEra /\ LeapsBefore(y + 1) = 97 * era + ofEra
  BY <1>1, EraLeaps, SMT
<1>11. before = IF m > 2 THEN 59 + Leap(year) + first ELSE first - 306
  BY <1>2, <1>5, <1>7, MonthFirst, SMT
<1>12. leaps \in Int /\ Leap(year) \in Int /\ y \in Int
  BY <1>1, <1>7, SMT DEF LeapsBefore, Leap
<1>13. IF mp < 10 THEN leaps + Leap(year) = 97 * era + ofEra ELSE leaps = 97 * era + ofEra
  BY <1>6, <1>10, SMT
<1> HIDE DEF yoe, doy, mp, first, ofEra, m, day, leaps, before, year
<1>14. CASE mp < 10
  <2>1. before = 59 + Leap(year) + first
    BY <1>2, <1>5, <1>11, <1>14, SMT
  <2>2. year = yoe + era * 400
    BY <1>6, <1>14, SMT
  <2>3. leaps + Leap(year) = 97 * era + ofEra
    BY <1>13, <1>14, SMT
  <2>4. 365 * (year - 1970) + leaps - 477 + before + day - 1 = 146097 * era + doe - 719468
    BY <1>1, <1>3, <1>4, <1>12, <2>1, <2>2, <2>3, SMT
  <2> QED BY <1>8, <1>9, <2>4, SMT DEF year, m, day
<1>15. CASE ~(mp < 10)
  <2>1. before = first - 306
    BY <1>2, <1>5, <1>11, <1>15, SMT
  <2>2. year = yoe + era * 400 + 1
    BY <1>6, <1>15, SMT
  <2>3. leaps = 97 * era + ofEra
    BY <1>13, <1>15, SMT
  <2>4. 365 * (year - 1970) + leaps - 477 + before + day - 1 = 146097 * era + doe - 719468
    BY <1>1, <1>3, <1>4, <1>12, <2>1, <2>2, <2>3, SMT
  <2> QED BY <1>8, <1>9, <2>4, SMT DEF year, m, day
<1> QED BY <1>14, <1>15

(* http.rs, civil_from_days - every day from 1970 on is given its one date  *)
(* of the Gregorian calendar.                                               *)
THEOREM EveryDayIsRight == \A days \in Nat : DayIsRight(days)
<1> SUFFICES ASSUME NEW days \in Nat PROVE DayIsRight(days)
  OBVIOUS
<1> DEFINE era == (days + 719468) \div 146097
           doe == (days + 719468) % 146097
           date == [year |-> YearIn(era, doe), month |-> MonthIn(doe), day |-> DayIn(doe)]
<1>1. era \in Nat /\ doe \in Int /\ 0 <= doe /\ doe <= 146096
  BY SMT
<1>2. 146097 * era + doe - 719468 = days
  BY SMT
<1>3. CivilFromDays(days) = date
  BY CivilIs, SMT
<1> HIDE DEF era, doe
<1>4. IsDate(date)
  BY <1>1, DayInIsOfMonth, SMT DEF IsDate
<1>5. DaysBefore(date) = days
  BY <1>1, <1>2, DaysBeforeIn, SMT
<1> QED BY <1>3, <1>4, <1>5, SMT DEF DayIsRight

(* http.rs, http_date - the date, the weekday and the time of day of every  *)
(* second are right.                                                        *)
THEOREM EverySecondIsRight == \A secs \in Nat : DateIsRight(secs)
<1> SUFFICES ASSUME NEW secs \in Nat PROVE DateIsRight(secs)
  OBVIOUS
<1> DEFINE days == secs \div 86400
           rem == secs % 86400
           date == CivilFromDays(days)
           weekday == (days + 4) % 7
           hour == rem \div 3600
           min == (rem % 3600) \div 60
           sec == rem % 60
<1>1. days \in Nat /\ rem \in Int /\ 0 <= rem /\ rem < 86400 /\ secs = 86400 * days + rem
  BY SMT
<1>2. HttpDate(secs) = [date |-> date, weekday |-> weekday, time |-> <<hour, min, sec>>]
  BY SMT DEF HttpDate
<1> HIDE DEF days, rem
<1>3. IsDate(date) /\ DaysBefore(date) = days
  BY <1>1, EveryDayIsRight, SMT DEF DayIsRight
<1>4. hour \in 0..23 /\ min \in 0..59 /\ sec \in 0..59 /\ 60 * (60 * hour + min) + sec = rem
  BY <1>1, SMT
<1>5. weekday \in Int /\ (weekday - 4 - days) % 7 = 0
  BY <1>1, SMT
<1> HIDE DEF date, weekday, hour, min, sec
<1>6. secs - 60 * (60 * hour + min) - sec = 86400 * days
  BY <1>1, <1>4, SMT
<1> QED BY <1>2, <1>3, <1>4, <1>5, <1>6, SMT DEF DateIsRight
==============================================================================

--------------------------------- MODULE Kdf ---------------------------------
(***************************************************************************)
(* What crypto.rs and kdf.rs build from the hash: HMAC, PBKDF2 and scrypt.  *)
(*                                                                          *)
(* Compression is any function of the blocks (Chain), and so is, for what   *)
(* is built on it, Salsa20/8 (Core), which is compared with its definition  *)
(* by itself.  Words and bytes have any width.  The rest is as in the code: *)
(* what is hashed, in what order, and which word goes where.  Bytes and     *)
(* words are numbered from 1.                                               *)
(***************************************************************************)
EXTENDS Digest

LOCAL INSTANCE Bitwise

CONSTANTS DigestLen,   \* SHA256_DIGEST_LEN
          IPad, OPad,  \* 0x36 and 0x5c, as far as a byte has room
          ByteBits, WordBytes,
          Chain(_),    \* the digest after some blocks
          CoreWords,   \* the words that one call of Salsa changes: 16
          Core(_),     \* what it makes of them
          UsizeMax     \* the largest size in bytes that can be computed with

ASSUME KdfAssumption ==
    /\ {DigestLen, ByteBits, WordBytes, CoreWords} \subseteq Nat \ {0}
    /\ DigestLen <= Block /\ UsizeMax \in Nat
    /\ {IPad, OPad} \subseteq 0..(2^ByteBits - 1)

WordBits == ByteBits * WordBytes
Words == 0..(2^WordBits - 1)

XorWith(s, t) == <<>> \o [i \in DOMAIN s |-> s[i] ^^ t[i]]

Word(bytes, w) ==  \* from_le_bytes
    FoldLeft(LAMBDA acc, k : acc * 2^ByteBits + bytes[w * WordBytes - k],
             0, [k \in 1..WordBytes |-> k - 1])
WordsOf(bytes) == <<>> \o [w \in 1..(Len(bytes) \div WordBytes) |-> Word(bytes, w)]
BytesOf(words) ==  \* to_le_bytes
    <<>> \o [i \in 1..(Len(words) * WordBytes) |->
               LET k == (i - 1) % WordBytes
               IN (words[(i - 1) \div WordBytes + 1] \div 2^(ByteBits * k)) % 2^ByteBits]
BigEndian(n) ==    \* to_be_bytes, of four
    <<>> \o [i \in 1..4 |-> (n \div 2^(ByteBits * (4 - i))) % 2^ByteBits]

UpTo(n) == [i \in 1..n |-> i - 1]
Slice(s, i, len) == SubSeq(s, i * len + 1, (i + 1) * len)
------------------------------------------------------------------------------
Sha256(data) == Chain(Finalize(Update(New, data)))

(* hmac_sha256 *)
Hmac[key \in Seq(Int), msg \in Seq(Int)] ==
    LET short == IF Len(key) > Block THEN Sha256(key) ELSE key
        k == short \o Zeros(Block - Len(short))
        pad(byte) == XorWith([i \in 1..Block |-> byte], k)
        inner == Chain(Finalize(Update(Update(New, pad(IPad)), msg)))
    IN Chain(Finalize(Update(Update(New, pad(OPad)), inner)))

(* pbkdf2_hmac_sha256: what block i contributes, and all of them. *)
Iterated(password, salt, iterations, i) ==
    LET first == Hmac[password, salt \o BigEndian(i)]
        again(acc, n) == LET u == Hmac[password, acc.u]
                         IN [u |-> u, t |-> XorWith(acc.t, u)]
    IN FoldLeft(again, [u |-> first, t |-> first], UpTo(iterations - 1)).t

Pbkdf2[password \in Seq(Int), salt \in Seq(Int), iterations \in Nat, dkLen \in Nat] ==
    LET its == IF iterations < 1 THEN 1 ELSE iterations
        grow(out, i) ==
            out \o SubSeq(Iterated(password, salt, its, i + 1), 1,
                          Shorter(dkLen - Len(out), DigestLen))
    IN FoldLeft(grow, <<>>, UpTo((dkLen + DigestLen - 1) \div DigestLen))

(* salsa20_8: the word that changes, the two that are added, the rotation. *)
Rounds ==
    << <<4, 0, 12, 7>>, <<8, 4, 0, 9>>, <<12, 8, 4, 13>>, <<0, 12, 8, 18>>,
       <<9, 5, 1, 7>>, <<13, 9, 5, 9>>, <<1, 13, 9, 13>>, <<5, 1, 13, 18>>,
       <<14, 10, 6, 7>>, <<2, 14, 10, 9>>, <<6, 2, 14, 13>>, <<10, 6, 2, 18>>,
       <<3, 15, 11, 7>>, <<7, 3, 15, 9>>, <<11, 7, 3, 13>>, <<15, 11, 7, 18>>,
       <<1, 0, 3, 7>>, <<2, 1, 0, 9>>, <<3, 2, 1, 13>>, <<0, 3, 2, 18>>,
       <<6, 5, 4, 7>>, <<7, 6, 5, 9>>, <<4, 7, 6, 13>>, <<5, 4, 7, 18>>,
       <<11, 10, 9, 7>>, <<8, 11, 10, 9>>, <<9, 8, 11, 13>>, <<10, 9, 8, 18>>,
       <<12, 15, 14, 7>>, <<13, 12, 15, 9>>, <<14, 13, 12, 13>>, <<15, 14, 13, 18>> >>

Sum(a, b) == (a + b) % 2^WordBits
Rotate(x, n) ==
    LET k == n % WordBits IN ((x * 2^k) % 2^WordBits) + x \div 2^(WordBits - k)

DoubleRound[t \in Seq(Words)] ==
    LET step(u, q) ==
            [u EXCEPT ![q[1] + 1] = @ ^^ Rotate(Sum(u[q[2] + 1], u[q[3] + 1]), q[4])]
    IN FoldLeft(step, t, Rounds)
Salsa[x \in Seq(Words)] ==
    LET t == FoldLeft(LAMBDA y, i : DoubleRound[y], x, UpTo(4))
    IN <<>> \o [i \in 1..16 |-> Sum(x[i], t[i])]

BlockWords(r) == 2 * CoreWords * r  \* 32 * r

(* block_mix: even results to the first half, odd ones to the second. *)
BlockMix[input \in Seq(Words), r \in Nat] ==
    LET after[i \in 0..(2 * r)] ==
            IF i = 0 THEN [x |-> Slice(input, 2 * r - 1, CoreWords), output |-> Zeros(BlockWords(r))]
            ELSE LET acc == after[i - 1]
                     x == Core(XorWith(acc.x, Slice(input, i - 1, CoreWords)))
                     dst == (IF i % 2 = 1 THEN i \div 2 ELSE r + i \div 2 - 1) * CoreWords
                 IN [x |-> x, output |-> SubSeq(acc.output, 1, dst) \o x
                                         \o SubSeq(acc.output, dst + CoreWords + 1, BlockWords(r))]
    IN after[2 * r].output

(* ro_mix; v keeps what the lane before left in it. *)
RoMix[b \in Seq(Words), n \in Nat, r \in Nat, v \in Seq(Seq(Words))] ==
    LET fill[i \in 0..n] ==
            IF i = 0 THEN [b |-> b, v |-> v]
            ELSE LET s == fill[i - 1]
                 IN [b |-> BlockMix[s.b, r], v |-> [s.v EXCEPT ![i] = s.b]]
        filled == fill[n]
        mix[i \in 0..n] ==
            IF i = 0 THEN filled.b
            ELSE LET c == mix[i - 1]
                     j == c[BlockWords(r) - CoreWords + 1] & (n - 1)
                 IN BlockMix[XorWith(c, filled.v[j + 1]), r]
    IN [b |-> mix[n], v |-> filled.v]

Refused(why) == [error |-> why, key |-> <<>>]

Scrypt(password, salt, n, r, p, dkLen) ==
    LET words == BlockWords(r)
        lane[i \in 0..p] ==
            IF i = 0 THEN
                [b |-> WordsOf(Pbkdf2[password, salt, 1, p * words * WordBytes]),
                 v |-> <<>> \o [k \in 1..n |-> Zeros(words)]]
            ELSE LET s == lane[i - 1]
                     mixed == RoMix[Slice(s.b, i - 1, words), n, r, s.v]
                 IN [b |-> SubSeq(s.b, 1, (i - 1) * words) \o mixed.b
                           \o SubSeq(s.b, i * words + 1, p * words),
                     v |-> mixed.v]
    IN IF n < 2 \/ ~\E k \in 1..n : n = 2^k THEN Refused("InvalidN")
       ELSE IF r = 0 \/ p = 0 THEN Refused("InvalidBlockOrParallelism")
       ELSE IF dkLen = 0 THEN Refused("InvalidKeyLength")
       ELSE IF words * p * WordBytes > UsizeMax \/ words * n * WordBytes > UsizeMax
            THEN Refused("Overflow")
       ELSE [error |-> "none", key |-> Pbkdf2[password, BytesOf(lane[p].b), 1, dkLen]]
------------------------------------------------------------------------------
(* The references: RFC 2104, RFC 8018, and RFC 7914 with the definition of  *)
(* Salsa20 by rows and columns of a matrix.                                 *)
HashRef(msg) == Chain(BlocksOf(Padded(msg)))

HmacRef[key \in Seq(Int), msg \in Seq(Int)] ==
    LET k == IF Len(key) > Block THEN HashRef(key) ELSE key
        k0 == [i \in 1..Block |-> IF i <= Len(k) THEN k[i] ELSE 0]
        with(byte) == <<>> \o [i \in 1..Block |-> byte ^^ k0[i]]
    IN HashRef(with(OPad) \o HashRef(with(IPad) \o msg))

Pbkdf2Ref[password \in Seq(Int), salt \in Seq(Int), iterations \in Nat, dkLen \in Nat] ==
    LET u[i \in 1..dkLen, c \in 1..iterations] ==
            HmacRef[password, IF c = 1 THEN salt \o BigEndian(i) ELSE u[i, c - 1]]
        f[i \in 1..dkLen, c \in 1..iterations] ==
            IF c = 1 THEN u[i, 1] ELSE XorWith(f[i, c - 1], u[i, c])
    IN <<>> \o [k \in 1..dkLen |->
                  f[(k - 1) \div DigestLen + 1, iterations][((k - 1) % DigestLen) + 1]]

QuarterRound(y) ==
    LET z1 == y[2] ^^ Rotate(Sum(y[1], y[4]), 7)
        z2 == y[3] ^^ Rotate(Sum(z1, y[1]), 9)
        z3 == y[4] ^^ Rotate(Sum(z2, z1), 13)
        z0 == y[1] ^^ Rotate(Sum(z3, z2), 18)
    IN <<z0, z1, z2, z3>>

(* Row i of the matrix begins at its diagonal. *)
RowRound(y) ==
    LET at(i, k) == 4 * i + ((i + k) % 4) + 1
        z == <<>> \o [i \in 1..4 |->
                        QuarterRound(<<y[at(i - 1, 0)], y[at(i - 1, 1)],
                                       y[at(i - 1, 2)], y[at(i - 1, 3)]>>)]
    IN <<>> \o [m \in 1..16 |-> LET i == (m - 1) \div 4
                                IN z[i + 1][((m - 1 - i) % 4) + 1]]
Transposed(y) == <<>> \o [m \in 1..16 |-> y[4 * ((m - 1) % 4) + (m - 1) \div 4 + 1]]
DoubleRoundRef[y \in Seq(Words)] == RowRound(Transposed(RowRound(Transposed(y))))
SalsaRef[x \in Seq(Words)] ==
    LET z == FoldLeft(LAMBDA y, i : DoubleRoundRef[y], x, UpTo(4))
    IN <<>> \o [i \in 1..16 |-> Sum(x[i], z[i])]

BlockMixRef[B \in Seq(Seq(Words)), r \in Nat] ==
    LET Y[i \in 1..(2 * r)] ==
            LET before == IF i = 1 THEN <<>> ELSE Y[i - 1]
                X == IF i = 1 THEN B[2 * r] ELSE Last(before)
            IN Append(before, Core(XorWith(X, B[i])))
        all == Y[2 * r]
    IN <<>> \o [i \in 1..(2 * r) |-> IF i <= r THEN all[2 * i - 1] ELSE all[2 * (i - r)]]

(* Integerify: the last 64 bytes as one number, of which N takes what it    *)
(* can tell apart.                                                          *)
RoMixRef[B \in Seq(Seq(Words)), N \in Nat, r \in Nat] ==
    LET V[i \in 0..N] ==
            IF i = 0 THEN <<B>>
            ELSE LET before == V[i - 1] IN Append(before, BlockMixRef[Last(before), r])
        all == V[N]
        integerify(X) == FoldRight(LAMBDA w, acc : ((acc * 2^WordBits) + w) % N, X[2 * r], 0)
        mix[i \in 0..N] ==
            IF i = 0 THEN Last(all)
            ELSE LET X == mix[i - 1]
                     W == all[integerify(X) + 1]
                 IN BlockMixRef[<<>> \o [k \in 1..(2 * r) |-> XorWith(X[k], W[k])], r]
    IN mix[N]

ScryptRef(P, S, N, r, p, dkLen) ==
    LET size == BlockWords(r) * WordBytes
        B == Pbkdf2Ref[P, S, 1, p * size]
        lane(i) == LET words == WordsOf(Slice(B, i, size))
                   IN RoMixRef[<<>> \o [k \in 1..(2 * r) |-> Slice(words, k - 1, CoreWords)], N, r]
        all == FlattenSeq([i \in 1..p |-> BytesOf(FlattenSeq(lane(i - 1)))])
    IN Pbkdf2Ref[P, all, 1, dkLen]

(* kdf.rs salsa20_8 - the rounds are those of the definition. *)
SalsaIsStandard(x) == Salsa[x] = SalsaRef[x]

(* kdf.rs scrypt - "Never panics on bad input": bad parameters are refused  *)
(* for one thing that is wrong with them, and all others have the key of    *)
(* RFC 7914, for every number of lanes, blocks and steps.                   *)
WrongWith(n, r, p, dkLen) ==
    LET size == BlockWords(r) * WordBytes
        wrong == [InvalidN |-> n \notin {2^k : k \in 1..n},
                  InvalidBlockOrParallelism |-> 0 \in {r, p},
                  InvalidKeyLength |-> dkLen = 0,
                  Overflow |-> size * p > UsizeMax \/ size * n > UsizeMax]
    IN {why \in DOMAIN wrong : wrong[why]}
ScryptIsStandard(P, S, n, r, p, dkLen) ==
    Scrypt(P, S, n, r, p, dkLen) \in
        IF WrongWith(n, r, p, dkLen) = {}
        THEN {[error |-> "none", key |-> ScryptRef(P, S, n, r, p, dkLen)]}
        ELSE {Refused(why) : why \in WrongWith(n, r, p, dkLen)}

(* kdf.rs pbkdf2_hmac_sha256 - no iteration counts as one. *)
Pbkdf2IsStandard(P, S, iterations, dkLen) ==
    Pbkdf2[P, S, iterations, dkLen]
        = Pbkdf2Ref[P, S, IF iterations = 0 THEN 1 ELSE iterations, dkLen]
==============================================================================

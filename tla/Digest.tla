------------------------------- MODULE Digest -------------------------------
(***************************************************************************)
(* The streaming SHA-256 of crypto.rs: update and finalize over a buffer    *)
(* that holds part of a block.                                              *)
(*                                                                          *)
(* The state a hasher has after some blocks stands for those blocks in      *)
(* their order: compress appends one.  A byte is a number; in the padding   *)
(* "80" is Mark, and the length is one byte of its own, so a block is       *)
(* LenBytes plus what else it holds.                                        *)
(***************************************************************************)
EXTENDS Integers, Sequences, SequencesExt

CONSTANTS Block,     \* SHA256_BLOCK_LEN
          LenBytes   \* the bytes of the length at the end of the padding

ASSUME DigestAssumption ==
    /\ {Block, LenBytes} \subseteq Nat \ {0}
    /\ LenBytes < Block

VARIABLES hasher,  \* a Sha256 under way
          fed      \* the bytes that it was fed

digestVars == <<hasher, fed>>

Zero == 0
Mark == -1
LengthByte(total, i) == -10 - total * LenBytes - i   \* the i-th byte of a length

(* new: buf is not cleared between blocks, bufLen says what counts. *)
New == [state |-> <<>>, buf |-> [i \in 1..Block |-> Zero], bufLen |-> 0, total |-> 0]

Compress(state, block) == Append(state, block)
Overwrite(buf, from, data) ==
    [i \in DOMAIN buf |-> IF i > from /\ i <= from + Len(data) THEN data[i - from] ELSE buf[i]]
Shorter(a, b) == IF a < b THEN a ELSE b
Zeros(n) == [i \in 1..n |-> Zero]
------------------------------------------------------------------------------
(* Faults: plausible bugs, which the properties must rule out. *)

(* A block that just has room for the mark and the length is taken to have  *)
(* none.                                                                    *)
PadLenOff(bufLen) ==
    IF bufLen < Block - LenBytes - 1 THEN Block - LenBytes - bufLen
    ELSE 2 * Block - LenBytes - bufLen
------------------------------------------------------------------------------
(* update, first: top up a partial block. *)
TopUp(h, data) ==
    LET take == IF h.bufLen > 0 THEN Shorter(Len(data), Block - h.bufLen) ELSE 0
        buf == Overwrite(h.buf, h.bufLen, SubSeq(data, 1, take))
        full == h.bufLen + take = Block
    IN [rest |-> SubSeq(data, take + 1, Len(data)),
        h |-> [h EXCEPT !.buf = buf,
                        !.state = IF full THEN Compress(@, buf) ELSE @,
                        !.bufLen = IF full THEN 0 ELSE @ + take]]

(* ... then whole blocks straight from the input, and keep what is left. *)
Absorb(h, data) ==
    LET whole == Len(data) \div Block
        blocks == [b \in 1..whole |-> SubSeq(data, (b - 1) * Block + 1, b * Block)]
        left == SubSeq(data, whole * Block + 1, Len(data))
    IN [h EXCEPT !.state = @ \o blocks,
                 !.buf = Overwrite(@, 0, left),
                 !.bufLen = IF left = <<>> THEN @ ELSE Len(left)]

Update(h, data) ==
    LET t == TopUp([h EXCEPT !.total = @ + Len(data)], data)
    IN Absorb(t.h, t.rest)

PadLen(bufLen) ==
    IF bufLen < Block - LenBytes THEN Block - LenBytes - bufLen
    ELSE 2 * Block - LenBytes - bufLen

(* finalize: the padding goes through update. *)
Finalize(h) ==
    LET pad == <<Mark>> \o Zeros(PadLen(h.bufLen) - 1)
               \o [i \in 1..LenBytes |-> LengthByte(h.total, i)]
    IN Update([h EXCEPT !.total = 0], pad).state

DigestInit == hasher = New /\ fed = <<>>

Feed(data) == hasher' = Update(hasher, data) /\ fed' = fed \o data

DigestSpec == DigestInit /\ [][\E data \in Seq(Nat) : Feed(data)]_digestVars
------------------------------------------------------------------------------
(* The reference, of FIPS 180-4: a mark, as few zeros as fill the last      *)
(* block, and the length.                                                   *)
Padded(msg) ==
    LET zeros == CHOOSE n \in 0..Block :
                    /\ (Len(msg) + 1 + n + LenBytes) % Block = 0
                    /\ \A k \in 0..(n - 1) : (Len(msg) + 1 + k + LenBytes) % Block # 0
    IN msg \o <<Mark>> \o Zeros(zeros) \o [i \in 1..LenBytes |-> LengthByte(Len(msg), i)]

BlocksOf(padded) ==
    [b \in 1..(Len(padded) \div Block) |-> SubSeq(padded, (b - 1) * Block + 1, b * Block)]

(* crypto.rs:49 - "chunk boundaries never affect the digest": a hasher,    *)
(* fed in whatever pieces, has compressed the blocks of the padded message  *)
(* when it is finalized, each byte once, in order, and nothing an earlier   *)
(* block left in the buffer.                                                *)
DigestIsStandard == Finalize(hasher) = BlocksOf(Padded(fed))
==============================================================================

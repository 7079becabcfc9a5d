-------------------------------- MODULE Codec --------------------------------
(***************************************************************************)
(* How bytes travel as text: hex and base64 of crypto.rs, in tokens, hashes *)
(* and signatures, percent-encoding of http.rs, in cookies and targets, and *)
(* how a cookie is found in its header.                                     *)
(*                                                                          *)
(* A text is a sequence of bytes, and a character is its code.  What UTF-8  *)
(* makes of decoded bytes is left out.                                      *)
(***************************************************************************)
EXTENDS Integers, Sequences, SequencesExt, FiniteSets

NotDecoded == [ok |-> FALSE, bytes |-> <<>>]
Decoded(bytes) == [ok |-> TRUE, bytes |-> bytes]

Digits == 48..57
Upper == 65..90
Lower == 97..122
Plus == 43
Minus == 45
Dot == 46
Solidus == 47
Equals == 61
Colon == 58
Semicolon == 59
Question == 63
Asterisk == 42
Comma == 44
Space == 32
Percent == 37
Underscore == 95
Ampersand == 38
Replacement == 65533  \* U+FFFD

Lesser(a, b) == IF a < b THEN a ELSE b
Chunks(s, n) ==
    [c \in 1..((Len(s) + n - 1) \div n) |-> SubSeq(s, (c - 1) * n + 1, Lesser(c * n, Len(s)))]
Byte(n, shift) == (n \div 2^shift) % 256
------------------------------------------------------------------------------
(* hex_val, of both files *)
HexDigits == Digits \cup 65..70 \cup 97..102
IsHex(c) == c \in HexDigits
HexVal(c) == IF c \in Digits THEN c - 48 ELSE IF c < 97 THEN c - 55 ELSE c - 87
HexChar(v) == IF v < 10 THEN 48 + v ELSE 87 + v
UpperHex(v) == IF v < 10 THEN 48 + v ELSE 55 + v

HexEncode(bytes) ==
    FoldLeft(LAMBDA out, b : out \o <<HexChar(b \div 16), HexChar(b % 16)>>, <<>>, bytes)

HexDecode(s) ==
    IF Len(s) % 2 # 0 \/ \E i \in DOMAIN s : ~IsHex(s[i]) THEN NotDecoded
    ELSE Decoded([i \in 1..(Len(s) \div 2) |-> 16 * HexVal(s[2 * i - 1]) + HexVal(s[2 * i])])

(* B64_STD and B64_URL, b64_val *)
Alphabet(v, url) ==
    IF v < 26 THEN 65 + v ELSE IF v < 52 THEN 71 + v ELSE IF v < 62 THEN v - 4
    ELSE IF v = 62 THEN (IF url THEN Minus ELSE Plus) ELSE (IF url THEN Underscore ELSE Solidus)
IsB64(c) == c \in Upper \cup Lower \cup Digits \cup {Plus, Minus, Solidus, Underscore}
B64Val(c) ==
    CASE c \in Upper -> c - 65 [] c \in Lower -> c - 71 [] c \in Digits -> c + 4
      [] c \in {Plus, Minus} -> 62 [] OTHER -> 63

(* b64_encode_with *)
B64Encode(bytes, url, pad) ==
    LET group(chunk) ==
            LET k == Len(chunk)
                n == 65536 * chunk[1] + (IF k > 1 THEN 256 * chunk[2] ELSE 0)
                     + (IF k > 2 THEN chunk[3] ELSE 0)
                char(shift) == Alphabet((n \div 2^shift) % 64, url)
                rest(shift, there) == IF there THEN <<char(shift)>>
                                      ELSE IF pad THEN <<Equals>> ELSE <<>>
            IN <<char(18), char(12)>> \o rest(6, k > 1) \o rest(0, k > 2)
    IN FoldLeft(LAMBDA out, chunk : out \o group(chunk), <<>>, Chunks(bytes, 3))

(* b64_decode_any: a group of k characters carries k - 1 bytes. *)
Unpadded(s) == SelectInSeq(Reverse(s), LAMBDA c : c # Equals)
B64Decode(s) ==
    LET first == Unpadded(s)
        b == IF first = 0 THEN <<>> ELSE SubSeq(s, 1, Len(s) - first + 1)
        bits(group) == FoldLeft(LAMBDA n, i : n + B64Val(group[i]) * 2^(24 - 6 * i),
                                0, [i \in DOMAIN group |-> i])
        carried(group) == [i \in 1..(Len(group) - 1) |-> Byte(bits(group), 24 - 8 * i)]
    IN IF Len(b) % 4 = 1 \/ \E i \in DOMAIN b : ~IsB64(b[i]) THEN NotDecoded
       ELSE Decoded(FoldLeft(LAMBDA out, group : out \o carried(group), <<>>, Chunks(b, 4)))

(* from_utf8_lossy, of bytes none of which begins a longer character. *)
Lossy(bytes) == [i \in DOMAIN bytes |-> IF bytes[i] < 128 THEN bytes[i] ELSE Replacement]

(* percent_decode, from character i on. *)
IsEscape(s, i) == /\ s[i] = Percent /\ i + 2 <= Len(s)
                  /\ IsHex(s[i + 1]) /\ IsHex(s[i + 2])
PlusOr(c, plusAsSpace) == IF c = Plus /\ plusAsSpace THEN Space ELSE c
Escaped(s, i) == 16 * HexVal(s[i + 1]) + HexVal(s[i + 2])

PercentDecode(s, plusAsSpace) ==
    LET from[i \in 1..(Len(s) + 1)] ==
            IF i > Len(s) THEN <<>>
            ELSE IF IsEscape(s, i) THEN <<Escaped(s, i)>> \o from[i + 3]
            ELSE <<PlusOr(s[i], plusAsSpace)>> \o from[i + 1]
    IN Lossy(from[1])

Alphanumeric == Upper \cup Lower \cup Digits
Unreserved == Alphanumeric \cup {Minus, Underscore, Dot, 33, 126, 42, 39, 40, 41}  \* ! ~ * ' ( )
FormUnreserved == Alphanumeric \cup {Minus, Underscore, Dot, 126}

(* percent_encode_component of http.rs and percent_encode of stripe.rs, by  *)
(* what they leave as it is. *)
PercentEncode(bytes, kept) ==
    FoldLeft(LAMBDA out, b : out \o IF b \in kept THEN <<b>>
                                    ELSE <<Percent, UpperHex(b \div 16), UpperHex(b % 16)>>,
             <<>>, bytes)

(* form_encode *)
FormEncode(pairs) ==
    LET encoded(pair) == PercentEncode(pair[1], FormUnreserved) \o <<Equals>>
                         \o PercentEncode(pair[2], FormUnreserved)
    IN FoldLeft(LAMBDA out, pair : (IF out = <<>> THEN out ELSE Append(out, Ampersand))
                                   \o encoded(pair), <<>>, pairs)

(* split, split_once and trim: the pieces between separators, what is       *)
(* before and after the first mark (if there is one), and no outer blanks.  *)
SplitAt(s, sep) ==
    FoldLeft(LAMBDA pieces, c : IF c = sep THEN Append(pieces, <<>>)
                                ELSE [pieces EXCEPT ![Len(pieces)] = Append(@, c)],
             << <<>> >>, s)
Holds(s, mark) == mark \in ToSet(s)
KeyOf(s, mark) ==
    IF Holds(s, mark) THEN SubSeq(s, 1, SelectInSeq(s, LAMBDA c : c = mark) - 1) ELSE s
ValueOf(s, mark) ==
    IF Holds(s, mark) THEN SubSeq(s, SelectInSeq(s, LAMBDA c : c = mark) + 1, Len(s)) ELSE <<>>
Trim(s, blank) ==
    IF ToSet(s) \subseteq {blank} THEN <<>>
    ELSE SubSeq(s, SelectInSeq(s, LAMBDA c : c # blank), SelectLastInSeq(s, LAMBDA c : c # blank))

(* cookie: the scan ends at the name, or at a piece without "=". *)
Cookie(raw, name) ==
    LET pairs == [i \in DOMAIN SplitAt(raw, Semicolon) |-> Trim(SplitAt(raw, Semicolon)[i], Space)]
        ends == SelectInSeq(pairs, LAMBDA pair : ~Holds(pair, Equals) \/ Trim(KeyOf(pair, Equals), Space) = name)
    IN IF ends = 0 \/ ~Holds(pairs[ends], Equals) THEN NotDecoded
       ELSE Decoded(PercentDecode(Trim(ValueOf(pairs[ends], Equals), Space), FALSE))

(* query_param *)
QueryParam(query, name) ==
    LET pairs == SplitAt(query, Ampersand)
        found == SelectInSeq(pairs, LAMBDA pair : pair # <<>> /\ PercentDecode(KeyOf(pair, Equals), TRUE) = name)
    IN IF found = 0 THEN NotDecoded ELSE Decoded(PercentDecode(ValueOf(pairs[found], Equals), TRUE))

(* parse_target: the scheme and the authority are cut off, and the query;   *)
(* what a path decodes to must not leave the root. *)
Root == <<Solidus>>
AfterAuthority(target) ==
    LET at == SelectInSeq([i \in DOMAIN target |-> i],
                          LAMBDA i : IsPrefix(<<Colon, Solidus, Solidus>>,
                                              SubSeq(target, i, Len(target))))
        after == SubSeq(target, at + 3, Len(target))
    IN IF at = 0 \/ ~(ToSet(SubSeq(target, 1, at - 1)) \subseteq Alphanumeric) THEN target
       ELSE IF Holds(after, Solidus) THEN Root \o ValueOf(after, Solidus) ELSE Root

NoTarget == [ok |-> FALSE, raw |-> <<>>, path |-> <<>>, query |-> <<>>]
ParseTarget(target) ==
    LET rest == AfterAuthority(target)
        raw == KeyOf(rest, Question)
        path == PercentDecode(raw, FALSE)
    IN IF target = <<Asterisk>>
       THEN [ok |-> TRUE, raw |-> target, path |-> target, query |-> <<>>]
       ELSE IF ~IsPrefix(Root, raw) \/ Holds(path, 0)
               \/ <<Dot, Dot>> \in ToSet(SplitAt(path, Solidus)) THEN NoTarget
       ELSE [ok |-> TRUE, raw |-> raw, path |-> path, query |-> ValueOf(rest, Question)]

(* client_ip: the entry that hops proxies ago was appended, or the peer.    *)
ClientIp(forwarded, hops, peer) ==
    LET chain == SelectSeq([i \in DOMAIN SplitAt(forwarded, Comma) |->
                              Trim(SplitAt(forwarded, Comma)[i], Space)],
                           LAMBDA entry : entry # <<>>)
    IN IF hops \in 1..Len(chain) THEN chain[Len(chain) - hops + 1] ELSE peer
------------------------------------------------------------------------------
(* The references. *)

(* RFC 4648: the characters are six bits each, the bytes eight; bits that   *)
(* fill no byte are dropped.                                                *)
BitsOf(s) == [j \in 1..(6 * Len(s)) |->
                (B64Val(s[(j - 1) \div 6 + 1]) \div 2^(5 - ((j - 1) % 6))) % 2]
BytesOfBits(bits) ==
    [m \in 1..(Len(bits) \div 8) |->
       FoldLeft(LAMBDA n, t : 2 * n + bits[8 * (m - 1) + t], 0, <<1, 2, 3, 4, 5, 6, 7, 8>>)]
B64Ref(s) ==
    LET content == {i \in DOMAIN s : \E k \in i..Len(s) : s[k] # Equals}
        b == SubSeq(s, 1, Cardinality(content))
    IN IF (\A i \in content : IsB64(s[i])) /\ Len(b) % 4 # 1
       THEN Decoded(BytesOfBits(BitsOf(b))) ELSE NotDecoded

(* A hex digit is no "%", so escapes cannot overlap: each character stands  *)
(* for one, but for those inside an escape.                                 *)
PercentRef(s, plusAsSpace) ==
    LET escapes == {i \in 1..(Len(s) - 2) : s[i] = Percent /\ {s[i + 1], s[i + 2]} \subseteq HexDigits}
        heads == DOMAIN s \ {i + d : i \in escapes, d \in 1..2}
        head(k) == CHOOSE i \in heads : Cardinality({j \in heads : j <= i}) = k
    IN Lossy([k \in 1..Cardinality(heads) |->
                IF head(k) \in escapes THEN Escaped(s, head(k))
                ELSE PlusOr(s[head(k)], plusAsSpace)])

(* Between(s, a, b, sep): s has a piece from a to b. *)
Between(s, a, b, sep) ==
    /\ \A i \in a..b : s[i] # sep
    /\ a > 1 => s[a - 1] = sep
    /\ b < Len(s) => s[b + 1] = sep
IsFor(piece, name) == \E i \in DOMAIN piece : /\ piece[i] = Equals
                                              /\ Trim(SubSeq(piece, 1, i - 1), Space) = name
                                              /\ \A k \in 1..(i - 1) : piece[k] # Equals
CookieRef(s, name) ==
    LET pieces == {ab \in (1..(Len(s) + 1)) \X (0..Len(s)) :
                     ab[1] <= ab[2] + 1 /\ Between(s, ab[1], ab[2], Semicolon)}
        text(ab) == SubSeq(s, ab[1], ab[2])
        found == {ab \in pieces : /\ IsFor(text(ab), name)
                                  /\ \A cd \in pieces : cd[1] < ab[1] =>
                                       Equals \in ToSet(text(cd)) /\ ~IsFor(text(cd), name)}
    IN {Decoded(PercentRef(Trim(ValueOf(text(ab), Equals), Space), FALSE)) : ab \in found}

QueryRef(s, name) ==
    LET pieces == {ab \in (1..Len(s)) \X (1..Len(s)) :
                     ab[1] <= ab[2] /\ Between(s, ab[1], ab[2], Ampersand)}
        text(ab) == SubSeq(s, ab[1], ab[2])
        named(ab) == PercentRef(KeyOf(text(ab), Equals), TRUE) = name
        found == {ab \in pieces : named(ab) /\ \A cd \in pieces : cd[1] < ab[1] => ~named(cd)}
    IN {Decoded(PercentRef(ValueOf(text(ab), Equals), TRUE)) : ab \in found}

OneOf(answers) == IF answers = {} THEN {NotDecoded} ELSE answers
Ascii(s) == \A i \in DOMAIN s : s[i] < 128

(* crypto.rs and http.rs - what arrives as text is what was sent as text:   *)
(* bytes that are encoded are decoded to themselves, in every alphabet and  *)
(* with any padding, and through a cookie; and what is decoded of any text  *)
(* at all, or refused, is what the RFCs say.                                *)
BytesSurvive(bytes, name) ==
    /\ HexDecode(HexEncode(bytes)) = Decoded(bytes)
    /\ \A url, pad \in BOOLEAN : B64Decode(B64Encode(bytes, url, pad)) = Decoded(bytes)
    /\ Ascii(bytes) =>
         /\ \A plus \in BOOLEAN : PercentDecode(PercentEncode(bytes, Unreserved), plus) = bytes
         /\ Cookie(name \o <<Equals>> \o PercentEncode(bytes, Unreserved), name) = Decoded(bytes)
         /\ QueryParam(FormEncode(<< <<bytes, name>>, <<name, bytes>> >>), name)
                = Decoded(IF bytes = name THEN name ELSE bytes)

(* http.rs, parse_target - a path is accepted if no two dots are between    *)
(* slashes of what it decodes to, and no NUL; an absolute target is read    *)
(* like the origin-form that follows its authority.                         *)
OriginRef(s) ==
    LET path == {i \in DOMAIN s : \A k \in 1..i : s[k] # Question}
        raw == SubSeq(s, 1, Cardinality(path))
        p == PercentRef(raw, FALSE)
        climbs(k) == /\ p[k] = Solidus /\ k + 2 <= Len(p) /\ p[k + 1] = Dot /\ p[k + 2] = Dot
                     /\ k + 2 < Len(p) => p[k + 3] = Solidus
    IN IF \E k \in DOMAIN p : p[k] = 0 \/ climbs(k) THEN NoTarget
       ELSE [ok |-> TRUE, raw |-> raw, path |-> p, query |-> SubSeq(s, Len(raw) + 2, Len(s))]
TargetIsRead(s) ==
    LET slashes == {i \in DOMAIN s : s[i] = Solidus}
        origin(from) == OriginRef(SubSeq(s, from, Len(s)))
        ofAbsolute == {c \in DOMAIN s : /\ s[c] = Colon /\ {c + 1, c + 2} \subseteq slashes
                                        /\ \A k \in 1..(c - 1) : s[k] \in Alphanumeric}
        ref == IF 1 \in slashes THEN {origin(1)}
               ELSE {IF slashes \subseteq 1..(c + 2) THEN OriginRef(Root)
                     ELSE origin(CHOOSE j \in slashes : /\ j > c + 2
                                                        /\ slashes \cap ((c + 3)..(j - 1)) = {})
                     : c \in ofAbsolute}
    IN s # <<Asterisk>> => ParseTarget(s) \in (IF ref = {} THEN {NoTarget} ELSE ref)

(* routes.rs, client_ip - what a client writes in front of what the trusted *)
(* proxies append changes nothing, and too short a chain is the peer's.     *)
ClientCannotChoose(s) ==
    /\ ClientIp(s \o <<Comma, 1>>, 1, <<9>>) = <<1>>
    /\ ClientIp(s \o <<Comma, Space, 1, Comma, Space, 2>>, 2, <<9>>) = <<1>>
    /\ ClientIp(s, 0, <<9>>) = <<9>> /\ ClientIp(s, Len(s) + 1, <<9>>) = <<9>>

IsReadAs(kind, s, name) ==
    /\ kind = "hex" =>
         LET r == HexDecode(s)
             lower == [i \in DOMAIN s |-> IF s[i] \in Upper THEN s[i] + 32 ELSE s[i]]
         IN IF r.ok THEN HexEncode(r.bytes) = lower
            ELSE Len(s) % 2 # 0 \/ ~(ToSet(s) \subseteq HexDigits)
    /\ kind = "base64" => B64Decode(s) = B64Ref(s)
    /\ kind = "percent" => \A plus \in BOOLEAN : PercentDecode(s, plus) = PercentRef(s, plus)
    /\ kind = "cookie" => Cookie(s, name) \in OneOf(CookieRef(s, name))
    /\ kind = "query" => QueryParam(s, name) \in OneOf(QueryRef(s, name))
    /\ kind = "target" => TargetIsRead(s)
    /\ kind = "forwarded" => ClientCannotChoose(s)
    /\ kind = "bytes" => BytesSurvive(s, name)
==============================================================================

------------------------------ MODULE JsonText ------------------------------
(***************************************************************************)
(* The JSON parser and serializer of json.rs, as operators on texts, and    *)
(* what a text means, by the grammar, to compare them with.                 *)
(*                                                                          *)
(* A text is a sequence of symbols.  A symbol is a character, but for two:  *)
(* a literal is one symbol, and after \u a code unit is one ("E9" a         *)
(* character, "D83D" and "DE00" the two halves of one).  Of the short       *)
(* escapes there are those of the quote, the backslash and the newline      *)
(* ("NL"); of the digits two.  A value is a tuple with its kind first; an   *)
(* object is a function on its keys.                                        *)
(*                                                                          *)
(* A number is a sign, its digits without zeros at either end, and where    *)
(* among them the decimal point is: 0.07 is <<"7">> with the point at -1.   *)
(* Its range is bounded like that of an f64; its precision is not.          *)
(***************************************************************************)
EXTENDS Integers, Sequences, FiniteSets, SequencesExt

CONSTANTS MaxDepth,  \* MAX_DEPTH
          MaxPoint   \* a finite number has its point at most so far out

ASSUME JsonTextAssumption == MaxDepth \in Nat /\ MaxPoint \in Nat

Quote == "\""
Slash == "\\"
Control == "CTL"   \* a control character without a short escape
DigitValue == ("0" :> 0) @@ ("7" :> 7)
DecimalDigits == DOMAIN DigitValue
Literals == {"true", "null"}

Escapes == [n |-> "NL"] @@ (Quote :> Quote) @@ (Slash :> Slash)
Units == [E9 |-> "E9", CTL |-> Control, D83D |-> "FFFD", DE00 |-> "FFFD"]
Joined == "1F600"  \* the character of which D83D and DE00 are the halves

At(text, i) == IF i <= Len(text) THEN text[i] ELSE "end"
Null == <<"lit", "null">>
Fail(i) == [ok |-> FALSE, v |-> Null, i |-> i]
Done(v, i) == [ok |-> TRUE, v |-> v, i |-> i]

(* f64's Display: all digits, however many; never an exponent.              *)
InFull(neg, digits, point) ==
    LET n == Len(digits)
        zeros(k) == [i \in 1..Max({k, 0}) |-> "0"]
        whole == IF point <= 0 THEN <<"0">>
                 ELSE SubSeq(digits, 1, Min({point, n})) \o zeros(point - n)
        part == IF point >= n THEN <<>>
                ELSE <<".">> \o zeros(-point) \o SubSeq(digits, Max({point, 0}) + 1, n)
    IN (IF neg THEN <<"-">> ELSE <<>>) \o whole \o part
------------------------------------------------------------------------------
(* Faults: plausible bugs, which the properties must rule out. *)

(* A high half takes whatever escape follows for its other half. *)
UnitJoinsAny(text, i) ==
    IF At(text, i) \notin DOMAIN Units THEN Fail(i)
    ELSE IF At(text, i) = "D83D" /\ At(text, i + 1) = Slash /\ At(text, i + 2) = "u"
      THEN IF At(text, i + 3) \in DOMAIN Units THEN Done(Joined, i + 4) ELSE Fail(i + 3)
    ELSE Done(Units[text[i]], i + 1)

(* It is not asked whether a number is finite. *)
FormatUnchecked(neg, digits, point) ==
    CASE digits = <<"inf">> -> digits
      [] digits = <<>> -> <<"0">>
      [] OTHER -> InFull(neg, digits, point)
------------------------------------------------------------------------------
(* ws *)
SkipSpace(text, i) == Min({j \in i .. Len(text) + 1 : At(text, j) # " "})

(* unicode_escape, hex4: a pair of halves is one character, half of one is  *)
(* the replacement character.                                               *)
Unit(text, i) ==
    IF At(text, i) \notin DOMAIN Units THEN Fail(i)
    ELSE IF At(text, i) = "D83D" /\ At(text, i + 1) = Slash /\ At(text, i + 2) = "u"
      THEN IF At(text, i + 3) \notin DOMAIN Units THEN Fail(i + 3)
           ELSE IF At(text, i + 3) = "DE00" THEN Done(Joined, i + 4)
           ELSE Done("FFFD", i + 1)
    ELSE Done(Units[text[i]], i + 1)

(* string: one character, raw or escaped, and the rest up to the quote.     *)
Char(text, i) ==
    LET c == At(text, i)
        e == At(text, i + 1)
    IN CASE c \in {"end", Control, "NL"} -> Fail(i)
         [] c = Slash /\ e = "u" -> Unit(text, i + 2)
         [] c = Slash /\ e \in DOMAIN Escapes -> Done(Escapes[e], i + 2)
         [] c = Slash /\ e \notin DOMAIN Escapes \cup {"u"} -> Fail(i + 1)
         [] OTHER -> Done(c, i + 1)

(* f64::from_str of a numeral in its parts, as number calls it: what is too *)
(* large is infinite and what is too small is zero, with their sign.        *)
Exponent(exp) ==
    LET n == FoldLeft(LAMBDA m, d : 10 * m + DigitValue[d], 0, SelectSeq(exp, LAMBDA d : d \in DecimalDigits))
    IN IF exp # <<>> /\ exp[1] = "-" THEN -n ELSE n

Float(neg, int, frac, exp) ==
    LET all == int \o frac
        I == {i \in DOMAIN all : all[i] # "0"}
        point == Len(int) + 1 - Min(I) + Exponent(exp)
    IN IF I = {} \/ point < -MaxPoint THEN <<"num", neg, <<>>, 0>>
       ELSE IF point > MaxPoint THEN <<"num", neg, <<"inf">>, 0>>
       ELSE <<"num", neg, SubSeq(all, Min(I), Max(I)), point>>

(* number: where its parts end, each looked for after the one before.       *)
SkipDigits(text, i) == Min({j \in i .. Len(text) + 1 : At(text, j) \notin DecimalDigits})

Numeral(text, i) ==
    LET int == IF At(text, i) = "-" THEN i + 1 ELSE i
        dot == IF At(text, int) = "0" THEN int + 1 ELSE SkipDigits(text, int)
        e == IF At(text, dot) = "." THEN SkipDigits(text, dot + 1) ELSE dot
        exp == IF At(text, e + 1) \in {"+", "-"} THEN e + 2 ELSE e + 1
        end == IF At(text, e) = "e" THEN SkipDigits(text, exp) ELSE e
    IN CASE dot = int -> Fail(int)
         [] e = dot + 1 -> Fail(e)
         [] At(text, e) = "e" /\ end = exp -> Fail(end)
         [] OTHER -> Done(Float(At(text, i) = "-", SubSeq(text, int, dot - 1),
                                SubSeq(text, dot + 1, e - 1), SubSeq(text, e + 1, end - 1)),
                          end)

(* What is read next comes after v. *)
Before(v, rest) == IF rest.ok THEN Done(<<v>> \o rest.v, rest.i) ELSE rest

(* ... up to the closing quote. *)
Chars(text, i) ==
    LET then(c, from) == IF c.ok THEN Before(c.v, from[c.i]) ELSE c
        from[j \in i .. Len(text) + 1] ==
            IF At(text, j) = Quote THEN Done(<<>>, j + 1) ELSE then(Char(text, j), from)
    IN from[i]

(* The functions of the parser call each other through read, a function on  *)
(* the name of the one called, the place in the text and the depth.         *)

(* array: from an item on. *)
Items(read, text, i, depth) ==
    LET next(r, j) ==
            IF ~r.ok THEN r
            ELSE CASE At(text, j) = "," -> Before(r.v, read["items", j + 1, depth])
                   [] At(text, j) = "]" -> Done(<<r.v>>, j + 1)
                   [] OTHER -> Fail(j)
        after(r) == next(r, SkipSpace(text, r.i))
    IN after(read["value", SkipSpace(text, i), depth + 1])

(* object: from a key on; of equal keys the last one counts. *)
Members(read, text, i, depth) ==
    LET over(key, v, rest) == IF rest.ok THEN Done(rest.v @@ (key :> v), rest.i) ELSE rest
        next(key, r, j) ==
            IF ~r.ok THEN r
            ELSE CASE At(text, j) = "," -> over(key, r.v, read["members", j + 1, depth])
                   [] At(text, j) = "}" -> Done(key :> r.v, j + 1)
                   [] OTHER -> Fail(j)
        after(key, r) == next(key, r, SkipSpace(text, r.i))
        value(key, j) ==
            IF ~key.ok THEN key
            ELSE IF At(text, j) # ":" THEN Fail(j)
            ELSE after(key.v, read["value", SkipSpace(text, j + 1), depth + 1])
        colon(key) == value(key, SkipSpace(text, key.i))
        open(j) == IF At(text, j) = Quote THEN colon(Chars(text, j + 1)) ELSE Fail(j)
    IN open(SkipSpace(text, i))

(* value_at *)
Value(read, text, i, depth) ==
    LET as(kind, r) == IF r.ok THEN Done(<<kind, r.v>>, r.i) ELSE r
        unless(end, j, rest) == IF At(text, j) = end THEN Done(<<>>, j + 1) ELSE rest
        of(c) ==
            CASE c \in Literals -> Done(<<"lit", c>>, i + 1)
              [] c \in DecimalDigits \cup {"-"} -> Numeral(text, i)
              [] c = Quote -> as("str", Chars(text, i + 1))
              [] c = "[" -> as("arr", unless("]", SkipSpace(text, i + 1),
                                             read["items", i + 1, depth]))
              [] c = "{" -> as("obj", unless("}", SkipSpace(text, i + 1),
                                             read["members", i + 1, depth]))
              [] OTHER -> Fail(i)
    IN IF depth > MaxDepth THEN Fail(i) ELSE of(At(text, i))

(* parse: nothing may follow the value. *)
Parse(text) ==
    LET read[f \in {"value", "items", "members"}, i \in 1 .. Len(text) + 1,
             depth \in 0 .. MaxDepth + 1] ==
            CASE f = "value" -> Value(read, text, i, depth)
              [] f = "items" -> Items(read, text, i, depth)
              [] f = "members" -> Members(read, text, i, depth)
        end(r, j) == IF ~r.ok \/ j = Len(text) + 1 THEN r ELSE Fail(j)
        after(r) == end(r, SkipSpace(text, r.i))
    IN after(read["value", SkipSpace(text, 1), 0])
------------------------------------------------------------------------------
(* write_string: escapes what it must. *)
WriteChar(c) ==
    CASE c = "NL" -> <<Slash, "n">>
      [] c \in {Quote, Slash} -> <<Slash, c>>
      [] c = Control -> <<Slash, "u", Control>>
      [] OTHER -> <<c>>
WriteString(s) == <<Quote>> \o FlattenSeq([i \in DOMAIN s |-> WriteChar(s[i])]) \o <<Quote>>

(* format_number: an infinite number is null, and zero has no sign.         *)
FormatNumber(neg, digits, point) ==
    CASE digits = <<"inf">> -> <<"null">>
      [] digits = <<>> -> <<"0">>
      [] OTHER -> InFull(neg, digits, point)

Separated(parts) ==
    FlattenSeq([i \in DOMAIN parts |-> IF i = 1 THEN parts[i] ELSE <<",">> \o parts[i]])

(* stringify, write_value *)
RECURSIVE Stringify(_)
Stringify(v) ==
    CASE v[1] = "lit" -> <<v[2]>>
      [] v[1] = "num" -> FormatNumber(v[2], v[3], v[4])
      [] v[1] = "str" -> WriteString(v[2])
      [] v[1] = "arr" ->
            <<"[">> \o Separated([i \in DOMAIN v[2] |-> Stringify(v[2][i])]) \o <<"]">>
      [] v[1] = "obj" ->
            LET keys == SetToSeq(DOMAIN v[2])
            IN <<"{">> \o Separated([i \in DOMAIN keys |->
                             WriteString(keys[i]) \o <<":">> \o Stringify(v[2][keys[i]])])
                   \o <<"}">>
------------------------------------------------------------------------------
(* The reference: the values a text may denote, one or none, by the rules   *)
(* of the grammar on all the ways to cut the text up.                       *)
Trimmed(s) ==
    LET I == {i \in DOMAIN s : s[i] # " "}
    IN IF I = {} THEN <<>> ELSE SubSeq(s, Min(I), Max(I))

(* s in pieces, cut at some of the symbols c in it, in every way. *)
Cuts(s, c) ==
    {LET ends == SetToSortSeq(C \cup {0, Len(s) + 1}, <)
     IN [k \in 1 .. Cardinality(C) + 1 |-> SubSeq(s, ends[k] + 1, ends[k + 1] - 1)] :
        C \in SUBSET {i \in DOMAIN s : s[i] = c}}

(* The sequences with an element of each set. *)
OneOfEach(sets) == {l \in [DOMAIN sets -> UNION Range(sets)] :
                       \A k \in DOMAIN sets : l[k] \in sets[k]}

Pair == <<Slash, "u", "D83D", Slash, "u", "DE00">>
CharTexts ==   \* the ways to write one character
    {<<Pair, Joined>>}
        \cup {<< <<Slash, "u", u>>, Units[u]>> : u \in DOMAIN Units}
        \cup {<< <<Slash, e>>, Escapes[e]>> : e \in DOMAIN Escapes}

Strings(s) ==
    LET ways == [i \in DOMAIN s |->
            LET rest == SubSeq(s, i, Len(s)) IN
            IF IsPrefix(Pair, rest) THEN {<<Pair, Joined>>}
            ELSE {w \in CharTexts : IsPrefix(w[1], rest)}
                 \cup {<< <<c>>, c>> : c \in {s[i]} \ {Quote, Slash, Control, "NL"}}]
        from[i \in 1 .. Len(s) + 1] ==
            IF i > Len(s) THEN {<<>>}
            ELSE UNION {{<<w[2]>> \o r : r \in from[i + Len(w[1])]} : w \in ways[i]}
    IN from[1]

(* A numeral, by all the ways to cut it into integer, fraction and exponent. *)
Numerals(s) ==
    LET some(t) == t # <<>> /\ Range(t) \subseteq DecimalDigits
        first == IF Head(s) = "-" THEN 2 ELSE 1
        int(b) == SubSeq(s, first, b)
        frac(b, c) == SubSeq(s, b + 2, c)
        exp(c) == SubSeq(s, c + 2, Len(s))
        cuts == {<<b, c>> \in (first..Len(s)) \X (first..Len(s)) :
                    /\ some(int(b)) /\ (Head(int(b)) = "0" => b = first)
                    /\ c = b \/ (c > b /\ s[b + 1] = "." /\ some(frac(b, c)))
                    /\ \/ c = Len(s)
                       \/ /\ s[c + 1] = "e" /\ exp(c) # <<>>
                          /\ \/ some(exp(c))
                             \/ (Head(exp(c)) \in {"+", "-"} /\ some(Tail(exp(c))))}
    IN {Float(first = 2, int(cut[1]), frac(cut[1], cut[2]), exp(cut[2])) : cut \in cuts}

Quoted(s) == IF Len(s) >= 2 /\ Head(s) = Quote /\ Last(s) = Quote
             THEN Strings(SubSeq(s, 2, Len(s) - 1)) ELSE {}

(* Of two members with one key the last counts. *)
Object(members) ==
    [k \in {members[n][1] : n \in DOMAIN members} |->
        members[Max({n \in DOMAIN members : members[n][1] = k})][2]]

RECURSIVE Denoted(_, _)
Denoted(text, depth) ==
    LET values(t) == Denoted(t, depth + 1)
        members(t) == UNION {Quoted(Trimmed(p[1])) \X values(p[2]) :
                                p \in {p \in Cuts(t, ":") : Len(p) = 2}}
        parted(inner, parts(_)) ==
            IF Trimmed(inner) = <<>> THEN {<<>>}
            ELSE UNION {OneOfEach([k \in DOMAIN p |-> parts(p[k])]) : p \in Cuts(inner, ",")}
        within(s, a, b, parts(_)) ==
            IF Len(s) >= 2 /\ Head(s) = a /\ Last(s) = b
            THEN parted(SubSeq(s, 2, Len(s) - 1), parts) ELSE {}
        of(s) ==
            {<<"lit", c>> : c \in {c \in Literals : s = <<c>>}}
            \cup (IF s # <<>> /\ Head(s) \in DecimalDigits \cup {"-"} THEN Numerals(s) ELSE {})
            \cup {<<"str", c>> : c \in Quoted(s)}
            \cup {<<"arr", l>> : l \in within(s, "[", "]", values)}
            \cup {<<"obj", Object(l)>> : l \in within(s, "{", "}", members)}
    IN IF depth > MaxDepth THEN {} ELSE of(Trimmed(text))

(* What JSON.stringify keeps of a value: numbers that are not finite become *)
(* null, and zero loses its sign.                                           *)
RECURSIVE Kept(_)
Kept(v) ==
    CASE v[1] = "num" /\ v[3] = <<"inf">> -> Null
      [] v[1] = "num" /\ v[3] = <<>> -> <<"num", FALSE, <<>>, 0>>
      [] v[1] \in {"arr", "obj"} -> <<v[1], [k \in DOMAIN v[2] |-> Kept(v[2][k])]>>
      [] OTHER -> v

(* json.rs parse, stringify - the parser takes exactly the texts of the     *)
(* grammar, for the value they denote.  What the serializer writes of it is *)
(* read as that value again, but for an infinite number, which is null, and *)
(* for the sign of zero; and a second trip changes nothing more.            *)
ReadsTheGrammar(text) ==
    LET written(v) == /\ Parse(Stringify(v)) = Done(Kept(v), Len(Stringify(v)) + 1)
                      /\ Stringify(Kept(v)) = Stringify(v)
        agrees(r) == /\ Denoted(text, 0) = IF r.ok THEN {r.v} ELSE {}
                     /\ r.ok => written(r.v)
    IN agrees(Parse(text))
==============================================================================

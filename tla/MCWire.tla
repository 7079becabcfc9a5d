------------------------------- MODULE MCWire -------------------------------
(* Messages of each kind, alone and one after another; bodies that look     *)
(* like requests; limits that some of them pass by one.  Texts of brackets, *)
(* of strings with escapes, of an object with a key twice, and of numerals. *)
EXTENDS Wire

Msg(line, fields, chunks) ==
    [line |-> <<line>>, fields |-> fields, chunks |-> chunks, eol |-> CRLF,
     after |-> CRLF, trailers |-> <<>>, blanks |-> 0]

Plain == Msg("get", <<>>, <<>>)
Head10 == [Msg("head", <<"other">>, <<>>) EXCEPT !.eol = <<"LF">>]
Post == Msg("get", <<"len2">>, << <<"get", "LF">> >>)
Chunked == [Msg("get", <<"te">>, << <<"LF">>, <<"size0", "CR">> >>) EXCEPT !.eol = <<"LF">>]
Trailed == [Chunked EXCEPT !.chunks = <<>>, !.trailers = <<"get">>]
Late == [Post EXCEPT !.blanks = 1]
Kept10 == Msg("get10", <<"keep">>, <<>>)
Good == {Plain, Head10, Post, Chunked, Trailed, Kept10, Late}

Bad == {Msg("v2", <<>>, <<>>), Msg("bad", <<>>, <<>>), Msg("get", <<"bad">>, <<>>),
        Msg("get", <<"te", "len1">>, << <<"x">> >>), Msg("get", <<"gzip">>, <<>>),
        Msg("get", <<"len1", "len2">>, << <<"x">> >>),
        Msg("get", <<"len9">>, << <<"x", "x", "x", "x", "x", "x", "x", "x", "x">> >>),
        Msg("get", <<"te">>, << <<"x", "x">>, <<"x", "x">> >>),
        [Chunked EXCEPT !.after = <<"LF", "LF">>],
        [Trailed EXCEPT !.trailers = <<"x", "x", "x">>], [Trailed EXCEPT !.trailers = <<"x", "x">>],
        Msg("get", <<"other", "other">>, <<>>),
        Msg("get10", <<>>, <<>>), Msg("get", <<"close">>, <<>>),
        Msg("get", <<"len1", "expect">>, << <<"LF">> >>)}

MCScripts ==
    {<<a, b>> : a \in Good, b \in Good} \cup {<<a, b>> : a \in Bad, b \in {Plain, Post}}
        \cup {<<Chunked, b>> : b \in Bad}
MCResponses == {[status |-> 200, body |-> <<"x">>], [status |-> 204, body |-> <<"x">>]}

MCSymbols == Lines \cup Fields \cup DOMAIN Sizes \cup {"v2", "bad", "x"}

Structure == {"[", "]", "{", "}", ",", ":", Quote, "7", " "}

Seed(kind, start, symbols, upTo) ==
    [kind |-> kind, text |-> start, symbols |-> symbols, upTo |-> upTo]
Given(kind, texts) == {Seed(kind, t, {}, 0) : t \in texts}

JsonSeeds ==
    {Seed("json", <<>>, Structure, 6),
     Seed("json", <<"[", "[">>, Structure, 7),
     Seed("json", <<Quote>>, {Quote, Slash, "u", "n", "D83D", "DE00", "E9"}, 8),
     Seed("json", <<Quote>>, {Quote, Slash, "u", "n", "CTL", "NL", "a"}, 6),
     Seed("json", <<"{", Quote, Quote, ":", "7", ",", Quote, Quote, ":">>,
          Structure \cup {"true"}, 13),
     Seed("json", <<"[">>, {"-", "0", "7", "e", "null", ",", "]"}, 7)}

(* A token that begins like the server's, and any; a header likewise.       *)
Mine == JwtSign("u", 0, Secret)
TokenSeeds ==
    LET other == JwtSign("v", 0, "other")
        old == JwtSign("u", 1, Secret)
        symbols == {Dot1, JwtHead, Junk, Claims("v", 0), Last(other), Last(old)}
    IN {Seed("token", <<>>, symbols \cup {Last(Mine)}, 3),
        Seed("token", SubSeq(Mine, 1, 3), symbols \cup {Last(Mine)}, 6),
        Seed("token", SubSeq(old, 1, 3), symbols, 6),
        Seed("token", JwtSign("none", 0, Secret), symbols, 6),
        Seed("token", JwtSign("v", BadExp, Secret), {Dot1}, 6)}
        \cup {Seed("token", <<JwtHead, Dot1, Claims("v", e)>>,
                   symbols \cup {Mac(Secret, <<JwtHead, Dot1, Claims("v", e)>>)}, 5) : e \in -1..7}
        \cup LET input == <<JwtHead, Junk, Dot1, Claims("u", 7)>>
             IN {Seed("token", input, {Dot1, Mac(Secret, input)}, 7)}
EventSeeds ==
    LET signed(n) == Mac(Secret, <<Stamp(n), Dot1, Junk>>)
        symbols == {Comma1, Equals1, <<"t">>, <<"v1">>, Stamp(3), Stamp(7), signed(3)}
        t(n) == <<(<<"t">>), Equals1, Stamp(n)>>
        v(c) == <<(<<"v1">>), Equals1, c>>
    IN {Seed("event", <<>>, symbols, 4),
        Seed("event", t(3) \o <<Comma1>>, symbols, 8),
        Seed("event", v(signed(3)) \o <<Comma1>>, symbols \cup {Blank1}, 8)}
        \cup {Seed("event", t(n) \o <<Comma1>> \o v(signed(n)), {Comma1}, 8) : n \in -8..7}
        \cup {Seed("event", v(Junk) \o <<Comma1>> \o v(signed(3)) \o <<Comma1>> \o t(3), {Blank1}, 12)}

MCSeeds ==
    [hash |-> {Seed("hash", <<>>, {}, 0)},
     numeral |-> {Seed("numeral", <<>>, {"-", "0", "7", ".", "e", "+"}, 6)},
     json |-> JsonSeeds, token |-> TokenSeeds, event |-> EventSeeds,
     hex |-> {Seed("hex", <<>>, {48, 97, 70, 71, 47}, 4)},
     base64 |-> {Seed("base64", <<>>, {65, 122, 57, 43, 95, 61, 33}, 5)},
     percent |-> {Seed("percent", <<>>, {37, 52, 97, 43, 103}, 6)},
     cookie |-> {Seed("cookie", <<>>, {97, 98, 61, 59, 32}, 6)},
     query |-> {Seed("query", <<37, 54, 49>>, {97, 98, 61, 38, 43}, 8)},
     target |-> {Seed("target", <<47>>, {47, 46, 37, 50, 101, 63}, 6),
                 Seed("target", <<47, 37, 50, 101, 46>>, {47, 46, 37, 50, 101, 48}, 8),
                 Seed("target", <<>>, {47, 46, 58, 63, 97, 42}, 6)},
     forwarded |-> {Seed("forwarded", <<>>, {44, 32, 97, 98}, 6)},
     bytes |-> {Seed("bytes", <<>>, {0, 255, 43, 98}, 5)},
     ages |-> {Seed("ages", <<>>, 1..4, 7)},
     day |-> Given("day", {<<1461 * k + d>> : k \in 0..60, d \in {0, 58, 59, 60, 365, 789}}
                          \cup {<<36524 * k + d>> : k \in 1..40, d \in -1..1}),
     second |-> Given("second", {<<86400 * d + s>> : d \in {0, 58, 59, 789, 11016, 20000},
                                                     s \in {0, 59, 60, 3599, 3600, 86399}}),
     pbkdf2 |-> Given("pbkdf2", {0, 5, 6} \X {0, 1, 3} \X {0, 3, 4, 7}),
     salsa |-> Given("salsa", {[i \in 1..16 |-> (a * i * i + b) % 256] : a \in 0..3, b \in 0..3}),
     scrypt |-> Given("scrypt",
                      {0, 6} \X {2, 4} \X {1, 2} \X {1, 2} \X {4}
                      \cup {5} \X (0..3) \X {0, 1} \X {0, 1} \X {0, 2}
                      \cup {<<5, 2, 40, 1, 2>>, <<5, 2, 1, 40, 2>>, <<5, 16, 1, 1, 2>>})]

(* A hash that every byte of every block changes. *)
MCChain(blocks) ==
    LET mixed(h, byte) == (h * 31 + byte + 500) % 9973
        h == FoldLeft(LAMBDA a, block : FoldLeft(mixed, a, block), 7, blocks)
    IN <<>> \o [i \in 1..DigestLen |-> ((h * (2 * i + 1)) \div (i * i + 2)) % 2^ByteBits]
(* A core in which every word counts, and whose place. *)
MCCore(w) == <<>> \o [i \in 1..CoreWords |-> (3 * w[i] + w[(i % CoreWords) + 1] + i) % 2^WordBits]
==============================================================================

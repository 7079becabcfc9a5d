-------------------------------- MODULE Wire --------------------------------
(***************************************************************************)
(* What a server does with bytes: module Framing, and beside it what works  *)
(* on the bytes of a request: the readers of bodies, headers and tokens,    *)
(* whose text grows by a symbol at a time, and the hasher, which is fed a   *)
(* piece at a time.  Each behaviour is one of the three.                    *)
(*                                                                          *)
(* A seed is a text to begin with, and says who reads it (kind), which      *)
(* symbols may follow, and up to which length.  For what reads numbers the  *)
(* text is the numbers.                                                     *)
(***************************************************************************)
EXTENDS Framing, JsonText, Kdf, Signed, Eviction, Calendar

CONSTANTS Seeds,    \* a set of seeds for each kind
          MaxFed    \* bound: bytes fed to the hasher

VARIABLES text, seed

wireVars == <<framingVars, text, seed, digestVars>>

NoSeed == [kind |-> "none", text |-> <<>>, symbols |-> {}, upTo |-> 0]

Name == <<97>>  \* the cookie or the parameter that is asked for
Salt == <<1, 2>>
Password(len) == <<>> \o [i \in 1..len |-> (3 * i + len) % 2^ByteBits]

Framed == FramingInit /\ text = <<>> /\ seed = NoSeed
NotFramed == /\ script = <<>> /\ sent = 0 /\ wire = <<>> /\ buf = <<>>
             /\ p = Refuse(Fresh, 0) /\ got = <<>> /\ out = <<>> /\ stopping = FALSE

WireInit ==
    /\ DigestInit
    /\ \/ Framed
       \/ NotFramed /\ \E kind \in DOMAIN Seeds : seed \in Seeds[kind] /\ text = seed.text

(* A JSON text that cannot become valid is not made longer, but for numerals. *)
Type(c) ==
    /\ Len(text) < seed.upTo
    /\ seed.kind = "json" => LET r == Parse(text) IN r.ok \/ r.i = Len(text) + 1
    /\ text' = Append(text, c)
    /\ UNCHANGED <<framingVars, seed, digestVars>>

(* The bytes are all different: the n-th byte fed is n. *)
Hash(n) ==
    /\ seed.kind = "hash" /\ Len(fed) + n <= MaxFed
    /\ Feed([i \in 1..n |-> Len(fed) + i])
    /\ UNCHANGED <<framingVars, text, seed>>

WireNext ==
    \/ FramingNext /\ UNCHANGED <<text, seed, digestVars>>
    \/ \E c \in seed.symbols : Type(c)
    \/ \E n \in 0..MaxFed : Hash(n)

WireSpec == WireInit /\ [][WireNext]_wireVars

(* json.rs:163, crypto.rs, kdf.rs, http.rs, auth.rs:80, stripe.rs:282 and   *)
(* stores.rs:32 - of every text that is typed: what is read of it is what   *)
(* its grammar says, what is written is read back, what is signed is        *)
(* accepted for its signer alone, and the keys derived by it are those of   *)
(* the standards.                                                           *)
TextsAreReadAndWritten ==
    /\ seed.kind \in {"json", "numeral"} => ReadsTheGrammar(text)
    /\ IsReadAs(seed.kind, text, Name)
    /\ seed.kind = "token" => TokenIsTheSigners(text)
    /\ seed.kind = "event" => EventIsTheSigners(<<Junk>>, text)
    /\ seed.kind = "ages" => OldestAreEvicted(text)
    /\ seed.kind = "day" => DayIsRight(text[1])
    /\ seed.kind = "second" => DateIsRight(text[1])
    /\ seed.kind = "pbkdf2" => Pbkdf2IsStandard(Password(text[1]), Salt, text[2], text[3])
    /\ seed.kind = "salsa" => SalsaIsStandard(text)
    /\ seed.kind = "scrypt" =>
         ScryptIsStandard(Password(text[1]), Salt, text[2], text[3], text[4], text[5])
==============================================================================

------------------------------- MODULE Signed -------------------------------
(***************************************************************************)
(* The two signed texts that the server reads: the session token of auth.rs *)
(* (sign, verify) and the Stripe-Signature header of stripe.rs.             *)
(*                                                                          *)
(* A text is a sequence of symbols.  A signature is one symbol that says    *)
(* what it was made from: nobody makes one without the secret, and two      *)
(* messages never share one.  A token's header and body, and a timestamp,   *)
(* are a symbol each.                                                       *)
(***************************************************************************)
EXTENDS Codec

CONSTANTS I64Max,      \* numbers are in -I64Max - 1..I64Max
          Tolerance,   \* DEFAULT_WEBHOOK_TOLERANCE_SECS
          Secret, Now  \* the secret that the server has, and its clock

ASSUME SignedAssumption == {I64Max, Tolerance, Now} \subseteq Nat

NoExp == -1   \* a body without exp, or with null
BadExp == -2  \* a fraction, a number out of range, or no number
Dot1 == <<".">>
Comma1 == <<",">>
Equals1 == <<"=">>
Blank1 == <<" ">>
Junk == <<"junk">>
JwtHead == <<"head">>
Claims(user, exp) == <<"body", user, exp>>
Stamp(n) == <<"stamp", n>>
Mac(secret, msg) == <<"mac", secret, msg>>

Failed1(why) == [error |-> why, user |-> "none", exp |-> NoExp]
------------------------------------------------------------------------------
(* jwt_sign *)
JwtSign(user, exp, secret) ==
    LET input == <<JwtHead, Dot1, Claims(user, exp)>>
    IN input \o <<Dot1, Mac(secret, input)>>

(* jwt_verify: the signature is compared before the body is looked at. *)
JwtVerify(token, secret, now) ==
    LET parts == SplitAt(token, Dot1)
        expected == <<Mac(secret, parts[1] \o <<Dot1>> \o parts[2])>>
        claims == parts[2][1]
    IN IF Len(parts) # 3 \/ <<>> \in ToSet(parts) THEN Failed1("Malformed")
       ELSE IF parts[3] # expected THEN Failed1("BadSignature")
       ELSE IF \/ Len(parts[2]) # 1 \/ claims[1] # "body"
               \/ claims[2] = "none" \/ claims[3] = BadExp THEN Failed1("Malformed")
       ELSE IF claims[3] \notin {NoExp, 0} /\ now > claims[3] THEN Failed1("Expired")
       ELSE [error |-> "none", user |-> claims[2], exp |-> claims[3]]

(* parse_sig_header: the first t, and every v1. *)
FieldsOf(header, key) ==
    LET named == SelectSeq(SplitAt(header, Comma1),
                           LAMBDA part : /\ Holds(part, Equals1)
                                         /\ Trim(KeyOf(part, Equals1), Blank1) = <<key>>)
    IN [i \in DOMAIN named |-> Trim(ValueOf(named[i], Equals1), Blank1)]

Saturated(n) == IF n > I64Max THEN I64Max ELSE IF n < -I64Max - 1 THEN -I64Max - 1 ELSE n

(* verify_signature *)
WebhookVerify(payload, header, secret, now) ==
    LET v1 == FieldsOf(header, <<"v1">>)
        t == FieldsOf(header, <<"t">>)
        ts == t[1]
        age == Saturated(now - ts[1][2])
        expected == <<Mac(secret, ts \o <<Dot1>> \o payload)>>
    IN IF secret = "empty" THEN "EmptySecret"
       ELSE IF v1 = <<>> THEN "NoSignatures"
       ELSE IF t = <<>> \/ ts = <<>> THEN "MissingTimestamp"
       ELSE IF Len(ts) # 1 \/ ts[1][1] # "stamp" THEN "InvalidTimestamp"
       ELSE IF Saturated(IF age < 0 THEN -age ELSE age) > Tolerance
            THEN "TimestampOutsideTolerance"
       ELSE IF expected \in ToSet(v1) THEN "none" ELSE "NoMatchingSignature"
------------------------------------------------------------------------------
(* auth.rs, jwt_verify - a token is accepted for the user and the time that *)
(* its signer wrote, and "expired" is said of the server's own tokens only. *)
TokenIsTheSigners(token) ==
    LET r == JwtVerify(token, Secret, Now)
        before == SubSeq(token, 1, Len(token) - 2)
        signed == Len(token) >= 5 /\ Last(token) = Mac(Secret, before)
                  /\ \E h \in 1..(Len(token) - 4) : token[h + 1] = Dot1
    IN /\ r.error = "none" => /\ signed /\ Last(before) = Claims(r.user, r.exp)
                              /\ r.exp \in {NoExp, 0} \/ Now <= r.exp
       /\ r.error = "Expired" =>
            signed /\ Now > Last(before)[3]
       /\ \A user \in {"u", "v"}, exp \in {NoExp} \cup 0..I64Max :
            LET own == JwtVerify(JwtSign(user, exp, Secret), Secret, Now)
            IN IF exp \in {NoExp, 0} \/ Now <= exp
               THEN own = [error |-> "none", user |-> user, exp |-> exp]
               ELSE own.error = "Expired"

(* stripe.rs, construct_event - an event is accepted only if the holder of  *)
(* the secret signed this payload at a time that is near, however the       *)
(* fields are repeated or ordered; and if a header has one t and any v1 of  *)
(* the kind, it is accepted.                                                *)
EventIsTheSigners(payload, header) ==
    LET accepted == WebhookVerify(payload, header, Secret, Now) = "none"
        near == {n \in (-I64Max - 1)..I64Max : n - Now \in -Tolerance..Tolerance}
        signature(n) == Mac(Secret, <<Stamp(n), Dot1>> \o payload)
        parts == SplitAt(header, Comma1)
        at(c) == Cardinality({i \in DOMAIN header : header[i] = c})
    IN /\ accepted => \E n \in near : Holds(header, Stamp(n)) /\ Holds(header, signature(n))
       /\ (/\ at(<<"t">>) = 1
           /\ \E n \in near : /\ <<(<<"t">>), Equals1, Stamp(n)>> \in ToSet(parts)
                              /\ <<(<<"v1">>), Equals1, signature(n)>> \in ToSet(parts))
          => accepted
==============================================================================

----------------------------- MODULE AtomicData ------------------------------
(***************************************************************************)
(* What open_remote and Pool::transaction promise of a database that many   *)
(* processes share, without saying how: tables and columns come first or    *)
(* late, but once; the seed and every account appear in one step, whole,    *)
(* once and for good; and an account is acknowledged, if it ever is, by the *)
(* step that it appears in.  Remote implements this specification.          *)
(***************************************************************************)
CONSTANTS Users, None

VARIABLES data, acked

SeedRows == {<<"venue", None>>, <<"menu", None>>}
AccountRows(u) == {<<"user", u>>, <<"auth", u>>}

Init ==
    /\ data \in {{}, {<<"create", None>>}}
    /\ acked = {}

(* New tables have every column. *)
Create ==
    /\ <<"create", None>> \notin data
    /\ data' = data \cup {<<"create", None>>, <<"alter", None>>}
    /\ UNCHANGED acked

Widen ==
    /\ <<"alter", None>> \notin data
    /\ data' = data \cup {<<"alter", None>>}
    /\ UNCHANGED acked

Seed ==
    /\ SeedRows \cap data = {}
    /\ data' = data \cup SeedRows
    /\ UNCHANGED acked

CreateAccount(u) ==
    /\ AccountRows(u) \cap data = {}
    /\ data' = data \cup AccountRows(u)
    /\ acked' \in {acked, acked \cup {u}}

Next == Create \/ Widen \/ Seed \/ \E u \in Users : CreateAccount(u)

Spec == Init /\ [][Next]_<<data, acked>>
==============================================================================

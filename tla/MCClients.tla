----------------------------- MODULE MCClients -----------------------------
(***************************************************************************)
(* Small casts of client programs for TLC.                                 *)
(***************************************************************************)
EXTENDS Clients, TLC

CONSTANTS a, k1, c1, c2, c3, c4

(* A three-bit int in place of the 32-bit one. *)
Int3Min == -4
Int3Max == 3

Zero == to_string(0)

Text == [kind |-> "text", n |-> 1]

Runs(main, inTransaction, username, value, after) ==
    [main |-> main, useTransaction |-> inTransaction, username |-> username,
     table |-> a, key |-> k1, value |-> value, after |-> after]

Setting(v) == Runs("set_value", FALSE, TRUE, v, {})

Getting(after) == Runs("get_value", FALSE, TRUE, Absent, after)

Incrementing(inTransaction, after) == Runs("incr_value", inTransaction, TRUE, Absent, after)

(***************************************************************************)
(* Two transactions and a reader at once on a number; the same on a text,  *)
(* where the increment without -t fails and the one with -t ends the       *)
(* server; increments one after the other, and a reader nobody knows.      *)
(***************************************************************************)
SmallCasts ==
    {c1 :> Setting(Zero) @@ c2 :> Incrementing(TRUE, {c1})
        @@ c3 :> Incrementing(TRUE, {c1}) @@ c4 :> Getting({c1}),
     c1 :> Setting(Text) @@ c2 :> Incrementing(FALSE, {c1})
        @@ c3 :> Incrementing(TRUE, {c1}) @@ c4 :> Getting({c1}),
     c1 :> Setting(Zero) @@ c2 :> Runs("get_value", FALSE, FALSE, Absent, {c1})
        @@ c3 :> Incrementing(FALSE, {c1}) @@ c4 :> Incrementing(TRUE, {c3})}

SmallRequests ==
    {Msg(type, a, k1, Absent) : type \in {"GET", "SET"}}
       \cup {Msg("PUSH", NULL, NULL, v) : v \in {Zero, Text, to_string(1)}}
       \cup {Plain(type) : type \in {"LOGIN", "BEGIN", "ADD", "TOP", "COMMIT", "BYE"}}
=============================================================================

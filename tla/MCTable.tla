------------------------------ MODULE MCTable ------------------------------
(* Instance of TableObject for TLC: two keys, two stored strings. *)
EXTENDS TableObject

Int3Min == -4
Int3Max == 3

TwoStrings == {to_string(1), [kind |-> "text", n |-> 1]}
=============================================================================

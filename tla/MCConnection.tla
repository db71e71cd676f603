--------------------------- MODULE MCConnection ---------------------------
(***************************************************************************)
(* Small instances of ClientConnection for TLC.  Each definition below is  *)
(* the set of requests the clients of one run choose from.                 *)
(***************************************************************************)
EXTENDS StoreRefinement, TLC

CONSTANTS a, b, k1

Symmetry == Permutations(Conns)

(* A three-bit int in place of the 32-bit one. *)
Int3Min == -4
Int3Max == 3

Num(i) == to_string(i)

OnTable(types, names) == {Msg(ty, n, k1, Absent) : ty \in types, n \in names}

Creates(names) == {Msg("CREATE", n, NULL, Absent) : n \in names}

Pushes(values) == {Msg("PUSH", NULL, NULL, v) : v \in values}

Plains(types) == {Plain(ty) : ty \in types}

(* Two existing tables, taken in either order: transactions and single *)
(* requests on both, on connections that need no LOGIN.                *)
LockRequests ==
    OnTable({"SET"}, {a, b}) \cup OnTable({"GET"}, {a}) \cup Pushes({Num(1)})
       \cup Plains({"BEGIN", "COMMIT"})

(* One name that does not exist at first: creation and use. *)
CreateRequests ==
    OnTable({"GET", "SET"}, {a}) \cup Creates({a}) \cup Pushes({Num(1)})
       \cup Plains({"LOGIN", "BEGIN", "COMMIT", "BYE"})

(* The stack, with operands at the edges of int and one that is no number; *)
(* and a line that is a message but no request.                            *)
ArithmeticRequests ==
    Pushes({Num(0), Num(Int3Min), Num(Int3Max), Num(-1),
            [kind |-> "lead", n |-> 2], [kind |-> "text", n |-> 1]})
       \cup Plains({"LOGIN", "POP", "TOP", "BEGIN", "NONE"} \cup ArithmeticTypes)

PopRequests == Plains({"LOGIN", "BEGIN", "POP"})

SetRequests == OnTable({"SET"}, {a}) \cup Pushes({Num(1)}) \cup Plains({"LOGIN"})

CreateOnlyRequests == Creates({a}) \cup Plains({"LOGIN"})
=============================================================================

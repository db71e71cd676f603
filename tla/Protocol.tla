------------------------------ MODULE Protocol ------------------------------
(***************************************************************************)
(* The message types of the protocol between clients and server, and the   *)
(* number of arguments each takes.                                         *)
(***************************************************************************)

MessageType ==
    {"NONE", "LOGIN", "CREATE", "PUSH", "POP", "TOP", "SET", "GET", "ADD",
     "SUB", "MUL", "DIV", "BEGIN", "COMMIT", "BYE", "OK", "FAILED", "ERROR",
     "DATA"}

OneArgument == {"LOGIN", "CREATE", "PUSH", "FAILED", "ERROR", "DATA"}

TwoArguments == {"SET", "GET"}

ArgumentCount ==
    [ty \in MessageType |-> CASE ty \in OneArgument  -> 1
                              [] ty \in TwoArguments -> 2
                              [] OTHER               -> 0]
=============================================================================

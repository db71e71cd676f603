--------------------------- MODULE StringValue ---------------------------
(***************************************************************************)
(* The strings the server stores: stack entries and table values are all   *)
(* std::string.  A string is abstracted to what the code can observe of    *)
(* it: its identity, whether it is empty, and what std::stoi reads from    *)
(* it.                                                                     *)
(*                                                                         *)
(*   "num"   the decimal text std::to_string(n) produces for n             *)
(*   "lead"  any other text from which std::stoi reads n ("+7", "07", "7x")*)
(*   "text"  a text with no leading number; n only tells texts apart       *)
(*   "empty" the empty string (n = 0)                                      *)
(***************************************************************************)
EXTENDS Integers

CONSTANTS
    IntMin,  \* smallest value of C++ int  (-2^31 in the build)
    IntMax   \* largest value of C++ int   (2^31 - 1 in the build)

ASSUME IntAssumption ==
    /\ IntMin \in Int
    /\ IntMax \in Int
    /\ IntMax >= 1
    /\ IntMin = -IntMax - 1

String == [kind : {"num", "lead", "text", "empty"}, n : Int]

(* int64_t, at twice the width of int. *)
Int64Max == 2 * (IntMax + 1) * (IntMax + 1) - 1

Int64Min == -Int64Max - 1

EmptyString == [kind |-> "empty", n |-> 0]

(* Stands where no string is: an absent map entry, a message without value. *)
Absent == [kind |-> "absent", n |-> 0]

(* A plausible slip: a wider parse (std::stoll) in place of std::stoi. *)
stoll_succeeds(s) == s.kind \in {"num", "lead"}

(* std::stoi returns a value, rather than throwing invalid_argument (no      *)
(* leading number) or out_of_range (the number does not fit an int).         *)
stoi_succeeds(s) ==
    /\ s.kind \in {"num", "lead"}
    /\ s.n >= IntMin
    /\ s.n <= IntMax

stoi(s) == s.n

to_string(i) == [kind |-> "num", n |-> i]

Abs(i) == IF i < 0 THEN -i ELSE i

(* C++ integer division truncates toward zero; TLA+ \div rounds down. *)
CDiv(x, y) ==
    LET q == Abs(x) \div Abs(y)
    IN  IF (x < 0) = (y < 0) THEN q ELSE -q

ArithmeticTypes == {"ADD", "SUB", "MUL", "DIV"}

(* The four lambdas handed to arithmetic_request_handler: a is the value     *)
(* popped first (the top of the stack), b the one below it.                  *)
operation(type, a, b) ==
    CASE type = "ADD" -> a + b
      [] type = "MUL" -> a * b
      [] type = "SUB" -> b - a
      [] type = "DIV" -> CDiv(b, a)
=============================================================================

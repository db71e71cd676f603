---------------------------- MODULE ValueStack ----------------------------
(***************************************************************************)
(* class ValueStack: a std::stack of strings (top at the head of stk) and  *)
(* a separate element count, total, that alone decides emptiness; and the  *)
(* arithmetic a connection performs on its stack.                          *)
(***************************************************************************)
EXTENDS StringValue, Sequences

(* is_empty, get_top and pop test total before touching stk, so the two must *)
(* agree at every call.                                                      *)
StackState == {s \in [stk : Seq(String), total : Nat] : s.total = Len(s.stk)}

NewStack == [stk |-> << >>, total |-> 0]

is_empty(s) == s.total = 0

push(s, v) == [stk |-> <<v>> \o s.stk, total |-> s.total + 1]

(* get_top and pop throw OperationException on an empty stack, so both are   *)
(* used below only under ~is_empty.                                          *)
get_top(s) == Head(s.stk)

(* A plausible slip: the count is decreased and the value stays. *)
pop_count_only(s) == [s EXCEPT !.total = @ - 1]

pop(s) == [stk |-> Tail(s.stk), total |-> s.total - 1]

(***************************************************************************)
(* pop_two_values pops before it checks: the operands are gone whatever    *)
(* the outcome, and with a single entry that entry is gone too.            *)
(***************************************************************************)
after_pop_two(s) ==
    IF is_empty(s) THEN s
    ELSE IF is_empty(pop(s)) THEN pop(s)
    ELSE pop(pop(s))

pop_two_succeeds(s) ==
    /\ ~is_empty(s)
    /\ ~is_empty(pop(s))
    /\ stoi_succeeds(get_top(s))
    /\ stoi_succeeds(get_top(pop(s)))

val1(s) == stoi(get_top(s))

val2(s) == stoi(get_top(pop(s)))
=============================================================================

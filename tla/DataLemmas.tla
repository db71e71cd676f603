---------------------------- MODULE DataLemmas ----------------------------
(***************************************************************************)
(* What the operations of class Table, of class ValueStack and of the      *)
(* arithmetic return and preserve.                                         *)
(***************************************************************************)
EXTENDS Table, ValueStack, SequenceTheorems, TLAPS

(* No string is the mark of an absent entry. *)
LEMMA AbsentIsNoString ==
    Absent \notin String /\ EmptyString \in String
  BY DEF Absent, String, EmptyString

(* The constructor builds a table with nothing pending. *)
LEMMA NewTableType ==
    NewTable \in TableState /\ Clean(NewTable)
  BY DEF NewTable, TableState, Map, EmptyMap, Clean

(* Table::set stores into a well-formed table. *)
LEMMA SetType ==
    ASSUME NEW tb \in TableState, NEW k \in Keys, NEW v \in String
    PROVE  set(tb, k, v) \in TableState
  BY DEF set, TableState, Map

(* Table::get returns a string for every key, present or not. *)
LEMMA GetType ==
    ASSUME NEW tb \in TableState, NEW k \in Keys
    PROVE  get(tb, k) \in String
  BY AbsentIsNoString DEF get, TableState, Map

(* What Table::get leaves behind is well formed and has the same pending     *)
(* changes.                                                                  *)
LEMMA GetEffectType ==
    ASSUME NEW tb \in TableState, NEW k \in Keys
    PROVE  /\ get_effect(tb, k) \in TableState
           /\ get_effect(tb, k).tempMap = tb.tempMap
  BY AbsentIsNoString DEF get_effect, TableState, Map

(* Table::commit_changes leaves nothing pending. *)
LEMMA CommitType ==
    ASSUME NEW tb \in TableState
    PROVE  commit_changes(tb) \in TableState /\ Clean(commit_changes(tb))
  BY DEF commit_changes, Overlay, TableState, Map, EmptyMap, Clean

(* Table::rollback_changes leaves nothing pending. *)
LEMMA RollbackType ==
    ASSUME NEW tb \in TableState
    PROVE  rollback_changes(tb) \in TableState /\ Clean(rollback_changes(tb))
  BY DEF rollback_changes, TableState, Map, EmptyMap, Clean

-----------------------------------------------------------------------------
(* The stack.                                                                *)

(* A new ValueStack is empty and counts no element. *)
LEMMA NewStackType == NewStack \in StackState
  BY EmptySeq DEF NewStack, StackState

(* push adds one element and counts it. *)
LEMMA PushType ==
    ASSUME NEW s \in StackState, NEW v \in String
    PROVE  push(s, v) \in StackState
  <1>1. <<v>> \o s.stk \in Seq(String) /\ Len(<<v>> \o s.stk) = 1 + Len(s.stk)
    BY ConcatProperties DEF StackState
  <1> QED
    BY <1>1 DEF push, StackState

(* Where total admits a pop, stk has an element to give up: the guards on    *)
(* total protect stk.                                                        *)
LEMMA PopType ==
    ASSUME NEW s \in StackState, ~is_empty(s)
    PROVE  pop(s) \in StackState /\ get_top(s) \in String
  <1>1. s.stk \in Seq(String) /\ s.stk # << >>
    BY EmptySeq DEF StackState, is_empty
  <1>2. /\ Head(s.stk) \in String
        /\ Tail(s.stk) \in Seq(String)
        /\ Len(Tail(s.stk)) = Len(s.stk) - 1
    BY <1>1, HeadTailProperties
  <1> QED
    BY <1>1, <1>2 DEF pop, get_top, is_empty, StackState

(* pop_two_values leaves a stack, whether or not it succeeds. *)
LEMMA PopTwoType ==
    ASSUME NEW s \in StackState
    PROVE  after_pop_two(s) \in StackState
  BY PopType DEF after_pop_two

(* The operands pop_two_values returns are ints. *)
LEMMA OperandsAreInts ==
    ASSUME NEW s \in StackState, pop_two_succeeds(s)
    PROVE  val1(s) \in IntMin .. IntMax /\ val2(s) \in IntMin .. IntMax
  <1>1. get_top(s) \in String /\ get_top(pop(s)) \in String
    BY PopType DEF pop_two_succeeds
  <1> QED
    BY <1>1, IntAssumption
       DEF pop_two_succeeds, stoi_succeeds, val1, val2, stoi, String

(* Every operation, division by zero apart, has an integer result. *)
LEMMA OperationType ==
    ASSUME NEW type \in ArithmeticTypes, NEW x \in Int, NEW y \in Int,
           type = "DIV" => x # 0
    PROVE  operation(type, x, y) \in Int
  <1>1. x # 0 => CDiv(y, x) \in Int
    BY DEF CDiv, Abs
  <1>2. x * y \in Int
    OBVIOUS
  <1> QED
    BY <1>1, <1>2 DEF operation, ArithmeticTypes

(* std::to_string of an integer is a string. *)
LEMMA ToStringType ==
    ASSUME NEW i \in Int
    PROVE  to_string(i) \in String
  BY DEF to_string, String
=============================================================================

-------------------------- MODULE ArithmeticProofs --------------------------
(***************************************************************************)
(* No number the server computes leaves int64_t, whatever the width of int *)
(* and however results travel through stacks and tables.                   *)
(***************************************************************************)
EXTENDS ConnectionProofs

Fits(v) == v.n \in Int64Min .. Int64Max

StackFits(s) == \A i \in DOMAIN s.stk : Fits(s.stk[i])

TableFits(tb) == \A k \in Keys : Fits(tb.theMap[k]) /\ Fits(tb.tempMap[k])

(* Clients push no number that is not an int64_t. *)
PushesFit == \A r \in Requests : Fits(r.value)

ValuesFit ==
    /\ \A c \in Conns : StackFits(client_stack[c])
    /\ \A t \in TableId : TableFits(tables[t])

-----------------------------------------------------------------------------
(* Arithmetic.                                                               *)

LEMMA ProductBound ==
    ASSUME NEW n \in Nat, NEW x \in 0 .. n, NEW y \in 0 .. n
    PROVE  x * y \in 0 .. n * n
    <1>1. x * y >= 0 /\ x * y <= x * n /\ x * n <= n * n
        OBVIOUS
    <1> QED
        BY <1>1

LEMMA QuotientBound ==
    ASSUME NEW x \in Nat, NEW y \in Nat \ {0}
    PROVE  x \div y \in 0 .. x
    OBVIOUS

LEMMA Int64Bounds ==
    ASSUME NEW n, n = IntMax + 1
    PROVE  /\ n \in Nat /\ n >= 2 /\ n * n \in Nat
           /\ Int64Min \in Int /\ Int64Max \in Int
           /\ Int64Min <= -(n * n) /\ n * n <= Int64Max
           /\ Int64Min <= -(2 * n) /\ 2 * n <= Int64Max
    <1>1. n \in Nat /\ n >= 2
        BY IntAssumption
    <1>2. n * n \in Nat /\ n * n >= 2 * n /\ n * n >= 4
        BY <1>1
    <1>3. Int64Max = 2 * (n * n) - 1
        BY IntAssumption, <1>1 DEF Int64Max
    <1> QED
        BY <1>1, <1>2, <1>3 DEF Int64Min

(* No operation on two ints leaves int64_t.                                  *)
LEMMA OperationFits ==
    ASSUME NEW type \in ArithmeticTypes,
           NEW x \in IntMin .. IntMax, NEW y \in IntMin .. IntMax,
           type = "DIV" => x # 0
    PROVE  operation(type, x, y) \in Int64Min .. Int64Max
    <1>1. PICK n : n = IntMax + 1
        OBVIOUS
    <1>2. /\ n \in Nat /\ n >= 2 /\ n * n \in Nat
          /\ Int64Min \in Int /\ Int64Max \in Int
          /\ Int64Min <= -(n * n) /\ n * n <= Int64Max
          /\ Int64Min <= -(2 * n) /\ 2 * n <= Int64Max
        BY <1>1, Int64Bounds
    <1>3. x \in -n .. n - 1 /\ y \in -n .. n - 1
        BY <1>1, IntAssumption
    <1>4. Abs(x) \in 0 .. n /\ Abs(y) \in 0 .. n
        BY <1>2, <1>3 DEF Abs
    <1>5. x + y \in Int64Min .. Int64Max /\ y - x \in Int64Min .. Int64Max
        BY <1>2, <1>3
    <1>6. x * y \in Int64Min .. Int64Max
        <2>1. Abs(x) * Abs(y) \in 0 .. n * n
            BY <1>2, <1>4, ProductBound
        <2>2. x * y = Abs(x) * Abs(y) \/ x * y = -(Abs(x) * Abs(y))
            BY <1>2, <1>3 DEF Abs
        <2> QED
            BY <1>2, <2>1, <2>2
    <1>7. x # 0 => CDiv(y, x) \in Int64Min .. Int64Max
        <2>1. SUFFICES ASSUME x # 0 PROVE CDiv(y, x) \in Int64Min .. Int64Max
            OBVIOUS
        <2>2. Abs(x) \in Nat \ {0}
            BY <1>2, <1>3, <2>1 DEF Abs
        <2>3. Abs(y) \div Abs(x) \in 0 .. Abs(y)
            BY <1>2, <1>4, <2>2, QuotientBound
        <2>4. PICK q : q = Abs(y) \div Abs(x)
            OBVIOUS
        <2>5. q \in 0 .. n
            BY <1>2, <1>4, <2>3, <2>4
        <2>6. CDiv(y, x) \in {q, -q}
            BY <2>4 DEF CDiv
        <2> QED
            BY <1>2, <2>5, <2>6
    <1> QED
        BY <1>5, <1>6, <1>7 DEF operation, ArithmeticTypes

-----------------------------------------------------------------------------
(* Stacks and tables.                                                        *)

LEMMA PushFits ==
    ASSUME NEW s \in StackState, StackFits(s), NEW v \in String, Fits(v)
    PROVE  StackFits(push(s, v))
    <1>1. s.stk \in Seq(String) /\ <<v>> \in Seq(String)
        BY DEF StackState
    <1>2. /\ Len(<<v>> \o s.stk) = 1 + Len(s.stk)
          /\ \A i \in 1 .. 1 + Len(s.stk) :
                (<<v>> \o s.stk)[i] = IF i = 1 THEN v ELSE s.stk[i - 1]
        BY <1>1, ConcatProperties
    <1>3. /\ DOMAIN (<<v>> \o s.stk) = 1 .. 1 + Len(s.stk)
          /\ DOMAIN s.stk = 1 .. Len(s.stk)
          /\ Len(s.stk) \in Nat
        BY <1>1, <1>2, ConcatProperties, LenProperties
    <1> QED
        BY <1>2, <1>3 DEF StackFits, push

LEMMA PopFits ==
    ASSUME NEW s \in StackState, StackFits(s), ~is_empty(s)
    PROVE  StackFits(pop(s)) /\ Fits(get_top(s))
    <1>1. s.stk \in Seq(String) /\ s.stk # << >>
        BY EmptySeq DEF StackState, is_empty
    <1>2. /\ Head(s.stk) = s.stk[1]
          /\ Tail(s.stk) \in Seq(String)
          /\ Len(Tail(s.stk)) = Len(s.stk) - 1
          /\ \A i \in 1 .. Len(Tail(s.stk)) : Tail(s.stk)[i] = s.stk[i + 1]
        BY <1>1, HeadTailProperties
    <1>3. /\ DOMAIN s.stk = 1 .. Len(s.stk) /\ Len(s.stk) \in Nat \ {0}
          /\ DOMAIN Tail(s.stk) = 1 .. Len(s.stk) - 1
        BY <1>1, <1>2, LenProperties, EmptySeq
    <1> QED
        BY <1>2, <1>3 DEF StackFits, pop, get_top

LEMMA PopTwoFits ==
    ASSUME NEW s \in StackState, StackFits(s)
    PROVE  StackFits(after_pop_two(s))
    BY PopFits, PopType DEF after_pop_two

LEMMA EmptyFits == Fits(EmptyString) /\ Fits(Absent) /\ TableFits(NewTable)
    <1>1. 0 \in Int64Min .. Int64Max
        BY Int64Bounds
    <1> QED
        BY <1>1 DEF Fits, EmptyString, Absent, TableFits, NewTable, EmptyMap

LEMMA TableOperationsFit ==
    ASSUME NEW tb \in TableState, TableFits(tb), NEW k \in Keys, NEW v, Fits(v)
    PROVE  /\ TableFits(set(tb, k, v))
           /\ Fits(get(tb, k)) /\ TableFits(get_effect(tb, k))
           /\ TableFits(commit_changes(tb)) /\ TableFits(rollback_changes(tb))
    <1>1. TableFits(set(tb, k, v))
        BY DEF TableFits, set, TableState, Map
    <1>2. Fits(get(tb, k)) /\ TableFits(get_effect(tb, k))
        BY EmptyFits DEF TableFits, get, get_effect, TableState, Map
    <1>3. TableFits(commit_changes(tb)) /\ TableFits(rollback_changes(tb))
        BY EmptyFits DEF TableFits, commit_changes, rollback_changes, Overlay, EmptyMap,
                         TableState, Map
    <1> QED
        BY <1>1, <1>2, <1>3

-----------------------------------------------------------------------------
(* The server.                                                               *)

LEMMA StackUpdate ==
    ASSUME TypeOK, ValuesFit, NEW c \in Conns, NEW s, StackFits(s),
           client_stack' = [client_stack EXCEPT ![c] = s]
    PROVE  \A d \in Conns : StackFits(client_stack'[d])
    BY DEF TypeOK, ValuesFit

LEMMA TableUpdate ==
    ASSUME TypeOK, ValuesFit, NEW t \in TableId, NEW tb, TableFits(tb),
           tables' = [tables EXCEPT ![t] = tb]
    PROVE  \A u \in TableId : TableFits(tables'[u])
    BY DEF TypeOK, ServerTypeOK, ValuesFit

(* Requests: only PUSH, POP and arithmetic change a stack, and no table.     *)
LEMMA RequestsFit ==
    ASSUME TypeOK, ValuesFit, PushesFit, NEW c \in Conns, NEW r \in Requests, Handle(c, r)
    PROVE  ValuesFit'
    <1>1. UNCHANGED tables
        BY DEF Handle, Login, NotLoggedIn, Unexpected, Push, Pop, Top, Arithmetic, Create,
               FindTable, Begin, Commit, Bye, store
    <1>2. client_stack[c] \in StackState /\ StackFits(client_stack[c])
        BY DEF TypeOK, ValuesFit
    <1>3. \A d \in Conns : StackFits(client_stack'[d])
        <2>1. CASE UNCHANGED client_stack
            BY <2>1 DEF ValuesFit
        <2>2. CASE Push(c, r)
            <3>1. r.value \in String /\ Fits(r.value)
                BY <2>2, RequestsAssumption
                DEF Push, Serve, Receive, Message, is_valid, PushesFit
            <3>2. StackFits(push(client_stack[c], r.value))
                BY <1>2, <3>1, PushFits
            <3>3. client_stack' = [client_stack EXCEPT ![c] = push(client_stack[c], r.value)]
                BY <2>2 DEF Push
            <3> QED
                BY <3>2, <3>3, StackUpdate
        <2>3. CASE Pop(c, r)
            <3>1. CASE ~is_empty(client_stack[c])
                <4>1. StackFits(pop(client_stack[c]))
                    BY <1>2, <3>1, PopFits
                <4>2. client_stack' = [client_stack EXCEPT ![c] = pop(client_stack[c])]
                    BY <2>3, <3>1 DEF Pop
                <4> QED
                    BY <4>1, <4>2, StackUpdate
            <3> QED
                BY <2>1, <2>3, <3>1 DEF Pop
        <2>4. CASE Arithmetic(c, r)
            <3>1. PICK s : s = after_pop_two(client_stack[c])
                OBVIOUS
            <3>2. s \in StackState /\ StackFits(s)
                BY <1>2, <3>1, PopTwoType, PopTwoFits
            <3>3. CASE client_stack' = [client_stack EXCEPT ![c] = s]
                BY <3>2, <3>3, StackUpdate
            <3>4. ASSUME pop_two_succeeds(client_stack[c]),
                         ~(r.type = "DIV" /\ val1(client_stack[c]) = 0),
                         NEW x, x = operation(r.type, val1(client_stack[c]), val2(client_stack[c])),
                         client_stack' = [client_stack EXCEPT ![c] = push(s, to_string(x))]
                  PROVE  \A d \in Conns : StackFits(client_stack'[d])
                <4>1. r.type \in ArithmeticTypes
                    BY <2>4 DEF Arithmetic, Serve, Receive
                <4>2. x \in Int64Min .. Int64Max
                    BY <1>2, <3>4, <4>1, OperandsAreInts, OperationFits
                <4>3. Fits(to_string(x)) /\ to_string(x) \in String
                    BY <4>2, Int64Bounds, ToStringType DEF Fits, to_string
                <4>4. StackFits(push(s, to_string(x)))
                    BY <3>2, <4>3, PushFits
                <4> QED
                    BY <3>4, <4>4, StackUpdate
            <3> QED
                BY <2>1, <2>4, <3>1, <3>3, <3>4 DEF Arithmetic
        <2> QED
            BY <2>1, <2>2, <2>3, <2>4
            DEF Handle, Login, NotLoggedIn, Unexpected, Top, Create, FindTable, Begin,
                Commit, Bye, session
    <1> QED
        BY <1>1, <1>3 DEF ValuesFit

(* A table gets only what is on a stack or in its own maps, and gives only   *)
(* that.                                                                     *)
LEMMA ThreadsFit ==
    ASSUME TypeOK, ControlInv, ValuesFit, NEW c \in Conns, Thread(c)
    PROVE  ValuesFit'
    <1>1. client_stack[c] \in StackState /\ StackFits(client_stack[c])
        BY DEF TypeOK, ValuesFit
    <1>2. \A t \in TableId : tables[t] \in TableState /\ TableFits(tables[t])
        BY DEF TypeOK, ServerTypeOK, ValuesFit
    <1>3. CASE CreateTable(c)
        <2>1. <<request[c].table, c>> \in TableId
            BY <1>3 DEF CreateTable, At, ControlInv, TableId
        <2>2. \A t \in TableId : TableFits(tables'[t])
            BY <1>3, <2>1, EmptyFits, TableUpdate DEF CreateTable, create_table
        <2> QED
            BY <1>3, <2>2 DEF CreateTable, session, ValuesFit
    <1>4. CASE Get(c)
        <2>1. PICK t, k : t = cur_table[c] /\ k = request[c].key
            OBVIOUS
        <2>2. t \in TableId /\ k \in Keys
            BY <1>4, <2>1 DEF Get, At, ControlInv
        <2>3. /\ get(tables[t], k) \in String /\ Fits(get(tables[t], k))
              /\ TableFits(get_effect(tables[t], k))
            BY <1>2, <2>2, GetType, EmptyFits, TableOperationsFit
        <2>4. StackFits(push(client_stack[c], get(tables[t], k)))
            BY <1>1, <2>3, PushFits
        <2>5. client_stack' = [client_stack EXCEPT ![c] =
                                  push(client_stack[c], get(tables[t], k))]
            BY <1>4, <2>1 DEF Get
        <2>6. tables' = [tables EXCEPT ![t] = get_effect(tables[t], k)]
            BY <1>4, <2>1 DEF Get
        <2>7. \A d \in Conns : StackFits(client_stack'[d])
            BY <2>4, <2>5, StackUpdate
        <2>8. \A u \in TableId : TableFits(tables'[u])
            BY <2>2, <2>3, <2>6, TableUpdate
        <2> QED
            BY <2>7, <2>8 DEF ValuesFit
    <1>5. CASE Set(c)
        <2>1. CASE is_empty(client_stack[c])
            BY <1>5, <2>1 DEF Set, ValuesFit
        <2>2. CASE ~is_empty(client_stack[c])
            <3>1. PICK t, k, v : /\ t = cur_table[c] /\ k = request[c].key
                                 /\ v = get_top(client_stack[c])
                OBVIOUS
            <3>2. t \in TableId /\ k \in Keys
                BY <1>5, <3>1 DEF Set, At, ControlInv
            <3>3. Fits(v) /\ StackFits(pop(client_stack[c]))
                BY <1>1, <2>2, <3>1, PopFits
            <3>4. TableFits(set(tables[t], k, v))
                BY <1>2, <3>2, <3>3, TableOperationsFit
            <3>5. client_stack' = [client_stack EXCEPT ![c] = pop(client_stack[c])]
                BY <1>5, <2>2 DEF Set
            <3>6. tables' = [tables EXCEPT ![t] = set(tables[t], k, v)]
                BY <1>5, <2>2, <3>1 DEF Set
            <3>7. \A d \in Conns : StackFits(client_stack'[d])
                BY <3>3, <3>5, StackUpdate
            <3>8. \A u \in TableId : TableFits(tables'[u])
                BY <3>2, <3>4, <3>6, TableUpdate
            <3> QED
                BY <3>7, <3>8 DEF ValuesFit
        <2> QED
            BY <2>1, <2>2
    <1>6. ASSUME NEW t \in TableId, UNCHANGED client_stack,
                 \/ tables' = [tables EXCEPT ![t] = commit_changes(tables[t])]
                 \/ tables' = [tables EXCEPT ![t] = rollback_changes(tables[t])]
          PROVE  ValuesFit'
        <2>1. TableFits(commit_changes(tables[t])) /\ TableFits(rollback_changes(tables[t]))
            BY <1>2, EmptyFits DEF TableFits, commit_changes, rollback_changes, Overlay,
                                   EmptyMap, NewTable, TableState, Map
        <2>2. \A u \in TableId : TableFits(tables'[u])
            BY <1>6, <2>1, TableUpdate
        <2> QED
            BY <1>6, <2>2 DEF ValuesFit
    <1>7. CASE AutoCommit(c)
        <2>1. cur_table[c] \in TableId
            BY <1>7 DEF AutoCommit, At, ControlInv
        <2> QED
            BY <1>6, <1>7, <2>1 DEF AutoCommit, session
    <1>8. CASE \E t \in TableId : CommitTable(c, t) \/ RollbackTable(c, t)
        BY <1>6, <1>8 DEF CommitTable, RollbackTable, session
    <1>9. CASE ReplyAndClose(c)
        <2>1. StackFits(NewStack)
            BY DEF StackFits, NewStack
        <2>2. \A d \in Conns : StackFits(client_stack'[d])
            BY <1>9, <2>1, StackUpdate DEF ReplyAndClose
        <2> QED
            BY <1>9, <2>2 DEF ReplyAndClose, store, ValuesFit
    <1>10. CASE UNCHANGED <<client_stack, tables>>
        BY <1>10 DEF ValuesFit
    <1> QED
        BY <1>3, <1>4, <1>5, <1>7, <1>8, <1>9, <1>10
        DEF Thread, Lock, LockHeld, Trylock, Committed, RolledBack, Reply, store, session

(* What arithmetic_request_handler computes fits the int64_t it is computed  *)
(* in, for every width of int, if clients push no number that does not.      *)
THEOREM ArithmeticIsSafe ==
    ASSUME PushesFit
    PROVE  Spec => []ArithmeticFitsInt64
    <1>1. Init => ValuesFit
        <2>1. StackFits(NewStack)
            BY DEF StackFits, NewStack
        <2> QED
            BY <2>1, EmptyFits DEF Init, ServerInit, ValuesFit
    <1>2. IInv /\ ValuesFit /\ [Next]_vars => ValuesFit'
        <2> SUFFICES ASSUME IInv, ValuesFit, [Next]_vars
                     PROVE  ValuesFit'
            OBVIOUS
        <2>1. CASE UNCHANGED vars
            BY <2>1 DEF vars, ValuesFit
        <2>2. CASE Next
            <3>1. PICK c \in Conns : Input(c) \/ Thread(c)
                BY <2>2 DEF Next
            <3>2. CASE Thread(c)
                BY <3>2, ThreadsFit DEF IInv
            <3>3. CASE \E r \in Requests : Handle(c, r)
                BY <3>3, RequestsFit DEF IInv
            <3>4. CASE UNCHANGED <<client_stack, tables>>
                BY <3>4 DEF ValuesFit
            <3> QED
                BY <3>1, <3>2, <3>3, <3>4
                DEF Input, Accept, AcceptFails, NoRequest, DecodeRunsOff, ReplyToDeadPeer,
                    store, session
        <2> QED
            BY <2>1, <2>2
    <1>3. ValuesFit => ArithmeticFitsInt64
        BY DEF ValuesFit, StackFits, Fits, ArithmeticFitsInt64
    <1> QED
        BY <1>1, <1>2, <1>3, Invariance, PTL DEF Spec
=============================================================================

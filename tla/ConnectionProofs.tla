-------------------------- MODULE ConnectionProofs --------------------------
(***************************************************************************)
(* The inductive invariant of ClientConnection and what follows from it,   *)
(* for every set of connections, names, keys and requests.                 *)
(***************************************************************************)
EXTENDS ClientConnection, DataLemmas

-----------------------------------------------------------------------------
(* Every step keeps TypeOK.                                                  *)

(* The messages the handlers build are well formed. *)
LEMMA PlainType ==
    ASSUME NEW type \in MessageType
    PROVE  Plain(type) \in Message
  BY DEF Plain, Msg, Message

(* So are the ones that carry a value. *)
LEMMA DataType ==
    ASSUME NEW v \in String
    PROVE  Msg("DATA", NULL, NULL, v) \in Message
  BY DEF Msg, Message, MessageType

(* The part of TypeOK that the end of an iteration decides. *)
ResponseTypeOK ==
    /\ pc \in [Conns -> PC]
    /\ response \in [Conns -> Message]
    /\ keep_going \in [Conns -> BOOLEAN]

(* Leaving a response is well typed and does not end the process. *)
LEMMA RespondType ==
    ASSUME TypeOK, NEW c \in Conns, NEW m \in Message,
           Respond(c, m) \/ RespondLast(c, m)
    PROVE  /\ ResponseTypeOK'
           /\ process' = process
           /\ pc' = [pc EXCEPT ![c] = "replying"]
  <1>1. /\ pc \in [Conns -> PC]
        /\ response \in [Conns -> Message]
        /\ keep_going \in [Conns -> BOOLEAN]
    BY DEF TypeOK
  <1>2. /\ pc' = [pc EXCEPT ![c] = "replying"]
        /\ response' = [response EXCEPT ![c] = m]
        /\ keep_going' \in {keep_going, [keep_going EXCEPT ![c] = FALSE]}
        /\ process' = process
    BY DEF Respond, RespondLast, Goto
  <1>3. pc' \in [Conns -> PC]
    BY <1>1, <1>2 DEF PC
  <1>4. response' \in [Conns -> Message]
    BY <1>1, <1>2
  <1>5. keep_going' \in [Conns -> BOOLEAN]
    BY <1>1, <1>2
  <1> QED
    BY <1>2, <1>3, <1>4, <1>5 DEF ResponseTypeOK

(* An OperationException is answered, or ends the process with the request   *)
(* unanswered.                                                               *)
LEMMA OperationFailsType ==
    ASSUME TypeOK, NEW c \in Conns, OperationFails(c)
    PROVE  /\ ResponseTypeOK'
           /\ process' \in {process, "FailedTransaction"}
           /\ \/ transaction_mode[c] /\ pc' = pc
              \/ ~transaction_mode[c] /\ pc' = [pc EXCEPT ![c] = "replying"]
  <1>1. CASE transaction_mode[c] /\ Dies("FailedTransaction")
    BY <1>1 DEF Dies, TypeOK, ResponseTypeOK
  <1>2. CASE ~transaction_mode[c] /\ Respond(c, Plain("FAILED"))
    <2>1. Plain("FAILED") \in Message
      BY PlainType DEF MessageType
    <2> QED
      BY <1>2, <2>1, RespondType
  <1> QED
    BY <1>1, <1>2 DEF OperationFails

(* What a request carries where is_valid lets it through. *)
LEMMA RequestType ==
    ASSUME NEW r \in Requests
    PROVE  /\ r \in Message
           /\ r.type \in {"CREATE", "GET", "SET"} => r.table \in Names
           /\ r.type \in {"GET", "SET"} => r.key \in Keys
           /\ r.type = "PUSH" => r.value \in String
  BY RequestsAssumption DEF Message, is_valid

-----------------------------------------------------------------------------
(***************************************************************************)
(* Type correctness.                                                       *)
(***************************************************************************)

(* A received request is a message. *)
LEMMA ReceiveType ==
    ASSUME TypeOK, NEW c \in Conns, NEW r \in Requests, NEW types,
           Receive(c, r, types) \/ Serve(c, r, types)
    PROVE  /\ request' \in [Conns -> Message]
           /\ request' = [request EXCEPT ![c] = r]
           /\ process = "running" /\ pc[c] = "reading" /\ r.type \in types
  <1>1. /\ request' = [request EXCEPT ![c] = r]
        /\ process = "running" /\ pc[c] = "reading" /\ r.type \in types
    BY DEF Receive, Serve, At
  <1>2. request \in [Conns -> Message]
    BY DEF TypeOK
  <1>3. r \in Message
    BY RequestType
  <1> QED
    BY <1>1, <1>2, <1>3

(* Accepting, failing to accept, and reading something that is no request.   *)
LEMMA EnvironmentTypes ==
    ASSUME TypeOK, NEW c \in Conns,
           \/ Accept(c) \/ AcceptFails(c) \/ NoRequest(c)
           \/ DecodeRunsOff(c) \/ ReplyToDeadPeer(c)
    PROVE  TypeOK'
  <1> USE DEF store, session, transaction
  <1>1. CASE Accept(c)
    <2>1. PICK byte \in FreshLogin : logged_in' = [logged_in EXCEPT ![c] = byte]
      BY <1>1 DEF Accept
    <2>2. logged_in' \in [Conns -> {"no", "yes", "garbage"}]
      BY <2>1, BoundsAssumption DEF TypeOK
    <2>3. pc' \in [Conns -> PC]
      BY <1>1 DEF Accept, Goto, TypeOK, PC
    <2> QED
      BY <1>1, <2>2, <2>3 DEF Accept, TypeOK, ServerTypeOK
  <1>2. CASE AcceptFails(c)
    <2>1. pc' \in [Conns -> PC]
      BY <1>2 DEF AcceptFails, Goto, TypeOK, PC
    <2> QED
      BY <1>2, <2>1 DEF AcceptFails, TypeOK, ServerTypeOK
  <1>3. CASE NoRequest(c)
    <2>1. Plain("ERROR") \in Message
      BY PlainType DEF MessageType
    <2>2. ResponseTypeOK' /\ process' = process
      BY <1>3, <2>1, RespondType DEF NoRequest
    <2> QED
      BY <1>3, <2>2 DEF NoRequest, TypeOK, ServerTypeOK, ResponseTypeOK
  <1>4. CASE DecodeRunsOff(c) \/ ReplyToDeadPeer(c)
    BY <1>4 DEF DecodeRunsOff, ReplyToDeadPeer, Dies, TypeOK, ServerTypeOK,
                TerminationCauses
  <1> QED
    BY <1>1, <1>2, <1>3, <1>4

(* Requests answered without a change of anything but the session or the     *)
(* transaction mode.                                                         *)
LEMMA PlainRequestTypes ==
    ASSUME TypeOK, NEW c \in Conns, NEW r \in Requests,
           \/ Login(c, r) \/ NotLoggedIn(c, r) \/ Unexpected(c, r)
           \/ Begin(c, r) \/ Bye(c, r) \/ Commit(c, r)
    PROVE  TypeOK'
  <1> USE DEF store, session, transaction
  <1>1. Plain("OK") \in Message /\ Plain("ERROR") \in Message
    BY PlainType DEF MessageType
  <1>2. request' \in [Conns -> Message]
    BY ReceiveType DEF Login, NotLoggedIn, Unexpected, Begin, Bye, Commit
  <1>3. ResponseTypeOK' /\ process' = process
    <2>1. CASE Commit(c, r)
      BY <2>1 DEF Commit, Goto, TypeOK, PC, ResponseTypeOK
    <2>2. CASE ~Commit(c, r)
      BY <1>1, <2>2, RespondType DEF Login, NotLoggedIn, Unexpected, Begin, Bye
    <2> QED
      BY <2>1, <2>2
  <1>4. logged_in' \in [Conns -> {"no", "yes", "garbage"}]
    BY DEF TypeOK, Login, NotLoggedIn, Unexpected, Begin, Bye, Commit
  <1>5. transaction_mode' \in [Conns -> BOOLEAN]
    BY DEF TypeOK, Login, NotLoggedIn, Unexpected, Begin, Bye, Commit
  <1>6. UNCHANGED <<server_tables, tables, m_mutex, client_stack,
                    locked_tables, cur_table>>
    BY DEF Login, NotLoggedIn, Unexpected, Begin, Bye, Commit
  <1> QED
    BY <1>2, <1>3, <1>4, <1>5, <1>6 DEF TypeOK, ServerTypeOK, ResponseTypeOK

(* Pushing, popping and reading the connection's stack, and arithmetic on it,*)
(* successful or not.                                                        *)
LEMMA StackRequestTypes ==
    ASSUME TypeOK, NEW c \in Conns, NEW r \in Requests,
           Push(c, r) \/ Pop(c, r) \/ Top(c, r) \/ Arithmetic(c, r)
    PROVE  TypeOK'
  <1> USE DEF store, session, transaction
  <1>1. Plain("OK") \in Message
    BY PlainType DEF MessageType
  <1>2. request' \in [Conns -> Message]
    BY ReceiveType DEF Push, Pop, Top, Arithmetic
  <1>3. UNCHANGED <<server_tables, tables, m_mutex, logged_in, transaction_mode,
                    locked_tables, cur_table>>
    BY DEF Push, Pop, Top, Arithmetic
  <1>4. SUFFICES /\ ResponseTypeOK'
                 /\ process' \in {process} \cup TerminationCauses
                 /\ client_stack' \in [Conns -> StackState]
    BY <1>2, <1>3 DEF TypeOK, ServerTypeOK, ResponseTypeOK
  <1>5. client_stack \in [Conns -> StackState]
    BY DEF TypeOK
  <1>6. OperationFails(c) => ResponseTypeOK' /\ process' \in {process} \cup TerminationCauses
    BY OperationFailsType DEF TerminationCauses
  <1>7. \A m \in Message : Respond(c, m) => ResponseTypeOK' /\ process' = process
    BY RespondType
  <1>8. CASE Push(c, r)
    <2>1. r.value \in String
      BY <1>8, RequestType, ReceiveType DEF Push
    <2>2. push(client_stack[c], r.value) \in StackState
      BY <2>1, <1>5, PushType
    <2> QED
      BY <1>8, <1>1, <1>5, <1>7, <2>2 DEF Push
  <1>9. CASE Pop(c, r)
    <2>1. ~is_empty(client_stack[c]) => pop(client_stack[c]) \in StackState
      BY <1>5, PopType
    <2> QED
      BY <1>9, <1>1, <1>5, <1>6, <1>7, <2>1 DEF Pop
  <1>10. CASE Top(c, r)
    <2>1. ~is_empty(client_stack[c])
             => Msg("DATA", NULL, NULL, get_top(client_stack[c])) \in Message
      BY <1>5, PopType, DataType
    <2> QED
      BY <1>10, <1>5, <1>6, <1>7, <2>1 DEF Top
  <1>11. CASE Arithmetic(c, r)
    <2> DEFINE s == client_stack[c]
    <2>1. s \in StackState /\ after_pop_two(s) \in StackState
      BY <1>5, PopTwoType
    <2>2. r.type \in ArithmeticTypes
      BY <1>11, ReceiveType DEF Arithmetic
    <2>3. ASSUME pop_two_succeeds(s), ~(r.type = "DIV" /\ val1(s) = 0)
          PROVE  push(after_pop_two(s),
                      to_string(operation(r.type, val1(s), val2(s)))) \in StackState
      <3>1. val1(s) \in Int /\ val2(s) \in Int
        BY <2>1, <2>3, OperandsAreInts, IntAssumption
      <3>2. operation(r.type, val1(s), val2(s)) \in Int
        BY <3>1, <2>2, <2>3, OperationType
      <3> QED
        BY <3>2, <2>1, ToStringType, PushType
    <2>4. CASE ~pop_two_succeeds(s)
      BY <1>11, <2>4, <2>1, <1>5, <1>6 DEF Arithmetic
    <2>5. CASE pop_two_succeeds(s) /\ r.type = "DIV" /\ val1(s) = 0
      <3>1. Dies("SIGFPE") /\ UNCHANGED client_stack
        BY <1>11, <2>5 DEF Arithmetic
      <3> QED
        BY <3>1, <1>5 DEF Dies, TypeOK, ResponseTypeOK, TerminationCauses
    <2>6. CASE pop_two_succeeds(s) /\ ~(r.type = "DIV" /\ val1(s) = 0)
      <3>1. /\ client_stack' = [client_stack EXCEPT ![c] =
                   push(after_pop_two(s),
                        to_string(operation(r.type, val1(s), val2(s))))]
            /\ Respond(c, Plain("OK"))
        BY <1>11, <2>6 DEF Arithmetic
      <3> QED
        BY <3>1, <2>3, <2>6, <1>1, <1>5, <1>7
    <2> QED
      BY <2>4, <2>5, <2>6
  <1> QED
    BY <1>8, <1>9, <1>10, <1>11

(* A connection that creates a table names it after its request. *)
LEMMA CreateTypes ==
    ASSUME TypeOK, ControlInv, NEW c \in Conns,
           (\E r \in Requests : Create(c, r)) \/ CreateTable(c)
    PROVE  TypeOK'
  <1> USE DEF store, session, transaction
  <1>1. Plain("OK") \in Message /\ Plain("ERROR") \in Message
    BY PlainType DEF MessageType
  <1>2. ASSUME NEW r \in Requests, Create(c, r)
        PROVE  TypeOK'
    <2>1. request' \in [Conns -> Message]
      BY <1>2, ReceiveType DEF Create
    <2>2. ResponseTypeOK' /\ process' = process
      <3>1. CASE RespondLast(c, Plain("ERROR"))
        BY <3>1, <1>1, RespondType
      <3>2. CASE Goto(c, "creating") /\ UNCHANGED <<process, response, keep_going>>
        BY <3>2 DEF Goto, TypeOK, PC, ResponseTypeOK
      <3> QED
        BY <1>2, <3>1, <3>2 DEF Create
    <2> QED
      BY <1>2, <2>1, <2>2 DEF Create, TypeOK, ServerTypeOK, ResponseTypeOK
  <1>3. CASE CreateTable(c)
    <2> DEFINE n == request[c].table
    <2>1. n \in Names
      BY <1>3 DEF CreateTable, At, ControlInv
    <2>2. <<n, c>> \in TableId
      BY <2>1 DEF TableId
    <2>3. ResponseTypeOK' /\ process' = process
      BY <1>1, <1>3, RespondType DEF CreateTable
    <2>4. server_tables' \in [Names -> TableId \cup {NULL}]
      BY <1>3, <2>1, <2>2 DEF CreateTable, create_table, TypeOK, ServerTypeOK
    <2>5. tables' \in [TableId -> TableState]
      BY <1>3, <2>2, NewTableType DEF CreateTable, create_table, TypeOK, ServerTypeOK
    <2>6. m_mutex' \in [TableId -> Conns \cup {NULL}]
      BY <1>3, <2>2 DEF CreateTable, create_table, TypeOK, ServerTypeOK
    <2> QED
      BY <1>3, <2>3, <2>4, <2>5, <2>6 DEF CreateTable, TypeOK, ServerTypeOK, ResponseTypeOK
  <1> QED
    BY <1>2, <1>3

(* Looking a table up and taking its mutex, or not. *)
LEMMA LockingTypes ==
    ASSUME TypeOK, ControlInv, NEW c \in Conns,
           \/ \E r \in Requests : FindTable(c, r)
           \/ Lock(c) \/ LockHeld(c) \/ Trylock(c)
    PROVE  TypeOK'
  <1> USE DEF store, session, transaction
  <1>1. ASSUME NEW r \in Requests, FindTable(c, r)
        PROVE  TypeOK'
    <2>1. request' \in [Conns -> Message]
      BY <1>1, ReceiveType DEF FindTable
    <2>2. find_table(r.table) \in TableId \cup {NULL}
      BY <1>1, ReceiveType, RequestType DEF FindTable, find_table, TypeOK, ServerTypeOK
    <2>3. CASE RespondLast(c, Plain("ERROR")) /\ UNCHANGED cur_table
      <3>1. Plain("ERROR") \in Message
        BY PlainType DEF MessageType
      <3>2. ResponseTypeOK' /\ process' = process
        BY <2>3, <3>1, RespondType
      <3> QED
        BY <1>1, <2>1, <2>3, <3>2 DEF FindTable, TypeOK, ServerTypeOK, ResponseTypeOK
    <2>4. CASE /\ cur_table' = [cur_table EXCEPT ![c] = find_table(r.table)]
               /\ Goto(c, "locking")
               /\ UNCHANGED <<process, response, keep_going>>
      <3>1. cur_table' \in [Conns -> TableId \cup {NULL}]
        BY <2>2, <2>4 DEF TypeOK
      <3>2. ResponseTypeOK'
        BY <2>4 DEF Goto, TypeOK, PC, ResponseTypeOK
      <3> QED
        BY <1>1, <2>1, <2>4, <3>1, <3>2 DEF FindTable, TypeOK, ServerTypeOK, ResponseTypeOK
    <2> QED
      BY <1>1, <2>3, <2>4 DEF FindTable
  <1>2. CASE Lock(c) \/ LockHeld(c) \/ Trylock(c)
    <2> DEFINE t == cur_table[c]
    <2>1. t \in TableId
      BY <1>2 DEF Lock, LockHeld, Trylock, At, ControlInv
    <2>2. \E point \in {"working", "rolling"} : Goto(c, point)
      BY <1>2 DEF Lock, LockHeld, Trylock
    <2>3. pc' \in [Conns -> PC]
      BY <2>2 DEF Goto, TypeOK, PC
    <2>4. m_mutex' \in [TableId -> Conns \cup {NULL}]
      BY <1>2, <2>1 DEF Lock, LockHeld, Trylock, lock, TypeOK, ServerTypeOK
    <2>5. locked_tables' \in [Conns -> SUBSET TableId]
      BY <1>2, <2>1 DEF Lock, LockHeld, Trylock, TypeOK
    <2>6. UNCHANGED <<process, server_tables, tables, logged_in, client_stack,
                      transaction_mode, request, cur_table, response, keep_going>>
      BY <1>2 DEF Lock, LockHeld, Trylock
    <2> QED
      BY <2>3, <2>4, <2>5, <2>6 DEF TypeOK, ServerTypeOK
  <1> QED
    BY <1>1, <1>2

(* Reading and writing a table the thread has locked. *)
LEMMA AccessTypes ==
    ASSUME TypeOK, ControlInv, NEW c \in Conns,
           Get(c) \/ Set(c) \/ AutoCommit(c)
    PROVE  TypeOK'
  <1> USE DEF store, session, transaction
  <1> DEFINE t == cur_table[c]
             k == request[c].key
             st == client_stack[c]
  <1>1. Plain("OK") \in Message
    BY PlainType DEF MessageType
  <1>2. /\ t \in TableId /\ tables[t] \in TableState
        /\ st \in StackState
        /\ tables \in [TableId -> TableState]
        /\ client_stack \in [Conns -> StackState]
    BY DEF Get, Set, AutoCommit, At, ControlInv, TypeOK, ServerTypeOK
  <1>3. AfterAccess(c) => ResponseTypeOK' /\ process' = process
    <2>1. CASE Respond(c, Plain("OK"))
      BY <2>1, <1>1, RespondType
    <2>2. CASE Goto(c, "finishing") /\ UNCHANGED <<process, response, keep_going>>
      BY <2>2 DEF Goto, TypeOK, PC, ResponseTypeOK
    <2> QED
      BY <2>1, <2>2 DEF AfterAccess
  <1>4. UNCHANGED <<server_tables, logged_in, transaction_mode, locked_tables,
                    request, cur_table>>
    BY DEF Get, Set, AutoCommit
  <1>5. SUFFICES /\ ResponseTypeOK'
                 /\ process' \in {process} \cup TerminationCauses
                 /\ client_stack' \in [Conns -> StackState]
                 /\ tables' \in [TableId -> TableState]
                 /\ m_mutex' \in [TableId -> Conns \cup {NULL}]
    BY <1>4 DEF TypeOK, ServerTypeOK, ResponseTypeOK
  <1>6. m_mutex \in [TableId -> Conns \cup {NULL}]
    BY DEF TypeOK, ServerTypeOK
  <1>7. CASE Get(c)
    <2>1. k \in Keys
      BY <1>7 DEF Get, At, ControlInv
    <2>2. push(st, get(tables[t], k)) \in StackState
      BY <1>2, <2>1, GetType, PushType
    <2>3. get_effect(tables[t], k) \in TableState
      BY <1>2, <2>1, GetEffectType
    <2> QED
      BY <1>2, <1>3, <1>6, <1>7, <2>2, <2>3 DEF Get
  <1>8. CASE Set(c)
    <2>1. k \in Keys
      BY <1>8 DEF Set, At, ControlInv
    <2>2. CASE is_empty(st)
      BY <1>2, <1>6, <1>8, <2>2, OperationFailsType DEF Set, TerminationCauses
    <2>3. CASE ~is_empty(st)
      <3>1. pop(st) \in StackState /\ get_top(st) \in String
        BY <1>2, <2>3, PopType
      <3>2. set(tables[t], k, get_top(st)) \in TableState
        BY <1>2, <2>1, <3>1, SetType
      <3> QED
        BY <1>2, <1>3, <1>6, <1>8, <2>3, <3>1, <3>2 DEF Set
    <2> QED
      BY <2>2, <2>3
  <1>9. CASE AutoCommit(c)
    <2>1. commit_changes(tables[t]) \in TableState
      BY <1>2, CommitType
    <2>2. ResponseTypeOK' /\ process' = process
      BY <1>1, <1>9, RespondType DEF AutoCommit
    <2> QED
      BY <1>2, <1>6, <1>9, <2>1, <2>2 DEF AutoCommit, unlock
  <1> QED
    BY <1>7, <1>8, <1>9

(* The loops of commit_tables and rollback_tables, and what follows them. *)
LEMMA TransactionTypes ==
    ASSUME TypeOK, NEW c \in Conns,
           \/ \E t \in TableId : CommitTable(c, t) \/ RollbackTable(c, t)
           \/ Committed(c) \/ RolledBack(c)
    PROVE  TypeOK'
  <1> USE DEF store, session, transaction
  <1>1. ASSUME NEW t \in TableId, CommitTable(c, t) \/ RollbackTable(c, t)
        PROVE  TypeOK'
    <2>1. tables[t] \in TableState
      BY DEF TypeOK, ServerTypeOK
    <2>2. commit_changes(tables[t]) \in TableState /\ rollback_changes(tables[t]) \in TableState
      BY <2>1, CommitType, RollbackType
    <2>3. tables' \in [TableId -> TableState]
      BY <1>1, <2>2 DEF CommitTable, RollbackTable, TypeOK, ServerTypeOK
    <2>4. m_mutex' \in [TableId -> Conns \cup {NULL}]
      BY <1>1 DEF CommitTable, RollbackTable, unlock, TypeOK, ServerTypeOK
    <2>5. locked_tables' \in [Conns -> SUBSET TableId]
      BY <1>1 DEF CommitTable, RollbackTable, TypeOK
    <2>6. UNCHANGED <<process, server_tables, pc, logged_in, client_stack,
                      transaction_mode, request, cur_table, response, keep_going>>
      BY <1>1 DEF CommitTable, RollbackTable
    <2> QED
      BY <2>3, <2>4, <2>5, <2>6 DEF TypeOK, ServerTypeOK
  <1>2. CASE Committed(c) \/ RolledBack(c)
    <2>1. Plain("OK") \in Message /\ Plain("FAILED") \in Message
      BY PlainType DEF MessageType
    <2>2. ResponseTypeOK' /\ process' = process
      BY <1>2, <2>1, RespondType DEF Committed, RolledBack
    <2>3. transaction_mode' \in [Conns -> BOOLEAN]
      BY <1>2 DEF Committed, RolledBack, TypeOK
    <2> QED
      BY <1>2, <2>2, <2>3 DEF Committed, RolledBack, TypeOK, ServerTypeOK, ResponseTypeOK
  <1> QED
    BY <1>1, <1>2

(* The end of an iteration, and of the connection. *)
LEMMA ReplyTypes ==
    ASSUME TypeOK, NEW c \in Conns, Reply(c) \/ ReplyAndClose(c)
    PROVE  TypeOK'
  <1> USE DEF store, session, transaction
  <1>1. NoMessage \in Message
    BY PlainType DEF NoMessage, MessageType
  <1>2. /\ request' \in [Conns -> Message]
        /\ cur_table' \in [Conns -> TableId \cup {NULL}]
        /\ response' \in [Conns -> Message]
    BY <1>1 DEF Reply, ReplyAndClose, EndOfRequest, TypeOK
  <1>3. pc' \in [Conns -> PC]
    BY DEF Reply, ReplyAndClose, Goto, TypeOK, PC
  <1>4. client_stack' \in [Conns -> StackState]
    BY NewStackType DEF Reply, ReplyAndClose, TypeOK
  <1>5. /\ logged_in' \in [Conns -> {"no", "yes", "garbage"}]
        /\ transaction_mode' \in [Conns -> BOOLEAN]
        /\ locked_tables' \in [Conns -> SUBSET TableId]
    BY DEF Reply, ReplyAndClose, TypeOK
  <1> QED
    BY <1>2, <1>3, <1>4, <1>5 DEF Reply, ReplyAndClose, TypeOK, ServerTypeOK

(* No step takes the server out of its types. *)
LEMMA TypeStep ==
    ASSUME TypeOK, ControlInv, Next
    PROVE  TypeOK'
  <1>1. PICK c \in Conns : Input(c) \/ Thread(c)
    BY DEF Next
  <1>2. CASE Input(c)
    BY <1>2, EnvironmentTypes, PlainRequestTypes, StackRequestTypes, CreateTypes,
       LockingTypes DEF Input, Handle
  <1>3. CASE Thread(c)
    BY <1>3, CreateTypes, LockingTypes, AccessTypes, TransactionTypes, ReplyTypes
       DEF Thread
  <1> QED
    BY <1>1, <1>2, <1>3

-----------------------------------------------------------------------------
(* What the steps of a thread leave alone.                                   *)

Unmoved(d) ==
    /\ pc'[d] = pc[d]
    /\ request'[d] = request[d]
    /\ cur_table'[d] = cur_table[d]
    /\ transaction_mode'[d] = transaction_mode[d]
    /\ locked_tables'[d] = locked_tables[d]

(* What a thread keeps to itself: the steps of thread c leave the control    *)
(* state of every other connection alone.                                    *)
Local(c) == \A d \in Conns \ {c} : Unmoved(d)

(* The ways an iteration ends move only the thread's own control point, to   *)
(* "replying" or nowhere.                                                    *)
LEMMA EndIsLocal ==
    ASSUME TypeOK, NEW c \in Conns, NEW m,
           Respond(c, m) \/ RespondLast(c, m) \/ OperationFails(c)
    PROVE  pc' \in {pc, [pc EXCEPT ![c] = "replying"]}
  BY DEF Respond, RespondLast, OperationFails, Dies, Goto

(* A step of one connection is local to it. *)
LEMMA StepIsLocal ==
    ASSUME TypeOK, NEW c \in Conns, Input(c) \/ Thread(c)
    PROVE  Local(c)
  <1> USE DEF store, session, transaction, Local, Unmoved
  <1> DEFINE Typed ==
        /\ pc \in [Conns -> PC]
        /\ request \in [Conns -> Message]
        /\ cur_table \in [Conns -> TableId \cup {NULL}]
        /\ transaction_mode \in [Conns -> BOOLEAN]
        /\ locked_tables \in [Conns -> SUBSET TableId]
  <1>1. Typed
    BY DEF TypeOK
  <1>2. \A m : Respond(c, m) \/ RespondLast(c, m) \/ OperationFails(c)
                  => pc' \in {pc, [pc EXCEPT ![c] = "replying"]}
    BY EndIsLocal
  <1>3. CASE \/ Accept(c) \/ AcceptFails(c) \/ NoRequest(c)
             \/ DecodeRunsOff(c) \/ ReplyToDeadPeer(c)
    BY <1>1, <1>2, <1>3
       DEF Accept, AcceptFails, NoRequest, DecodeRunsOff, ReplyToDeadPeer, Dies, Goto
  <1>4. ASSUME NEW r \in Requests,
               \/ Login(c, r) \/ NotLoggedIn(c, r) \/ Unexpected(c, r)
               \/ Begin(c, r) \/ Commit(c, r) \/ Bye(c, r)
        PROVE  Local(c)
    <2>1. request' = [request EXCEPT ![c] = r]
      BY <1>4, ReceiveType DEF Login, NotLoggedIn, Unexpected, Begin, Commit, Bye
    <2>2. pc' \in {pc, [pc EXCEPT ![c] = "replying"], [pc EXCEPT ![c] = "committing"]}
      BY <1>2, <1>4 DEF Login, NotLoggedIn, Unexpected, Begin, Commit, Bye, Goto
    <2>3. \/ UNCHANGED transaction_mode
          \/ transaction_mode' = [transaction_mode EXCEPT ![c] = TRUE]
      BY <1>4 DEF Login, NotLoggedIn, Unexpected, Begin, Commit, Bye
    <2>4. UNCHANGED <<cur_table, locked_tables>>
      BY <1>4 DEF Login, NotLoggedIn, Unexpected, Begin, Commit, Bye
    <2> QED
      BY <1>1, <2>1, <2>2, <2>3, <2>4
  <1>5. ASSUME NEW r \in Requests,
               \/ Push(c, r) \/ Pop(c, r) \/ Top(c, r) \/ Arithmetic(c, r)
               \/ Create(c, r) \/ FindTable(c, r)
        PROVE  Local(c)
    <2>1. request' = [request EXCEPT ![c] = r]
      BY <1>5, ReceiveType DEF Push, Pop, Top, Arithmetic, Create, FindTable
    <2>2. CASE Push(c, r) \/ Pop(c, r) \/ Top(c, r)
      BY <1>1, <1>2, <2>1, <2>2 DEF Push, Pop, Top
    <2>3. CASE Arithmetic(c, r)
      <3>1. pc' \in {pc, [pc EXCEPT ![c] = "replying"]}
        BY <1>2, <2>3 DEF Arithmetic, Dies
      <3> QED
        BY <1>1, <2>1, <2>3, <3>1 DEF Arithmetic
    <2>4. CASE Create(c, r)
      BY <1>1, <1>2, <2>1, <2>4 DEF Create, Goto
    <2>5. CASE FindTable(c, r)
      <3>1. pc' \in {pc, [pc EXCEPT ![c] = "replying"], [pc EXCEPT ![c] = "locking"]}
        BY <1>2, <2>5 DEF FindTable, Goto
      <3>2. cur_table' \in {cur_table, [cur_table EXCEPT ![c] = find_table(r.table)]}
        BY <2>5 DEF FindTable
      <3>3. UNCHANGED <<transaction_mode, locked_tables>>
        BY <2>5 DEF FindTable
      <3> QED
        BY <1>1, <2>1, <3>1, <3>2, <3>3
    <2> QED
      BY <1>5, <2>2, <2>3, <2>4, <2>5
  <1>6. CASE CreateTable(c) \/ Committed(c) \/ RolledBack(c)
    BY <1>1, <1>2, <1>6 DEF CreateTable, Committed, RolledBack
  <1>7. CASE Lock(c) \/ LockHeld(c) \/ Trylock(c)
    BY <1>1, <1>7 DEF Lock, LockHeld, Trylock, Goto
  <1>8. CASE Get(c) \/ Set(c) \/ AutoCommit(c)
    <2>1. pc' \in {pc, [pc EXCEPT ![c] = "replying"], [pc EXCEPT ![c] = "finishing"]}
      BY <1>2, <1>8 DEF Get, Set, AutoCommit, AfterAccess, Goto
    <2> QED
      BY <1>1, <1>8, <2>1 DEF Get, Set, AutoCommit
  <1>9. ASSUME NEW t \in TableId, CommitTable(c, t) \/ RollbackTable(c, t)
        PROVE  Local(c)
    BY <1>1, <1>9 DEF CommitTable, RollbackTable
  <1>10. CASE Reply(c) \/ ReplyAndClose(c)
    BY <1>1, <1>10 DEF Reply, ReplyAndClose, EndOfRequest, Goto
  <1> QED
    BY <1>3, <1>4, <1>5, <1>6, <1>7, <1>8, <1>9, <1>10 DEF Input, Handle, Thread

-----------------------------------------------------------------------------
(***************************************************************************)
(* Locking: the parts of IInv about who holds which table.                 *)
(***************************************************************************)
LockingInv ==
    /\ ControlInv
    /\ FreshInv
    /\ LocksAreHeld
    /\ UnlockedTablesAreClean

(* The control points at which something is assumed of the current table or  *)
(* of the request.                                                           *)
Critical == {"creating", "locking", "working", "finishing"}

(* A step of c that leaves the store alone and gains nothing: it reaches no  *)
(* critical point and comes to hold no further table.                        *)
Quiet(c) ==
    /\ Local(c)
    /\ UNCHANGED <<server_tables, tables, m_mutex>>
    /\ pc'[c] \notin Critical
    /\ locked_tables'[c] \subseteq locked_tables[c]
    /\ ~transaction_mode'[c] => locked_tables'[c] = {}
    /\ cur_table'[c] \in {cur_table[c], NULL}

(* A connection that gains nothing disturbs nobody. *)
LEMMA QuietStep ==
    ASSUME IInv, NEW c \in Conns, Quiet(c)
    PROVE  LockingInv'
  <1> USE DEF Quiet, Critical, Local, Unmoved
  <1>1. ControlInv'
    BY DEF IInv, ControlInv
  <1>2. FreshInv'
    <2> SUFFICES ASSUME NEW n \in Names, NEW d \in Conns,
                        (\/ server_tables[n] = NULL
                         \/ pc[d] = "creating" /\ request[d].table = n)'
                 PROVE  Untouched(<<n, d>>)'
      BY DEF FreshInv
    <2>1. Untouched(<<n, d>>)
      BY DEF IInv, FreshInv
    <2>2. <<n, d>> \in TableId
      BY DEF TableId
    <2> QED
      BY <2>1, <2>2, NamesAssumption DEF Untouched
  <1>3. LocksAreHeld'
    BY DEF IInv, LocksAreHeld, WillUnlock
  <1>4. UnlockedTablesAreClean'
    BY DEF IInv, UnlockedTablesAreClean
  <1> QED
    BY <1>1, <1>2, <1>3, <1>4 DEF LockingInv

(* An answer moves the thread to "replying"; an unhandled failure moves it   *)
(* nowhere.                                                                  *)
LEMMA EndPoint ==
    ASSUME TypeOK, NEW c \in Conns, NEW m,
           Respond(c, m) \/ RespondLast(c, m) \/ OperationFails(c)
    PROVE  pc'[c] \in {pc[c], "replying"}
  BY EndIsLocal DEF TypeOK

(* Requests that leave the store alone are quiet. *)
LEMMA RequestIsQuiet ==
    ASSUME IInv, NEW c \in Conns, NEW r \in Requests,
           \/ Login(c, r) \/ NotLoggedIn(c, r) \/ Unexpected(c, r)
           \/ Push(c, r) \/ Pop(c, r) \/ Top(c, r) \/ Arithmetic(c, r)
           \/ Begin(c, r) \/ Commit(c, r) \/ Bye(c, r)
    PROVE  Quiet(c)
  <1> USE DEF store, session, transaction
  <1>1. TypeOK /\ ControlInv
    BY DEF IInv
  <1>2. Local(c)
    BY <1>1, StepIsLocal DEF Input, Handle
  <1>3. pc[c] = "reading"
    BY <1>1, ReceiveType
       DEF Login, NotLoggedIn, Unexpected, Push, Pop, Top, Arithmetic, Begin,
           Commit, Bye
  <1>4. pc'[c] \in {"reading", "replying", "committing"}
    <2>1. CASE Arithmetic(c, r)
      BY <1>1, <1>3, <2>1, EndPoint DEF Arithmetic, Dies
    <2>2. CASE Commit(c, r)
      BY <1>1, <2>2 DEF Commit, Goto, TypeOK
    <2>3. CASE \/ Login(c, r) \/ NotLoggedIn(c, r) \/ Unexpected(c, r)
               \/ Push(c, r) \/ Pop(c, r) \/ Top(c, r) \/ Begin(c, r) \/ Bye(c, r)
      BY <1>1, <1>3, <2>3, EndPoint
         DEF Login, NotLoggedIn, Unexpected, Push, Pop, Top, Begin, Bye
    <2> QED
      BY <2>1, <2>2, <2>3
  <1>5. UNCHANGED <<server_tables, tables, m_mutex, locked_tables, cur_table>>
    BY DEF Login, NotLoggedIn, Unexpected, Push, Pop, Top, Arithmetic, Begin,
           Commit, Bye
  <1>6. transaction_mode'[c] \in {transaction_mode[c], TRUE}
    BY <1>1 DEF TypeOK, Login, NotLoggedIn, Unexpected, Push, Pop, Top,
           Arithmetic, Begin, Commit, Bye
  <1>7. ~transaction_mode'[c] => locked_tables'[c] = {}
    BY <1>1, <1>5, <1>6 DEF ControlInv
  <1> QED
    BY <1>2, <1>4, <1>5, <1>7 DEF Quiet, Critical

(* So are connecting, failing to read, and the end of a transaction, of an   *)
(* iteration and of a connection.                                            *)
LEMMA EndIsQuiet ==
    ASSUME IInv, NEW c \in Conns,
           \/ Accept(c) \/ AcceptFails(c) \/ NoRequest(c)
           \/ DecodeRunsOff(c) \/ ReplyToDeadPeer(c)
           \/ Committed(c) \/ RolledBack(c) \/ Reply(c) \/ ReplyAndClose(c)
    PROVE  Quiet(c)
  <1> USE DEF store, session, transaction
  <1>1. TypeOK /\ ControlInv
    BY DEF IInv
  <1>2. Local(c)
    BY <1>1, StepIsLocal DEF Input, Handle, Thread
  <1>3. UNCHANGED <<server_tables, tables, m_mutex>>
    BY DEF Accept, AcceptFails, NoRequest, DecodeRunsOff, ReplyToDeadPeer,
           Committed, RolledBack, Reply, ReplyAndClose
  <1>4. pc'[c] \in {"reading", "replying", "closed"}
    <2>1. CASE NoRequest(c) \/ Committed(c) \/ RolledBack(c)
      BY <1>1, <2>1 DEF NoRequest, Committed, RolledBack, Respond, RespondLast,
                        Goto, TypeOK
    <2>2. CASE DecodeRunsOff(c) \/ ReplyToDeadPeer(c)
      BY <2>2 DEF DecodeRunsOff, ReplyToDeadPeer, Dies, At
    <2>3. CASE Accept(c) \/ AcceptFails(c) \/ Reply(c) \/ ReplyAndClose(c)
      BY <1>1, <2>3 DEF Accept, AcceptFails, Reply, ReplyAndClose, Goto, TypeOK
    <2> QED
      BY <2>1, <2>2, <2>3
  <1>5. locked_tables'[c] \in {locked_tables[c], {}}
    BY <1>1 DEF Accept, AcceptFails, NoRequest, DecodeRunsOff, ReplyToDeadPeer,
           Committed, RolledBack, Reply, ReplyAndClose, TypeOK
  <1>6. ~transaction_mode'[c] => locked_tables'[c] = {}
    BY <1>1 DEF Accept, AcceptFails, NoRequest, DecodeRunsOff, ReplyToDeadPeer,
           Committed, RolledBack, Reply, ReplyAndClose, TypeOK, ControlInv
  <1>7. cur_table'[c] \in {cur_table[c], NULL}
    BY <1>1 DEF Accept, AcceptFails, NoRequest, DecodeRunsOff, ReplyToDeadPeer,
           Committed, RolledBack, Reply, ReplyAndClose, EndOfRequest, TypeOK
  <1> QED
    BY <1>2, <1>3, <1>4, <1>5, <1>6, <1>7 DEF Quiet, Critical

(* create_request_handler finds no table: the name the connection is about   *)
(* to create is one for which it has made no table.                          *)
LEMMA CreateStep ==
    ASSUME IInv, NEW c \in Conns, NEW r \in Requests, Create(c, r)
    PROVE  LockingInv'
  <1> USE DEF store, session, transaction
  <1>1. TypeOK /\ ControlInv /\ Local(c)
    BY StepIsLocal DEF IInv, Input, Handle
  <1>2. /\ UNCHANGED <<server_tables, tables, m_mutex, cur_table,
                       transaction_mode, locked_tables>>
        /\ request'[c] = r /\ r.table \in Names
    BY <1>1, ReceiveType, RequestType DEF Create, TypeOK
  <1>3. CASE RespondLast(c, Plain("ERROR"))
    <2>1. pc'[c] = "replying"
      BY <1>1, <1>3 DEF RespondLast, Goto, TypeOK
    <2> QED
      BY <1>1, <1>2, <2>1, QuietStep DEF Quiet, Critical, ControlInv
  <1>4. CASE find_table(r.table) = NULL /\ Goto(c, "creating")
    <2>1. pc'[c] = "creating"
      BY <1>1, <1>4 DEF Goto, TypeOK
    <2>2. ControlInv'
      BY <1>1, <1>2, <2>1 DEF ControlInv, Local, Unmoved
    <2>3. FreshInv'
      <3> SUFFICES ASSUME NEW n \in Names, NEW d \in Conns,
                          (\/ server_tables[n] = NULL
                           \/ pc[d] = "creating" /\ request[d].table = n)'
                   PROVE  Untouched(<<n, d>>)'
        BY DEF FreshInv
      <3>1. Untouched(<<n, d>>)
        BY <1>1, <1>2, <1>4, <2>1 DEF IInv, FreshInv, Local, Unmoved, find_table
      <3> QED
        BY <1>2, <3>1 DEF Untouched
    <2>4. LocksAreHeld'
      BY <1>1, <1>2, <2>1 DEF IInv, LocksAreHeld, WillUnlock, Local, Unmoved
    <2>5. UnlockedTablesAreClean'
      BY <1>2 DEF IInv, UnlockedTablesAreClean
    <2> QED
      BY <2>2, <2>3, <2>4, <2>5 DEF LockingInv
  <1> QED
    BY <1>3, <1>4 DEF Create

(* create_table replaces a table no thread has a pointer to, which is new    *)
(* anyway: the tables and mutexes in use stay as they are.                   *)
LEMMA CreateTableKeepsTables ==
    ASSUME IInv, NEW c \in Conns, CreateTable(c)
    PROVE  /\ request[c].table \in Names
           /\ server_tables' = [server_tables EXCEPT
                                   ![request[c].table] = <<request[c].table, c>>]
           /\ UNCHANGED <<tables, m_mutex>>
  <1> DEFINE n == request[c].table
  <1>1. n \in Names /\ <<n, c>> \in TableId
    BY DEF CreateTable, At, IInv, ControlInv, TableId
  <1>2. Untouched(<<n, c>>)
    BY <1>1 DEF CreateTable, At, IInv, FreshInv
  <1>3. UNCHANGED tables
    BY <1>1, <1>2 DEF CreateTable, create_table, Untouched, IInv, TypeOK, ServerTypeOK
  <1>4. UNCHANGED m_mutex
    BY <1>1, <1>2 DEF CreateTable, create_table, Untouched, IInv, TypeOK, ServerTypeOK
  <1> QED
    BY <1>1, <1>3, <1>4 DEF CreateTable, create_table

(* The table create_table makes is the creator's own: it is not the one that *)
(* another connection is about to make for the same name.                    *)
LEMMA CreateTableStep ==
    ASSUME IInv, NEW c \in Conns, CreateTable(c)
    PROVE  LockingInv'
  <1> USE DEF store, session, transaction, Local, Unmoved
  <1> DEFINE n == request[c].table
  <1>1. TypeOK /\ ControlInv /\ Local(c)
    BY StepIsLocal DEF IInv, Thread
  <1>2. /\ n \in Names
        /\ server_tables' = [server_tables EXCEPT ![n] = <<n, c>>]
        /\ UNCHANGED <<tables, m_mutex>>
    BY CreateTableKeepsTables
  <1>3. /\ UNCHANGED <<request, cur_table, transaction_mode, locked_tables>>
        /\ pc'[c] = "replying"
    BY <1>1 DEF CreateTable, Respond, Goto, TypeOK
  <1>4. ControlInv'
    BY <1>1, <1>3 DEF ControlInv
  <1>5. FreshInv'
    <2> SUFFICES ASSUME NEW m \in Names, NEW d \in Conns,
                        (\/ server_tables[m] = NULL
                         \/ pc[d] = "creating" /\ request[d].table = m)'
                 PROVE  Untouched(<<m, d>>)'
      BY DEF FreshInv
    <2>1. <<n, c>> \in TableId /\ <<n, c>> # NULL
      BY <1>2, NamesAssumption DEF TableId
    <2>2. server_tables'[n] = <<n, c>> /\ \A e \in Names \ {n} : server_tables'[e] = server_tables[e]
      BY <1>1, <1>2 DEF TypeOK, ServerTypeOK
    <2>3. <<m, d>> # <<n, c>>
      BY <1>3, <2>1, <2>2
    <2>4. Untouched(<<m, d>>)
      BY <1>1, <1>3, <2>1, <2>2 DEF IInv, FreshInv
    <2> QED
      BY <1>2, <1>3, <2>2, <2>3, <2>4 DEF Untouched
  <1>6. LocksAreHeld'
    BY <1>1, <1>2, <1>3 DEF IInv, LocksAreHeld, WillUnlock
  <1>7. UnlockedTablesAreClean'
    BY <1>2 DEF IInv, UnlockedTablesAreClean
  <1> QED
    BY <1>4, <1>5, <1>6, <1>7 DEF LockingInv

(* find_table hands out only tables that have been created. *)
LEMMA FindTableStep ==
    ASSUME IInv, NEW c \in Conns, NEW r \in Requests, FindTable(c, r)
    PROVE  LockingInv'
  <1> USE DEF store, session, transaction
  <1>1. TypeOK /\ ControlInv /\ Local(c)
    BY StepIsLocal DEF IInv, Input, Handle
  <1>2. /\ UNCHANGED <<server_tables, tables, m_mutex, transaction_mode, locked_tables>>
        /\ request'[c] = r /\ r.table \in Names
        /\ r.type \in {"GET", "SET"} /\ r.key \in Keys
    BY <1>1, ReceiveType, RequestType DEF FindTable, TypeOK
  <1>3. CASE RespondLast(c, Plain("ERROR")) /\ UNCHANGED cur_table
    <2>1. pc'[c] = "replying"
      BY <1>1, <1>3 DEF RespondLast, Goto, TypeOK
    <2> QED
      BY <1>1, <1>2, <1>3, <2>1, QuietStep DEF Quiet, Critical, ControlInv
  <1>4. CASE /\ find_table(r.table) # NULL
             /\ cur_table' = [cur_table EXCEPT ![c] = find_table(r.table)]
             /\ Goto(c, "locking")
    <2>1. pc'[c] = "locking" /\ cur_table'[c] = server_tables[r.table]
      BY <1>1, <1>4 DEF Goto, TypeOK, find_table
    <2>2. server_tables[r.table] \in TableId
      BY <1>1, <1>2, <1>4 DEF find_table, TypeOK, ServerTypeOK
    <2>3. ControlInv'
      BY <1>1, <1>2, <2>1, <2>2 DEF ControlInv, Local, Unmoved
    <2>4. FreshInv'
      <3> SUFFICES ASSUME NEW n \in Names, NEW d \in Conns,
                          (\/ server_tables[n] = NULL
                           \/ pc[d] = "creating" /\ request[d].table = n)'
                   PROVE  Untouched(<<n, d>>)'
        BY DEF FreshInv
      <3>1. Untouched(<<n, d>>)
        BY <1>1, <1>2, <2>1 DEF IInv, FreshInv, Local, Unmoved
      <3> QED
        BY <1>1, <1>2, <2>1, <3>1 DEF Untouched, Local, Unmoved
    <2>5. LocksAreHeld'
      BY <1>1, <1>2, <2>1 DEF IInv, LocksAreHeld, WillUnlock, Local, Unmoved
    <2>6. UnlockedTablesAreClean'
      BY <1>2 DEF IInv, UnlockedTablesAreClean
    <2> QED
      BY <2>3, <2>4, <2>5, <2>6 DEF LockingInv
  <1> QED
    BY <1>3, <1>4 DEF FindTable

(* Table::lock and Table::trylock take only a mutex nobody holds, and the    *)
(* threads that are working on the table stay the ones that hold it.         *)
LEMMA LockStep ==
    ASSUME IInv, NEW c \in Conns, Lock(c) \/ LockHeld(c) \/ Trylock(c)
    PROVE  LockingInv'
  <1> USE DEF store, session, transaction
  <1> DEFINE t == cur_table[c]
  <1>1. TypeOK /\ ControlInv /\ Local(c)
    BY StepIsLocal DEF IInv, Thread
  <1>2. /\ t \in TableId
        /\ request[c].type \in {"GET", "SET"} /\ request[c].key \in Keys
        /\ UNCHANGED <<server_tables, tables, transaction_mode, request, cur_table>>
    BY <1>1 DEF Lock, LockHeld, Trylock, At, ControlInv
  <1>3. CASE Trylock(c) /\ ~CanLock(t)
    <2>1. UNCHANGED <<m_mutex, locked_tables>> /\ pc'[c] = "rolling"
      BY <1>1, <1>3 DEF Trylock, Goto, TypeOK
    <2> QED
      BY <1>1, <1>2, <2>1, QuietStep DEF Quiet, Critical, ControlInv
  <1>4. CASE Lock(c) \/ LockHeld(c) \/ (Trylock(c) /\ CanLock(t))
    <2>1. /\ pc'[c] = "working"
          /\ locked_tables'[c] \subseteq locked_tables[c] \cup {t}
          /\ transaction_mode[c] => t \in locked_tables'[c]
          /\ ~transaction_mode[c] => locked_tables'[c] = {}
      BY <1>1, <1>4 DEF Lock, LockHeld, Trylock, Goto, TypeOK, ControlInv
    <2>2. /\ m_mutex[t] \in {NULL, c} /\ m_mutex'[t] = c
          /\ \A u \in TableId \ {t} : m_mutex'[u] = m_mutex[u]
      <3>1. CASE LockHeld(c)
        BY <1>2, <3>1 DEF LockHeld, IInv, LocksAreHeld, WillUnlock
      <3>2. CASE Lock(c) \/ (Trylock(c) /\ CanLock(t))
        BY <1>1, <1>2, <3>2 DEF Lock, Trylock, CanLock, lock, TypeOK, ServerTypeOK
      <3> QED
        BY <1>4, <3>1, <3>2
    <2>3. ControlInv'
      BY <1>1, <1>2, <2>1 DEF ControlInv, Local, Unmoved
    <2>4. FreshInv'
      <3> SUFFICES ASSUME NEW n \in Names, NEW d \in Conns,
                          (\/ server_tables[n] = NULL
                           \/ pc[d] = "creating" /\ request[d].table = n)'
                   PROVE  Untouched(<<n, d>>)'
        BY DEF FreshInv
      <3>1. Untouched(<<n, d>>) /\ <<n, d>> \in TableId
        BY <1>1, <1>2, <2>1 DEF IInv, FreshInv, Local, Unmoved, TableId
      <3>2. <<n, d>> # t
        BY <3>1 DEF Untouched
      <3> QED
        BY <1>1, <1>2, <2>1, <2>2, <3>1, <3>2 DEF Untouched, Local, Unmoved
    <2>5. LocksAreHeld'
      <3> SUFFICES ASSUME NEW d \in Conns, NEW u \in TableId, WillUnlock(d, u)'
                   PROVE  m_mutex'[u] = d
        BY DEF LocksAreHeld
      <3>1. CASE d = c
        BY <1>2, <2>1, <2>2, <3>1 DEF WillUnlock, IInv, LocksAreHeld
      <3>2. CASE d # c
        <4>1. m_mutex[u] = d
          BY <1>1, <3>2 DEF WillUnlock, IInv, LocksAreHeld, Local, Unmoved
        <4> QED
          BY <2>2, <3>2, <4>1, NamesAssumption
      <3> QED
        BY <3>1, <3>2
    <2>6. UnlockedTablesAreClean'
      BY <1>2, <2>2, NamesAssumption DEF IInv, UnlockedTablesAreClean
    <2> QED
      BY <2>3, <2>4, <2>5, <2>6 DEF LockingInv
  <1> QED
    BY <1>3, <1>4

(* Table::get and Table::set change the table of a thread that holds its     *)
(* mutex, and leave every mutex as it is.                                    *)
LEMMA AccessStep ==
    ASSUME IInv, NEW c \in Conns, Get(c) \/ Set(c)
    PROVE  LockingInv'
  <1> USE DEF store, session, transaction
  <1> DEFINE t == cur_table[c]
  <1>1. TypeOK /\ ControlInv /\ Local(c)
    BY StepIsLocal DEF IInv, Thread
  <1>2. /\ pc[c] = "working" /\ t \in TableId /\ m_mutex[t] = c
        /\ UNCHANGED <<server_tables, m_mutex, transaction_mode, locked_tables,
                       request, cur_table>>
        /\ request[c].key \in Keys
    BY <1>1 DEF Get, Set, At, ControlInv, IInv, LocksAreHeld, WillUnlock
  <1>3. \A u \in TableId \ {t} : tables'[u] = tables[u]
    BY <1>1 DEF Get, Set, TypeOK, ServerTypeOK
  <1>4. \/ pc'[c] = "replying"
        \/ pc'[c] = "finishing" /\ ~transaction_mode[c]
        \/ pc'[c] = "working"
    <2>1. OperationFails(c) \/ Respond(c, Plain("OK"))
             => pc'[c] \in {pc[c], "replying"}
      BY <1>1, EndPoint
    <2>2. AfterAccess(c) => \/ pc'[c] \in {pc[c], "replying"}
                            \/ pc'[c] = "finishing" /\ ~transaction_mode[c]
      BY <1>1, <2>1 DEF AfterAccess, Goto, TypeOK
    <2>3. OperationFails(c) \/ AfterAccess(c)
      BY DEF Get, Set
    <2> QED
      BY <1>2, <2>1, <2>2, <2>3
  <1>5. ControlInv'
    BY <1>1, <1>2, <1>4 DEF ControlInv, Local, Unmoved
  <1>6. FreshInv'
    <2> SUFFICES ASSUME NEW n \in Names, NEW d \in Conns,
                        (\/ server_tables[n] = NULL
                         \/ pc[d] = "creating" /\ request[d].table = n)'
                 PROVE  Untouched(<<n, d>>)'
      BY DEF FreshInv
    <2>1. Untouched(<<n, d>>) /\ <<n, d>> \in TableId
      BY <1>1, <1>2, <1>4 DEF IInv, FreshInv, Local, Unmoved, TableId
    <2> QED
      BY <1>2, <1>3, <2>1 DEF Untouched
  <1>7. LocksAreHeld'
    BY <1>1, <1>2, <1>4 DEF IInv, LocksAreHeld, WillUnlock, Local, Unmoved
  <1>8. UnlockedTablesAreClean'
    BY <1>2, <1>3, NamesAssumption DEF IInv, UnlockedTablesAreClean
  <1> QED
    BY <1>5, <1>6, <1>7, <1>8 DEF LockingInv

(* What makes the release of a table safe: the thread holds it, no other     *)
(* thread relies on it, and no change is pending afterwards.                 *)
Released(c, t) ==
    /\ Local(c)
    /\ UNCHANGED <<server_tables, transaction_mode, request, cur_table>>
    /\ m_mutex[t] = c
    /\ m_mutex' = [m_mutex EXCEPT ![t] = NULL]
    /\ \E tb \in TableState : Clean(tb) /\ tables' = [tables EXCEPT ![t] = tb]
    /\ pc'[c] \in {"replying", "committing", "rolling"}
    /\ locked_tables'[c] = locked_tables[c] \ {t}

(* Table::unlock leaves the table clean and takes it from nobody else. *)
LEMMA ReleaseStep ==
    ASSUME IInv, NEW c \in Conns, NEW t \in TableId, Released(c, t)
    PROVE  LockingInv'
  <1> USE DEF Released
  <1>1. TypeOK /\ ControlInv
    BY DEF IInv
  <1>2. /\ m_mutex'[t] = NULL /\ Clean(tables'[t])
        /\ \A u \in TableId \ {t} : m_mutex'[u] = m_mutex[u] /\ tables'[u] = tables[u]
    BY <1>1 DEF TypeOK, ServerTypeOK
  <1>3. ControlInv'
    BY <1>1 DEF ControlInv, Local, Unmoved
  <1>4. FreshInv'
    <2> SUFFICES ASSUME NEW n \in Names, NEW d \in Conns,
                        (\/ server_tables[n] = NULL
                         \/ pc[d] = "creating" /\ request[d].table = n)'
                 PROVE  Untouched(<<n, d>>)'
      BY DEF FreshInv
    <2>1. Untouched(<<n, d>>) /\ <<n, d>> \in TableId
      BY <1>1 DEF IInv, FreshInv, Local, Unmoved, TableId
    <2>2. <<n, d>> # t
      BY <2>1, NamesAssumption DEF Untouched
    <2> QED
      BY <1>1, <1>2, <2>1, <2>2 DEF Untouched, Local, Unmoved
  <1>5. LocksAreHeld'
    <2> SUFFICES ASSUME NEW d \in Conns, NEW u \in TableId, WillUnlock(d, u)'
                 PROVE  m_mutex'[u] = d
      BY DEF LocksAreHeld
    <2>1. m_mutex[u] = d
      BY DEF WillUnlock, IInv, LocksAreHeld, Local, Unmoved
    <2>2. u # t
      BY <2>1 DEF WillUnlock, Local, Unmoved, IInv, LocksAreHeld
    <2> QED
      BY <1>2, <2>1, <2>2
  <1>6. UnlockedTablesAreClean'
    BY <1>2 DEF IInv, UnlockedTablesAreClean
  <1> QED
    BY <1>3, <1>4, <1>5, <1>6 DEF LockingInv

(* commit_changes or rollback_changes, and unlock, on a table of the         *)
(* thread's own.                                                             *)
LEMMA ReleaseIsOwn ==
    ASSUME IInv, NEW c \in Conns, NEW t \in TableId,
           \/ AutoCommit(c) /\ t = cur_table[c]
           \/ CommitTable(c, t) \/ RollbackTable(c, t)
    PROVE  Released(c, t)
  <1>1. TypeOK /\ ControlInv /\ Local(c)
    BY StepIsLocal DEF IInv, Thread
  <1>2. m_mutex[t] = c
    BY DEF AutoCommit, CommitTable, RollbackTable, At, IInv, LocksAreHeld, WillUnlock
  <1>3. tables[t] \in TableState
    BY <1>1 DEF TypeOK, ServerTypeOK
  <1>4. \E tb \in TableState : Clean(tb) /\ tables' = [tables EXCEPT ![t] = tb]
    <2>1. \/ tables' = [tables EXCEPT ![t] = commit_changes(tables[t])]
          \/ tables' = [tables EXCEPT ![t] = rollback_changes(tables[t])]
      BY <1>1 DEF AutoCommit, CommitTable, RollbackTable, TypeOK, ServerTypeOK
    <2> QED
      BY <1>3, <2>1, CommitType, RollbackType
  <1>5. pc'[c] \in {"replying", "committing", "rolling"}
    BY <1>1 DEF AutoCommit, CommitTable, RollbackTable, Respond, Goto, At, TypeOK
  <1>6. locked_tables'[c] = locked_tables[c] \ {t}
    BY <1>1 DEF AutoCommit, CommitTable, RollbackTable, At, ControlInv, TypeOK, transaction
  <1>7. UNCHANGED <<server_tables, transaction_mode, request, cur_table>>
    BY DEF AutoCommit, CommitTable, RollbackTable, transaction
  <1>8. m_mutex' = [m_mutex EXCEPT ![t] = NULL]
    BY DEF AutoCommit, CommitTable, RollbackTable, unlock
  <1> QED
    BY <1>1, <1>2, <1>4, <1>5, <1>6, <1>7, <1>8 DEF Released

-----------------------------------------------------------------------------
(* The initial state has no connection and no change.                        *)
LEMMA InvInit == Init => IInv
  <1> SUFFICES ASSUME Init PROVE IInv
    OBVIOUS
  <1> USE DEF Init, ServerInit
  <1>1. TypeOK
    <2>1. NoMessage \in Message
      BY PlainType DEF NoMessage, MessageType
    <2>2. ServerTypeOK
      BY NewTableType, NamesAssumption DEF ServerTypeOK, TableId
    <2> QED
      BY <2>1, <2>2, NewStackType DEF TypeOK, PC
  <1>2. ControlInv
    BY DEF ControlInv
  <1>3. FreshInv
    <2> SUFFICES ASSUME NEW n \in Names, NEW c \in Conns
                 PROVE  Untouched(<<n, c>>)
      BY DEF FreshInv
    <2>1. <<n, c>> \in TableId /\ <<n, c>> # NULL
      BY NamesAssumption DEF TableId
    <2>2. \A m \in Names : <<n, c>> # <<m, NULL>>
      BY NamesAssumption
    <2> QED
      BY <2>1, <2>2 DEF Untouched
  <1>4. LocksAreHeld
    BY DEF LocksAreHeld, WillUnlock
  <1>5. UnlockedTablesAreClean
    BY NewTableType DEF UnlockedTablesAreClean
  <1> QED
    BY <1>1, <1>2, <1>3, <1>4, <1>5 DEF IInv

(* Every step of every connection keeps the inductive invariant. *)
LEMMA InvStep == IInv /\ [Next]_vars => IInv'
  <1> SUFFICES ASSUME IInv, [Next]_vars PROVE IInv'
    OBVIOUS
  <1>1. TypeOK /\ ControlInv
    BY DEF IInv
  <1>2. CASE Next
    <2>1. TypeOK'
      BY <1>1, <1>2, TypeStep
    <2>2. LockingInv'
      <3>1. PICK c \in Conns : Input(c) \/ Thread(c)
        BY <1>2 DEF Next
      <3>2. CASE Input(c)
        BY <3>2, RequestIsQuiet, EndIsQuiet, QuietStep, CreateStep, FindTableStep
           DEF Input, Handle
      <3>3. CASE Thread(c)
        <4>1. CASE AutoCommit(c)
          <5>1. cur_table[c] \in TableId
            BY <1>1, <4>1 DEF AutoCommit, At, ControlInv
          <5> QED
            BY <4>1, <5>1, ReleaseIsOwn, ReleaseStep
        <4>2. CASE \E t \in TableId : CommitTable(c, t) \/ RollbackTable(c, t)
          BY <4>2, ReleaseIsOwn, ReleaseStep
        <4>3. CASE ~AutoCommit(c) /\ ~\E t \in TableId : CommitTable(c, t) \/ RollbackTable(c, t)
          BY <3>3, <4>3, CreateTableStep, LockStep, AccessStep, EndIsQuiet, QuietStep
             DEF Thread
        <4> QED
          BY <4>1, <4>2, <4>3
      <3> QED
        BY <3>1, <3>2, <3>3
    <2> QED
      BY <2>1, <2>2 DEF IInv, LockingInv
  <1>3. CASE UNCHANGED vars
    <2> USE <1>3 DEF vars
    <2>1. TypeOK'
      BY <1>1 DEF TypeOK, ServerTypeOK
    <2>2. ControlInv'
      BY <1>1 DEF ControlInv
    <2>3. FreshInv'
      BY DEF IInv, FreshInv, Untouched
    <2>4. LocksAreHeld'
      BY DEF IInv, LocksAreHeld, WillUnlock
    <2>5. UnlockedTablesAreClean'
      BY DEF IInv, UnlockedTablesAreClean
    <2> QED
      BY <2>1, <2>2, <2>3, <2>4, <2>5 DEF IInv
  <1> QED
    BY <1>2, <1>3

(* In every reachable state of every instance, the inductive invariant holds.*)
THEOREM Invariance == Spec => []IInv
  BY InvInit, InvStep, PTL DEF Spec

(* Type correctness: every variable of the server keeps to the values its    *)
(* C++ type and the class invariants allow, in particular every ValueStack   *)
(* counts its elements correctly.                                            *)
THEOREM TypeCorrect == Spec => []TypeOK
  BY Invariance, PTL DEF IInv

(* Mutual exclusion: a table in a connection's locked_tables, or under a GET *)
(* or SET, is one whose m_mutex the connection's thread holds.               *)
THEOREM MutualExclusion == Spec => []LocksAreHeld
  BY Invariance, PTL DEF IInv

(* Isolation: commit_changes or rollback_changes has run on a table before   *)
(* its m_mutex is free again.                                                *)
THEOREM Isolation == Spec => []UnlockedTablesAreClean
  BY Invariance, PTL DEF IInv

(* A thread blocked in Table::lock has nothing that it would have released.  *)
THEOREM NoHoldAndWait == Spec => []WaitersHoldOnlyLeaked
  <1>1. IInv => WaitersHoldOnlyLeaked
    BY DEF IInv, ControlInv, WaitersHoldOnlyLeaked, Waiting, Leaked, WillUnlock
  <1> QED
    BY <1>1, Invariance, PTL

-----------------------------------------------------------------------------
(***************************************************************************)
(* What a step may never do.                                               *)
(***************************************************************************)

(* The calls that change a table, each by the thread that holds its mutex. *)
LEMMA TableChange ==
    ASSUME IInv, NEW c \in Conns, Input(c) \/ Thread(c),
           NEW t \in TableId, tables'[t] # tables[t]
    PROVE  /\ m_mutex[t] = c
           /\ \/ pc[c] = "working" /\ t = cur_table[c] /\ (Get(c) \/ Set(c))
              \/ pc[c] \in {"finishing", "committing"}
              \/ pc[c] = "rolling" /\ RollbackTable(c, t)
  <1>1. TypeOK
    BY DEF IInv
  <1>2. CASE Input(c)
    <2>1. \A r \in Requests : Create(c, r) \/ FindTable(c, r) => UNCHANGED tables
      BY DEF Create, FindTable, store
    <2>2. Quiet(c) => UNCHANGED tables
      BY DEF Quiet
    <2> QED
      BY <1>2, <2>1, <2>2, RequestIsQuiet, EndIsQuiet DEF Input, Handle
  <1>3. CASE Get(c) \/ Set(c)
    <2>1. t = cur_table[c] /\ pc[c] = "working"
      BY <1>1, <1>3 DEF Get, Set, At, TypeOK, ServerTypeOK
    <2>2. m_mutex[t] = c
      BY <2>1 DEF IInv, LocksAreHeld, WillUnlock
    <2> QED
      BY <1>3, <2>1, <2>2
  <1>4. CASE AutoCommit(c)
    <2>1. t = cur_table[c] /\ pc[c] = "finishing"
      BY <1>1, <1>4 DEF AutoCommit, At, TypeOK, ServerTypeOK
    <2> QED
      BY <2>1 DEF IInv, LocksAreHeld, WillUnlock
  <1>5. CASE \E u \in TableId : CommitTable(c, u) \/ RollbackTable(c, u)
    <2>1. PICK u \in TableId : CommitTable(c, u) \/ RollbackTable(c, u)
      BY <1>5
    <2>2. t = u
      BY <1>1, <2>1 DEF CommitTable, RollbackTable, TypeOK, ServerTypeOK
    <2>3. m_mutex[t] = c
      BY <2>1, <2>2 DEF CommitTable, RollbackTable, IInv, LocksAreHeld, WillUnlock
    <2> QED
      BY <2>1, <2>2, <2>3 DEF CommitTable, RollbackTable, At
  <1>6. CASE Lock(c) \/ LockHeld(c) \/ Trylock(c)
    BY <1>6 DEF Lock, LockHeld, Trylock, store
  <1>7. CASE CreateTable(c)
    BY <1>7, CreateTableKeepsTables
  <1>8. CASE Committed(c) \/ RolledBack(c) \/ Reply(c) \/ ReplyAndClose(c)
    BY <1>8 DEF Committed, RolledBack, Reply, ReplyAndClose, store
  <1> QED
    BY <1>2, <1>3, <1>4, <1>5, <1>6, <1>7, <1>8 DEF Thread

(* table.h's "only be called while the table's lock is held" is kept. *)
THEOREM LockedAccess == Spec => TablesChangeUnderLock
  <1> DEFINE Held == \A t \in TableId :
                        tables'[t] # tables[t] =>
                           \E c \in Conns :
                              /\ m_mutex[t] = c
                              /\ pc[c] \in {"working", "finishing", "committing", "rolling"}
  <1>1. IInv /\ [Next]_vars => [Held]_vars
    <2> SUFFICES ASSUME IInv, Next PROVE Held
      OBVIOUS
    <2>1. PICK c \in Conns : Input(c) \/ Thread(c)
      BY DEF Next
    <2> QED
      BY <2>1, TableChange
  <1> QED
    BY <1>1, Invariance, PTL DEF Spec, TablesChangeUnderLock

(* Neither Table::get, which may insert an empty string into theMap, nor     *)
(* Table::set or rollback_changes changes what committed data reads as.      *)
LEMMA UncommittedIsInvisible ==
    ASSUME NEW tb \in TableState, NEW k \in Keys, NEW j \in Keys,
           NEW v \in String, NEW new,
           new \in {get_effect(tb, j), set(tb, j, v), rollback_changes(tb), tb}
    PROVE  \/ new.theMap[k] = tb.theMap[k]
           \/ tb.theMap[k] = Absent /\ new.theMap[k] = EmptyString
  BY DEF get_effect, has_key, set, rollback_changes, TableState, Map

(* A client sees nothing of another's uncommitted changes in committed data. *)
THEOREM NoDirtyData == Spec => OnlyCommitsAreVisible
  <1> DEFINE Visible == \A t \in TableId, k \in Keys :
                           CommittedValue(t, k)' # CommittedValue(t, k) =>
                              \E c \in Conns :
                                 /\ m_mutex[t] = c
                                 /\ pc[c] \in {"finishing", "committing"}
  <1>1. IInv /\ [Next]_vars => [Visible]_vars
    <2> SUFFICES ASSUME IInv, Next, NEW t \in TableId, NEW k \in Keys,
                        CommittedValue(t, k)' # CommittedValue(t, k)
                 PROVE  \E c \in Conns :
                           /\ m_mutex[t] = c
                           /\ pc[c] \in {"finishing", "committing"}
      OBVIOUS
    <2>1. PICK c \in Conns : Input(c) \/ Thread(c)
      BY DEF Next
    <2>2. tables'[t] # tables[t]
      BY DEF CommittedValue
    <2>3. TypeOK /\ ControlInv /\ tables[t] \in TableState
      BY DEF IInv, TypeOK, ServerTypeOK
    <2>4. ASSUME pc[c] = "working", t = cur_table[c], Get(c) \/ Set(c)
          PROVE  FALSE
      <3> DEFINE j == request[c].key
      <3>1. j \in Keys
        BY <2>3, <2>4 DEF ControlInv
      <3>2. CASE Get(c)
        <4>1. tables'[t] = get_effect(tables[t], j)
          BY <2>3, <2>4, <3>2 DEF Get, TypeOK, ServerTypeOK
        <4> QED
          BY <2>3, <3>1, <4>1, UncommittedIsInvisible, AbsentIsNoString DEF CommittedValue
      <3>3. CASE Set(c)
        <4>1. ~is_empty(client_stack[c])
          BY <2>2, <3>3 DEF Set
        <4>2. tables'[t] = set(tables[t], j, get_top(client_stack[c]))
          BY <2>3, <2>4, <3>3, <4>1 DEF Set, TypeOK, ServerTypeOK
        <4>3. get_top(client_stack[c]) \in String
          BY <2>3, <4>1, PopType DEF TypeOK
        <4> QED
          BY <2>3, <3>1, <4>2, <4>3, UncommittedIsInvisible DEF CommittedValue
      <3> QED
        BY <2>4, <3>2, <3>3
    <2>5. ASSUME RollbackTable(c, t)
          PROVE  FALSE
      <3>1. tables'[t] = rollback_changes(tables[t])
        BY <2>3, <2>5 DEF RollbackTable, TypeOK, ServerTypeOK
      <3> QED
        BY <2>3, <3>1, UncommittedIsInvisible, AbsentIsNoString DEF CommittedValue
    <2> QED
      BY <2>1, <2>2, <2>4, <2>5, TableChange
  <1> QED
    BY <1>1, Invariance, PTL DEF Spec, OnlyCommitsAreVisible

(* A mutex changes hands only as its holder lets go of it, or as a thread    *)
(* takes it that nobody held.                                                *)
LEMMA MutexChange ==
    ASSUME IInv, NEW c \in Conns, Input(c) \/ Thread(c),
           NEW t \in TableId, m_mutex[t] # NULL, m_mutex'[t] # m_mutex[t]
    PROVE  m_mutex[t] = c /\ WillUnlock(c, t)
  <1>1. TypeOK
    BY DEF IInv
  <1>2. CASE Input(c)
    <2>1. \A r \in Requests : Create(c, r) \/ FindTable(c, r) => UNCHANGED m_mutex
      BY DEF Create, FindTable, store
    <2>2. Quiet(c) => UNCHANGED m_mutex
      BY DEF Quiet
    <2> QED
      BY <1>2, <2>1, <2>2, RequestIsQuiet, EndIsQuiet DEF Input, Handle
  <1>3. CASE Lock(c) \/ LockHeld(c) \/ Trylock(c)
    BY <1>1, <1>3 DEF Lock, LockHeld, Trylock, lock, CanLock, store, TypeOK, ServerTypeOK
  <1>4. CASE AutoCommit(c)
    <2>1. t = cur_table[c] /\ pc[c] = "finishing"
      BY <1>1, <1>4 DEF AutoCommit, At, unlock, TypeOK, ServerTypeOK
    <2> QED
      BY <2>1 DEF IInv, LocksAreHeld, WillUnlock
  <1>5. CASE \E u \in TableId : CommitTable(c, u) \/ RollbackTable(c, u)
    <2>1. PICK u \in TableId : CommitTable(c, u) \/ RollbackTable(c, u)
      BY <1>5
    <2>2. t = u
      BY <1>1, <2>1 DEF CommitTable, RollbackTable, unlock, TypeOK, ServerTypeOK
    <2> QED
      BY <2>1, <2>2 DEF CommitTable, RollbackTable, IInv, LocksAreHeld, WillUnlock
  <1>6. CASE CreateTable(c)
    BY <1>6, CreateTableKeepsTables
  <1>7. CASE \/ Get(c) \/ Set(c) \/ Committed(c) \/ RolledBack(c)
             \/ Reply(c) \/ ReplyAndClose(c)
    BY <1>7 DEF Get, Set, Committed, RolledBack, Reply, ReplyAndClose, store
  <1> QED
    BY <1>2, <1>3, <1>4, <1>5, <1>6, <1>7 DEF Thread

(* A thread comes to answer for a table only by taking its free mutex. *)
LEMMA NothingRegained ==
    ASSUME IInv, NEW c \in Conns, Input(c) \/ Thread(c),
           NEW t \in TableId, NEW d \in Conns,
           m_mutex[t] = d, ~WillUnlock(d, t)
    PROVE  ~WillUnlock(d, t)'
  <1>1. TypeOK /\ ControlInv /\ Local(c)
    BY StepIsLocal DEF IInv
  <1>2. m_mutex[t] # NULL
    BY NamesAssumption
  <1>3. CASE d # c
    BY <1>1, <1>3 DEF WillUnlock, Local, Unmoved
  <1>4. CASE d = c
    <2>1. CASE Quiet(c)
      BY <1>4, <2>1 DEF Quiet, Critical, WillUnlock
    <2>2. CASE \E r \in Requests : Create(c, r) \/ FindTable(c, r)
      <3>1. pc'[c] \in {"replying", "creating", "locking"}
        BY <1>1, <2>2 DEF Create, FindTable, RespondLast, Goto, TypeOK
      <3>2. UNCHANGED locked_tables
        BY <2>2 DEF Create, FindTable, transaction
      <3> QED
        BY <1>4, <3>1, <3>2 DEF WillUnlock
    <2>3. CASE Lock(c) \/ LockHeld(c) \/ Trylock(c)
      <3>1. /\ locked_tables'[c] \subseteq locked_tables[c] \cup {cur_table[c]}
            /\ UNCHANGED cur_table
            /\ cur_table[c] = t => ~Lock(c) /\ ~LockHeld(c) /\ ~CanLock(cur_table[c])
        BY <1>1, <1>2, <1>4, <2>3
           DEF Lock, LockHeld, Trylock, transaction, CanLock, WillUnlock, TypeOK
      <3>2. cur_table[c] = t => UNCHANGED locked_tables /\ pc'[c] = "rolling"
        BY <1>1, <2>3, <3>1 DEF Trylock, Goto, TypeOK
      <3> QED
        BY <1>4, <3>1, <3>2 DEF WillUnlock
    <2>4. CASE Get(c) \/ Set(c)
      BY <1>4, <2>4 DEF Get, Set, At, WillUnlock, transaction
    <2>5. CASE AutoCommit(c) \/ CreateTable(c)
      <3>1. pc'[c] = "replying" /\ UNCHANGED locked_tables
        BY <1>1, <2>5 DEF AutoCommit, CreateTable, Respond, Goto, TypeOK, transaction
      <3> QED
        BY <1>4, <3>1 DEF WillUnlock
    <2>6. CASE \E u \in TableId : CommitTable(c, u) \/ RollbackTable(c, u)
      <3>1. locked_tables'[c] \subseteq locked_tables[c] /\ UNCHANGED <<pc, cur_table>>
        BY <1>1, <2>6 DEF CommitTable, RollbackTable, TypeOK
      <3> QED
        BY <1>4, <3>1 DEF WillUnlock
    <2> QED
      BY <2>1, <2>2, <2>3, <2>4, <2>5, <2>6, RequestIsQuiet, EndIsQuiet
         DEF Input, Handle, Thread
  <1> QED
    BY <1>3, <1>4

(* A mutex that was left locked stays locked as long as the server runs.     *)
THEOREM LeaksStay == Spec => LeakIsPermanent
  <1>1. IInv /\ [Next]_vars => [\A t \in TableId : Leaked(t) => Leaked(t)']_vars
    <2> SUFFICES ASSUME IInv, Next, NEW t \in TableId, Leaked(t)
                 PROVE  Leaked(t)'
      OBVIOUS
    <2>1. PICK c \in Conns : Input(c) \/ Thread(c)
      BY DEF Next
    <2>2. PICK d \in Conns : m_mutex[t] = d /\ ~WillUnlock(d, t)
      BY DEF Leaked
    <2>3. m_mutex'[t] = d
      BY <2>1, <2>2, MutexChange, NamesAssumption
    <2>4. ~WillUnlock(d, t)'
      BY <2>1, <2>2, NothingRegained
    <2> QED
      BY <2>3, <2>4 DEF Leaked
  <1> QED
    BY <1>1, Invariance, PTL DEF Spec, LeakIsPermanent

-----------------------------------------------------------------------------
(* How a mutex comes to be left locked.                                      *)

(* A mutex a thread takes is one it answers for. *)
LEMMA TakenIsAnsweredFor ==
    ASSUME IInv, NEW c \in Conns, Input(c) \/ Thread(c),
           NEW t \in TableId, NEW d \in Conns, m_mutex[t] # d, m_mutex'[t] = d
    PROVE  WillUnlock(d, t)'
  <1>1. TypeOK /\ d # NULL
    BY NamesAssumption DEF IInv
  <1>2. CASE Input(c)
    <2>1. \A r \in Requests : Create(c, r) \/ FindTable(c, r) => UNCHANGED m_mutex
      BY DEF Create, FindTable, store
    <2>2. Quiet(c) => UNCHANGED m_mutex
      BY DEF Quiet
    <2> QED
      BY <1>2, <2>1, <2>2, RequestIsQuiet, EndIsQuiet DEF Input, Handle
  <1>3. CASE Lock(c) \/ LockHeld(c) \/ Trylock(c)
    <2>1. (Lock(c) \/ Trylock(c)) /\ t = cur_table[c] /\ d = c /\ UNCHANGED cur_table
      BY <1>1, <1>3 DEF Lock, LockHeld, Trylock, lock, store, TypeOK, ServerTypeOK
    <2>2. pc'[c] = "working"
      BY <1>1, <2>1 DEF Lock, Trylock, Goto, TypeOK
    <2> QED
      BY <2>1, <2>2 DEF WillUnlock
  <1>4. CASE AutoCommit(c) \/ \E u \in TableId : CommitTable(c, u) \/ RollbackTable(c, u)
    BY <1>1, <1>4 DEF AutoCommit, CommitTable, RollbackTable, unlock, TypeOK, ServerTypeOK
  <1>5. CASE CreateTable(c)
    BY <1>5, CreateTableKeepsTables
  <1>6. CASE \/ Get(c) \/ Set(c) \/ Committed(c) \/ RolledBack(c)
             \/ Reply(c) \/ ReplyAndClose(c)
    BY <1>6 DEF Get, Set, Committed, RolledBack, Reply, ReplyAndClose, store
  <1> QED
    BY <1>2, <1>3, <1>4, <1>5, <1>6 DEF Thread

(* What a step must be that leaves a mutex locked.                           *)
LeavesLocked(c, t) ==
    \/ ReplyAndClose(c) /\ t \in locked_tables[c]
    \/ /\ Set(c) /\ t = cur_table[c] /\ ~transaction_mode[c]
       /\ is_empty(client_stack[c])

LEMMA NewLeak ==
    ASSUME IInv, NEW c \in Conns, Input(c) \/ Thread(c),
           NEW t \in TableId, NEW d \in Conns,
           m_mutex'[t] = d, ~WillUnlock(d, t)', m_mutex[t] # d \/ WillUnlock(d, t)
    PROVE  d = c /\ LeavesLocked(c, t)
  <1>1. TypeOK /\ ControlInv /\ Local(c) /\ d # NULL
    BY StepIsLocal, NamesAssumption DEF IInv
  <1>2. m_mutex[t] = d /\ WillUnlock(d, t)
    BY TakenIsAnsweredFor
  <1>3. d = c
    BY <1>1, <1>2 DEF Local, Unmoved, WillUnlock
  <1>4. \/ t \in locked_tables[c] /\ t \notin locked_tables'[c]
        \/ pc[c] \in {"working", "finishing"} /\ t = cur_table[c]
    BY <1>2, <1>3 DEF WillUnlock
  <1>5. CASE Input(c)
    <2>1. ASSUME NEW r \in Requests, Handle(c, r)
          PROVE  pc[c] = "reading" /\ UNCHANGED locked_tables
      BY <2>1 DEF Handle, Login, NotLoggedIn, Unexpected, Push, Pop, Top, Arithmetic,
                  Create, FindTable, Begin, Commit, Bye, Serve, Receive, At, transaction
    <2>2. /\ pc[c] \in {"unconnected", "reading", "replying"}
          /\ UNCHANGED locked_tables
      BY <1>5, <2>1 DEF Input, Accept, AcceptFails, NoRequest, DecodeRunsOff,
                        ReplyToDeadPeer, At, transaction
    <2> QED
      BY <1>4, <2>2
  <1>6. CASE CreateTable(c) \/ Lock(c) \/ LockHeld(c) \/ Trylock(c) \/ Reply(c)
    <2>1. pc[c] \in {"creating", "locking", "replying"}
      BY <1>6 DEF CreateTable, Lock, LockHeld, Trylock, Reply, At
    <2>2. locked_tables[c] \subseteq locked_tables'[c]
      BY <1>1, <1>6 DEF CreateTable, Lock, LockHeld, Trylock, Reply, transaction, TypeOK
    <2> QED
      BY <1>4, <2>1, <2>2
  <1>7. CASE Get(c) \/ Set(c)
    <2>1. pc[c] = "working" /\ UNCHANGED <<cur_table, locked_tables>>
      BY <1>7 DEF Get, Set, At, transaction
    <2>2. t = cur_table[c] /\ ~transaction_mode[c] /\ pc'[c] \notin {"working", "finishing"}
      BY <1>1, <1>3, <1>4, <2>1 DEF WillUnlock, ControlInv
    <2>3. ~AfterAccess(c)
      BY <1>1, <2>2 DEF AfterAccess, Goto, TypeOK
    <2> QED
      BY <1>3, <1>7, <2>2, <2>3 DEF Get, Set, LeavesLocked
  <1>8. CASE AutoCommit(c)
    <2>1. pc[c] = "finishing" /\ UNCHANGED locked_tables
      BY <1>8 DEF AutoCommit, At, transaction
    <2>2. m_mutex'[t] = NULL
      BY <1>1, <1>4, <1>8, <2>1 DEF AutoCommit, unlock, TypeOK, ServerTypeOK
    <2> QED
      BY <1>1, <2>2
  <1>9. CASE \E u \in TableId : CommitTable(c, u) \/ RollbackTable(c, u)
    <2>1. PICK u \in TableId : CommitTable(c, u) \/ RollbackTable(c, u)
      BY <1>9
    <2>2. pc[c] \in {"committing", "rolling"} /\ locked_tables'[c] = locked_tables[c] \ {u}
      BY <1>1, <2>1 DEF CommitTable, RollbackTable, At, TypeOK
    <2>3. m_mutex'[u] = NULL
      BY <1>1, <2>1 DEF CommitTable, RollbackTable, unlock, TypeOK, ServerTypeOK
    <2> QED
      BY <1>1, <1>4, <2>2, <2>3
  <1>10. CASE Committed(c) \/ RolledBack(c)
    BY <1>4, <1>10 DEF Committed, RolledBack, At
  <1>11. CASE ReplyAndClose(c)
    BY <1>3, <1>4, <1>11 DEF ReplyAndClose, At, LeavesLocked
  <1> QED
    BY <1>5, <1>6, <1>7, <1>8, <1>9, <1>10, <1>11 DEF Thread

(* Only the end of a connection inside its transaction, and a SET on an      *)
(* empty stack, leave a mutex locked: every other path out of chat_with_     *)
(* client's handlers that takes one releases it.                             *)
THEOREM LeaksComeFrom == Spec => LeaksHaveTwoSources
  <1> DEFINE A(t) ==
        ~Leaked(t) /\ Leaked(t)' =>
           \E c \in Conns :
              \/ /\ pc[c] = "replying" /\ ~keep_going[c]
                 /\ t \in locked_tables[c]
              \/ /\ pc[c] = "working" /\ request[c].type = "SET"
                 /\ t = cur_table[c] /\ ~transaction_mode[c]
                 /\ is_empty(client_stack[c])
  <1>1. IInv /\ [Next]_vars => [\A t \in TableId : A(t)]_vars
    <2> SUFFICES ASSUME IInv, Next, NEW t \in TableId, ~Leaked(t), Leaked(t)'
                 PROVE  A(t)
      OBVIOUS
    <2>1. PICK c \in Conns : Input(c) \/ Thread(c)
      BY DEF Next
    <2>2. PICK d \in Conns : m_mutex'[t] = d /\ ~WillUnlock(d, t)'
      BY DEF Leaked
    <2>3. m_mutex[t] # d \/ WillUnlock(d, t)
      BY DEF Leaked
    <2>4. LeavesLocked(c, t)
      BY <2>1, <2>2, <2>3, NewLeak
    <2> QED
      BY <2>4 DEF LeavesLocked, ReplyAndClose, Set, At
  <1> QED
    BY <1>1, Invariance, PTL DEF Spec, LeaksHaveTwoSources
=============================================================================

------------------------- MODULE ClientConnection -------------------------
(***************************************************************************)
(* class ClientConnection and the thread that runs chat_with_client for    *)
(* each connection, over the shared state of Server.                       *)
(*                                                                         *)
(* A thread's control point is pc:                                         *)
(*   "unconnected"  not accepted yet                                       *)
(*   "reading"      at rio_readlineb, at the top of the request loop       *)
(*   "creating"     find_table found nothing, create_table comes next      *)
(*   "locking"      find_table found a table, handle_table_locking is next *)
(*   "working"      holds the table's mutex, get or set comes next         *)
(*   "finishing"    outside a transaction, commit_changes and unlock next  *)
(*   "committing"   in the loop of commit_tables                           *)
(*   "rolling"      in the loop of rollback_tables                         *)
(*   "replying"     return_response_to_client comes next                   *)
(*   "closed"       the connection object has been destroyed               *)
(*                                                                         *)
(* Code between two accesses to state other threads can reach is one step. *)
(* request and cur_table are locals of one iteration, and response is      *)
(* always overwritten before it is sent again: Reply resets all three.     *)
(***************************************************************************)
EXTENDS Server, ValueStack, Protocol

CONSTANTS
    Requests,      \* the requests clients send, in any order
    MaxStack,      \* bound: a client lets its stack grow to at most this depth
    FreshLogin,    \* what the unassigned logged_in of a new object may read as
    Faults         \* which of the faults below clients and the network cause

(* A decoded message, its arguments named by the accessors that read them.   *)
Message == [type  : MessageType,
            table : Names \cup {NULL},
            key   : Keys \cup {NULL},
            value : String \cup {Absent}]

(* What is_valid guarantees about a decoded request's arguments. *)
is_valid(r) ==
    /\ r.type \in {"CREATE", "GET", "SET"} <=> r.table # NULL
    /\ r.type \in {"GET", "SET"} <=> r.key # NULL
    /\ r.type \in {"PUSH", "DATA"} <=> r.value # Absent
    /\ r.value # EmptyString

ASSUME RequestsAssumption ==
    \A r \in Requests : r \in Message /\ is_valid(r)

ASSUME BoundsAssumption ==
    /\ MaxStack \in Nat
    /\ FreshLogin \subseteq {"no", "garbage"}
    /\ Faults \subseteq {"thread", "read", "out_of_range", "SIGPIPE"}

Msg(type, table, key, value) ==
    [type |-> type, table |-> table, key |-> key, value |-> value]

(* A message with no argument; quoted text of FAILED and ERROR is left out.  *)
Plain(type) == Msg(type, NULL, NULL, Absent)

NoMessage == Plain("NONE")

VARIABLES
    pc,
    logged_in,         \* "no", "yes", or "garbage": never assigned, reads true
    client_stack,
    transaction_mode,
    locked_tables,
    request,
    cur_table,
    response,
    keep_going

store == <<server_tables, tables, m_mutex>>

session == <<logged_in, client_stack>>

transaction == <<transaction_mode, locked_tables>>

vars == <<process, server_tables, tables, m_mutex,
          pc, logged_in, client_stack, transaction_mode, locked_tables,
          request, cur_table, response, keep_going>>

PC == {"unconnected", "reading", "creating", "locking", "working",
       "finishing", "committing", "rolling", "replying", "closed"}

(***************************************************************************)
(* The server starts with no connection.                                   *)
(***************************************************************************)
Init ==
    /\ ServerInit
    /\ pc = [c \in Conns |-> "unconnected"]
    /\ logged_in = [c \in Conns |-> "no"]
    /\ client_stack = [c \in Conns |-> NewStack]
    /\ transaction_mode = [c \in Conns |-> FALSE]
    /\ locked_tables = [c \in Conns |-> {}]
    /\ request = [c \in Conns |-> NoMessage]
    /\ cur_table = [c \in Conns |-> NULL]
    /\ response = [c \in Conns |-> NoMessage]
    /\ keep_going = [c \in Conns |-> TRUE]

-----------------------------------------------------------------------------
(* server_loop: accept, construct, start the thread.                         *)

At(c, point) == process = "running" /\ pc[c] = point

Goto(c, point) == pc' = [pc EXCEPT ![c] = point]

(* The constructor leaves logged_in unassigned: whatever byte the new object *)
(* is placed on decides it.                                                  *)
Accept(c) ==
    /\ At(c, "unconnected")
    /\ Goto(c, "reading")
    /\ \E byte \in FreshLogin :
          logged_in' = [logged_in EXCEPT ![c] = byte]
    /\ UNCHANGED <<process, store, client_stack, transaction, request, cur_table,
                   response, keep_going>>

(* pthread_create fails: the object is deleted, the fd closed. *)
AcceptFails(c) ==
    /\ "thread" \in Faults
    /\ At(c, "unconnected")
    /\ Goto(c, "closed")
    /\ UNCHANGED <<process, store, session, transaction, request, cur_table,
                   response, keep_going>>

-----------------------------------------------------------------------------
(* How an iteration of the request loop ends.                                *)

(* Leave a response for return_response_to_client. *)
Respond(c, m) ==
    /\ Goto(c, "replying")
    /\ response' = [response EXCEPT ![c] = m]
    /\ UNCHANGED <<process, keep_going>>

(* catch InvalidMessage, catch CommException, and BYE: the loop stops after  *)
(* the response; open transactions are not looked at.                        *)
RespondLast(c, m) ==
    /\ Goto(c, "replying")
    /\ response' = [response EXCEPT ![c] = m]
    /\ keep_going' = [keep_going EXCEPT ![c] = FALSE]
    /\ UNCHANGED process

Dies(cause) ==
    /\ process' = cause
    /\ UNCHANGED <<pc, response, keep_going>>

(* catch OperationException.  In a transaction the handler throws            *)
(* FailedTransaction, which the sibling handler below it cannot catch: it    *)
(* leaves the thread's start function and std::terminate ends the process.   *)
OperationFails(c) ==
    \/ /\ transaction_mode[c]
       /\ Dies("FailedTransaction")
    \/ /\ ~transaction_mode[c]
       /\ Respond(c, Plain("FAILED"))

-----------------------------------------------------------------------------
(* Reading a request.                                                        *)

(* A plausible slip: the handler leaves keep_going as it is. *)
NoRequestGoesOn(c) ==
    /\ "read" \in Faults
    /\ At(c, "reading")
    /\ Respond(c, Plain("ERROR"))
    /\ UNCHANGED <<store, session, transaction, request, cur_table>>

(* rio_readlineb returns no data, or decode rejects the line. *)
NoRequest(c) ==
    /\ "read" \in Faults
    /\ At(c, "reading")
    /\ RespondLast(c, Plain("ERROR"))
    /\ UNCHANGED <<store, session, transaction, request, cur_table>>

(* decode runs past the end of the line: out_of_range matches no handler. *)
DecodeRunsOff(c) ==
    /\ "out_of_range" \in Faults
    /\ At(c, "reading")
    /\ Dies("out_of_range")
    /\ UNCHANGED <<store, session, transaction, request, cur_table>>

(* A decoded request r of one of the given types arrives. *)
Receive(c, r, types) ==
    /\ At(c, "reading")
    /\ r \in Requests
    /\ r.type \in types
    /\ request' = [request EXCEPT ![c] = r]

(* ... and passes the login test. *)
Serve(c, r, types) ==
    /\ Receive(c, r, types)
    /\ logged_in[c] # "no"

Login(c, r) ==
    /\ Receive(c, r, {"LOGIN"})
    /\ logged_in' = [logged_in EXCEPT ![c] = "yes"]
    /\ Respond(c, Plain("OK"))
    /\ UNCHANGED <<store, client_stack, transaction, cur_table>>

NotLoggedIn(c, r) ==
    /\ Receive(c, r, MessageType \ {"LOGIN"})
    /\ logged_in[c] = "no"
    /\ RespondLast(c, Plain("ERROR"))
    /\ UNCHANGED <<store, session, transaction, cur_table>>

(* The switch's default: NONE and the response types. *)
Unexpected(c, r) ==
    /\ Serve(c, r, {"NONE", "OK", "FAILED", "ERROR", "DATA"})
    /\ RespondLast(c, Plain("ERROR"))
    /\ UNCHANGED <<store, session, transaction, cur_table>>

-----------------------------------------------------------------------------
(* Requests that touch only the connection's own stack.                      *)

Push(c, r) ==
    /\ Serve(c, r, {"PUSH"})
    /\ client_stack[c].total < MaxStack
    /\ client_stack' = [client_stack EXCEPT ![c] = push(@, r.value)]
    /\ Respond(c, Plain("OK"))
    /\ UNCHANGED <<store, logged_in, transaction, cur_table>>

Pop(c, r) ==
    /\ Serve(c, r, {"POP"})
    /\ \/ /\ is_empty(client_stack[c])
          /\ OperationFails(c)
          /\ UNCHANGED client_stack
       \/ /\ ~is_empty(client_stack[c])
          /\ client_stack' = [client_stack EXCEPT ![c] = pop(@)]
          /\ Respond(c, Plain("OK"))
    /\ UNCHANGED <<store, logged_in, transaction, cur_table>>

Top(c, r) ==
    /\ Serve(c, r, {"TOP"})
    /\ \/ /\ is_empty(client_stack[c])
          /\ OperationFails(c)
       \/ /\ ~is_empty(client_stack[c])
          /\ Respond(c, Msg("DATA", NULL, NULL, get_top(client_stack[c])))
    /\ UNCHANGED <<store, session, transaction, cur_table>>

(* Division by zero is a SIGFPE: no exception is thrown. *)
Arithmetic(c, r) ==
    /\ Serve(c, r, ArithmeticTypes)
    /\ LET s == client_stack[c]
       IN  \/ /\ ~pop_two_succeeds(s)
              /\ client_stack' = [client_stack EXCEPT ![c] = after_pop_two(s)]
              /\ OperationFails(c)
           \/ /\ pop_two_succeeds(s)
              /\ r.type = "DIV" /\ val1(s) = 0
              /\ Dies("SIGFPE")
              /\ UNCHANGED client_stack
           \/ /\ pop_two_succeeds(s)
              /\ ~(r.type = "DIV" /\ val1(s) = 0)
              /\ client_stack' = [client_stack EXCEPT ![c] =
                     push(after_pop_two(s),
                          to_string(operation(r.type, val1(s), val2(s))))]
              /\ Respond(c, Plain("OK"))
    /\ UNCHANGED <<store, logged_in, transaction, cur_table>>

-----------------------------------------------------------------------------
(* CREATE: a lookup and, in a later critical section, an insertion.          *)

Create(c, r) ==
    /\ Serve(c, r, {"CREATE"})
    /\ \/ /\ find_table(r.table) # NULL
          /\ RespondLast(c, Plain("ERROR"))
       \/ /\ find_table(r.table) = NULL
          /\ Goto(c, "creating")
          /\ UNCHANGED <<process, response, keep_going>>
    /\ UNCHANGED <<store, session, transaction, cur_table>>

CreateTable(c) ==
    /\ At(c, "creating")
    /\ create_table(request[c].table, c)
    /\ Respond(c, Plain("OK"))
    /\ UNCHANGED <<session, transaction, request, cur_table>>

-----------------------------------------------------------------------------
(* GET and SET.                                                              *)

FindTable(c, r) ==
    /\ Serve(c, r, {"GET", "SET"})
    /\ r.type = "GET" => client_stack[c].total < MaxStack
    /\ \/ /\ find_table(r.table) = NULL
          /\ RespondLast(c, Plain("ERROR"))
          /\ UNCHANGED cur_table
       \/ /\ find_table(r.table) # NULL
          /\ cur_table' = [cur_table EXCEPT ![c] = find_table(r.table)]
          /\ Goto(c, "locking")
          /\ UNCHANGED <<process, response, keep_going>>
    /\ UNCHANGED <<store, session, transaction>>

(* A plausible slip: single requests rely on the caller for locking. *)
LockSkipped(c) ==
    /\ At(c, "locking")
    /\ ~transaction_mode[c]
    /\ Goto(c, "working")
    /\ UNCHANGED <<process, store, session, transaction, request, cur_table,
                   response, keep_going>>

(* A plausible slip: a GET outside a transaction reads without locking. *)
LockWritesOnly(c) ==
    /\ At(c, "locking")
    /\ ~transaction_mode[c]
    /\ \/ /\ request[c].type = "GET"
          /\ client_stack' = [client_stack EXCEPT ![c] =
                                 push(@, get(tables[cur_table[c]], request[c].key))]
          /\ Respond(c, Plain("OK"))
          /\ UNCHANGED m_mutex
       \/ /\ request[c].type = "SET"
          /\ CanLock(cur_table[c])
          /\ lock(cur_table[c], c)
          /\ Goto(c, "working")
          /\ UNCHANGED <<process, client_stack, response, keep_going>>
    /\ UNCHANGED <<server_tables, tables, logged_in, transaction, request, cur_table>>

(* handle_table_locking outside a transaction: wait for the mutex. *)
Lock(c) ==
    /\ At(c, "locking")
    /\ ~transaction_mode[c]
    /\ CanLock(cur_table[c])
    /\ lock(cur_table[c], c)
    /\ Goto(c, "working")
    /\ UNCHANGED <<process, server_tables, tables, session, transaction, request,
                   cur_table, response, keep_going>>

(* In a transaction that already holds the table. *)
LockHeld(c) ==
    /\ At(c, "locking")
    /\ transaction_mode[c]
    /\ cur_table[c] \in locked_tables[c]
    /\ Goto(c, "working")
    /\ UNCHANGED <<process, store, session, transaction, request, cur_table,
                   response, keep_going>>

(* A plausible slip: lock in place of trylock. *)
TransactionLock(c) ==
    /\ At(c, "locking")
    /\ transaction_mode[c]
    /\ cur_table[c] \notin locked_tables[c]
    /\ CanLock(cur_table[c])
    /\ lock(cur_table[c], c)
    /\ locked_tables' = [locked_tables EXCEPT ![c] = @ \cup {cur_table[c]}]
    /\ Goto(c, "working")
    /\ UNCHANGED <<process, server_tables, tables, session, transaction_mode,
                   request, cur_table, response, keep_going>>

(* In a transaction: never wait.  A mutex that is taken throws               *)
(* FailedTransaction, whose handler starts with rollback_tables.             *)
Trylock(c) ==
    /\ At(c, "locking")
    /\ transaction_mode[c]
    /\ cur_table[c] \notin locked_tables[c]
    /\ \/ /\ CanLock(cur_table[c])
          /\ lock(cur_table[c], c)
          /\ locked_tables' = [locked_tables EXCEPT ![c] = @ \cup {cur_table[c]}]
          /\ Goto(c, "working")
       \/ /\ ~CanLock(cur_table[c])
          /\ Goto(c, "rolling")
          /\ UNCHANGED <<m_mutex, locked_tables>>
    /\ UNCHANGED <<process, server_tables, tables, session, transaction_mode,
                   request, cur_table, response, keep_going>>

(* A plausible slip: the mode is not looked at, every access commits. *)
AfterAccessAlone(c) ==
    /\ Goto(c, "finishing")
    /\ UNCHANGED <<process, response, keep_going>>

(* After get or set: a transaction keeps the table and answers, otherwise    *)
(* the change is committed and the table released first.                     *)
AfterAccess(c) ==
    \/ /\ transaction_mode[c]
       /\ Respond(c, Plain("OK"))
    \/ /\ ~transaction_mode[c]
       /\ Goto(c, "finishing")
       /\ UNCHANGED <<process, response, keep_going>>

Get(c) ==
    /\ At(c, "working")
    /\ request[c].type = "GET"
    /\ LET t == cur_table[c]
           k == request[c].key
       IN  /\ client_stack' = [client_stack EXCEPT ![c] = push(@, get(tables[t], k))]
           /\ tables' = [tables EXCEPT ![t] = get_effect(@, k)]
    /\ AfterAccess(c)
    /\ UNCHANGED <<server_tables, m_mutex, logged_in, transaction, request,
                   cur_table>>

(* The empty-stack test comes after the locking: outside a transaction the   *)
(* FAILED response leaves the mutex locked.                                  *)
Set(c) ==
    /\ At(c, "working")
    /\ request[c].type = "SET"
    /\ \/ /\ is_empty(client_stack[c])
          /\ OperationFails(c)
          /\ UNCHANGED <<tables, client_stack>>
       \/ /\ ~is_empty(client_stack[c])
          /\ client_stack' = [client_stack EXCEPT ![c] = pop(@)]
          /\ tables' = [tables EXCEPT ![cur_table[c]] =
                            set(@, request[c].key, get_top(client_stack[c]))]
          /\ AfterAccess(c)
    /\ UNCHANGED <<server_tables, m_mutex, logged_in, transaction, request,
                   cur_table>>

(* A plausible slip: a GET or SET of its own does not unlock. *)
AutoCommitHeld(c) ==
    /\ At(c, "finishing")
    /\ tables' = [tables EXCEPT ![cur_table[c]] = commit_changes(@)]
    /\ Respond(c, Plain("OK"))
    /\ UNCHANGED <<server_tables, m_mutex, session, transaction, request, cur_table>>

(* commit_changes and unlock at the end of a GET or SET of its own. *)
AutoCommit(c) ==
    /\ At(c, "finishing")
    /\ tables' = [tables EXCEPT ![cur_table[c]] = commit_changes(@)]
    /\ unlock(cur_table[c])
    /\ Respond(c, Plain("OK"))
    /\ UNCHANGED <<server_tables, session, transaction, request, cur_table>>

-----------------------------------------------------------------------------
(* Transactions.                                                             *)

(* A plausible slip: BEGIN is answered and forgotten. *)
BeginIgnored(c, r) ==
    /\ Serve(c, r, {"BEGIN"})
    /\ Respond(c, Plain("OK"))
    /\ UNCHANGED <<store, session, transaction, cur_table>>

(* BEGIN does not look at transaction_mode. *)
Begin(c, r) ==
    /\ Serve(c, r, {"BEGIN"})
    /\ transaction_mode' = [transaction_mode EXCEPT ![c] = TRUE]
    /\ Respond(c, Plain("OK"))
    /\ UNCHANGED <<store, session, locked_tables, cur_table>>

(* Nor does COMMIT: outside a transaction the loop has nothing to do. *)
Commit(c, r) ==
    /\ Serve(c, r, {"COMMIT"})
    /\ Goto(c, "committing")
    /\ UNCHANGED <<process, store, session, transaction, cur_table, response,
                   keep_going>>

(***************************************************************************)
(* One iteration of the loop of commit_tables or rollback_tables.  The     *)
(* loop runs in the order of the Table addresses, which is arbitrary.      *)
(* locked_tables is private to the thread, so taking each table out as it  *)
(* is released is the same as the clear() after the loop.                  *)
(***************************************************************************)
CommitTable(c, t) ==
    /\ At(c, "committing")
    /\ t \in locked_tables[c]
    /\ tables' = [tables EXCEPT ![t] = commit_changes(@)]
    /\ unlock(t)
    /\ locked_tables' = [locked_tables EXCEPT ![c] = @ \ {t}]
    /\ UNCHANGED <<process, server_tables, pc, session, transaction_mode, request,
                   cur_table, response, keep_going>>

Committed(c) ==
    /\ At(c, "committing")
    /\ locked_tables[c] = {}
    /\ transaction_mode' = [transaction_mode EXCEPT ![c] = FALSE]
    /\ Respond(c, Plain("OK"))
    /\ UNCHANGED <<store, session, locked_tables, request, cur_table>>

RollbackTable(c, t) ==
    /\ At(c, "rolling")
    /\ t \in locked_tables[c]
    /\ tables' = [tables EXCEPT ![t] = rollback_changes(@)]
    /\ unlock(t)
    /\ locked_tables' = [locked_tables EXCEPT ![c] = @ \ {t}]
    /\ UNCHANGED <<process, server_tables, pc, session, transaction_mode, request,
                   cur_table, response, keep_going>>

(* A plausible slip: the transaction ends before its tables are released. *)
RolledBackEarly(c) ==
    /\ At(c, "rolling")
    /\ transaction_mode' = [transaction_mode EXCEPT ![c] = FALSE]
    /\ Respond(c, Plain("FAILED"))
    /\ UNCHANGED <<store, session, locked_tables, request, cur_table>>

RolledBack(c) ==
    /\ At(c, "rolling")
    /\ locked_tables[c] = {}
    /\ transaction_mode' = [transaction_mode EXCEPT ![c] = FALSE]
    /\ Respond(c, Plain("FAILED"))
    /\ UNCHANGED <<store, session, locked_tables, request, cur_table>>

-----------------------------------------------------------------------------
(* BYE and the end of an iteration.                                          *)

Bye(c, r) ==
    /\ Serve(c, r, {"BYE"})
    /\ RespondLast(c, Plain("OK"))
    /\ UNCHANGED <<store, session, transaction, cur_table>>

EndOfRequest(c) ==
    /\ request' = [request EXCEPT ![c] = NoMessage]
    /\ cur_table' = [cur_table EXCEPT ![c] = NULL]
    /\ response' = [response EXCEPT ![c] = NoMessage]

(* The response is written (a failed write is not noticed) and the loop goes *)
(* round.                                                                    *)
Reply(c) ==
    /\ At(c, "replying")
    /\ keep_going[c]
    /\ Goto(c, "reading")
    /\ EndOfRequest(c)
    /\ UNCHANGED <<process, store, session, transaction, keep_going>>

(* ... or ends: client_worker destroys the connection, whose destructor      *)
(* closes the socket and leaves the tables' mutexes as they are.             *)
ReplyAndClose(c) ==
    /\ At(c, "replying")
    /\ ~keep_going[c]
    /\ Goto(c, "closed")
    /\ EndOfRequest(c)
    /\ logged_in' = [logged_in EXCEPT ![c] = "no"]
    /\ client_stack' = [client_stack EXCEPT ![c] = NewStack]
    /\ transaction_mode' = [transaction_mode EXCEPT ![c] = FALSE]
    /\ locked_tables' = [locked_tables EXCEPT ![c] = {}]
    /\ UNCHANGED <<process, store, keep_going>>

(* The client has reset the connection: write raises SIGPIPE, which nothing  *)
(* in the program ignores or handles.                                        *)
ReplyToDeadPeer(c) ==
    /\ "SIGPIPE" \in Faults
    /\ At(c, "replying")
    /\ Dies("SIGPIPE")
    /\ UNCHANGED <<store, session, transaction, request, cur_table>>

-----------------------------------------------------------------------------
(* A request r arrives: what the thread does before it needs a lock. *)
Handle(c, r) ==
    \/ Login(c, r) \/ NotLoggedIn(c, r) \/ Unexpected(c, r)
    \/ Push(c, r) \/ Pop(c, r) \/ Top(c, r) \/ Arithmetic(c, r)
    \/ Create(c, r) \/ FindTable(c, r)
    \/ Begin(c, r) \/ Commit(c, r) \/ Bye(c, r)

(* What clients and the network decide. *)
Input(c) ==
    \/ Accept(c)
    \/ AcceptFails(c)
    \/ NoRequest(c)
    \/ DecodeRunsOff(c)
    \/ ReplyToDeadPeer(c)
    \/ \E r \in Requests : Handle(c, r)

(* What a thread does once it has a request. *)
Thread(c) ==
    \/ CreateTable(c)
    \/ Lock(c) \/ LockHeld(c) \/ Trylock(c)
    \/ Get(c) \/ Set(c) \/ AutoCommit(c)
    \/ \E t \in TableId : CommitTable(c, t) \/ RollbackTable(c, t)
    \/ Committed(c) \/ RolledBack(c)
    \/ Reply(c) \/ ReplyAndClose(c)

Next == \E c \in Conns : Input(c) \/ Thread(c)

Spec == Init /\ [][Next]_vars

(* Every runnable thread is eventually scheduled.  Clients owe nothing.      *)
FairSpec == Spec /\ \A c \in Conns : WF_vars(Thread(c))

-----------------------------------------------------------------------------
(***************************************************************************)
(* Correctness.                                                            *)
(***************************************************************************)

TypeOK ==
    /\ ServerTypeOK
    /\ pc \in [Conns -> PC]
    /\ logged_in \in [Conns -> {"no", "yes", "garbage"}]
    /\ client_stack \in [Conns -> StackState]
    /\ transaction_mode \in [Conns -> BOOLEAN]
    /\ locked_tables \in [Conns -> SUBSET TableId]
    /\ request \in [Conns -> Message]
    /\ cur_table \in [Conns -> TableId \cup {NULL}]
    /\ response \in [Conns -> Message]
    /\ keep_going \in [Conns -> BOOLEAN]

(* Thread c is on a path that ends in unlock(t). *)
WillUnlock(c, t) ==
    \/ t \in locked_tables[c]
    \/ pc[c] \in {"working", "finishing"} /\ cur_table[c] = t

(* Some thread holds t and nothing it can do any more releases it. *)
Leaked(t) == \E c \in Conns : m_mutex[t] = c /\ ~WillUnlock(c, t)

Waiting(c) ==
    /\ pc[c] = "locking"
    /\ ~transaction_mode[c]
    /\ ~CanLock(cur_table[c])

(* Mutual exclusion: every table a thread believes it holds, whether in its  *)
(* locked_tables or as the table a GET or SET is working on, is one whose    *)
(* mutex it holds, so no two threads ever believe they hold the same table.  *)
LocksAreHeld ==
    \A c \in Conns, t \in TableId : WillUnlock(c, t) => m_mutex[t] = c

(* A table nobody holds has no uncommitted change: no thread that locks a    *)
(* table reads, or commits with its own commit_changes, what another one     *)
(* wrote and did not commit.                                                 *)
UnlockedTablesAreClean ==
    \A t \in TableId : m_mutex[t] = NULL => Clean(tables[t])

(* No hold-and-wait: a thread that waits in Table::lock holds no table that  *)
(* it would have released later, so a cycle of waiting threads needs a       *)
(* leaked mutex.                                                             *)
WaitersHoldOnlyLeaked ==
    \A c \in Conns, t \in TableId :
        Waiting(c) /\ m_mutex[t] = c => Leaked(t)

(* table.h: get, set, commit_changes and rollback_changes run only while the *)
(* table's lock is held.  A table's maps change only in a step of the thread *)
(* that holds its mutex, at a point where it uses the table; in particular   *)
(* no create_table touches a table in use.                                   *)
TablesChangeUnderLock ==
    [][\A t \in TableId :
          tables'[t] # tables[t] =>
             \E c \in Conns :
                /\ m_mutex[t] = c
                /\ pc[c] \in {"working", "finishing", "committing", "rolling"}]_vars

(* What a GET of key k would see of the committed data. *)
CommittedValue(t, k) ==
    IF tables[t].theMap[k] = Absent THEN EmptyString ELSE tables[t].theMap[k]

(* Committed data, as a GET can see it, changes only while its holder is     *)
(* committing: neither a SET inside a transaction, nor a rollback, nor the   *)
(* entry that GET of a missing key inserts, is visible there.                *)
OnlyCommitsAreVisible ==
    [][\A t \in TableId, k \in Keys :
          CommittedValue(t, k)' # CommittedValue(t, k) =>
             \E c \in Conns :
                /\ m_mutex[t] = c
                /\ pc[c] \in {"finishing", "committing"}]_vars

(* A leaked mutex stays locked for the life of the process: no later request *)
(* of any connection, nor the end of the connection that holds it, frees it. *)
LeakIsPermanent ==
    [][\A t \in TableId : Leaked(t) => Leaked(t)']_vars

(* A mutex is left locked in two ways only: the connection ends while it     *)
(* still has tables in locked_tables, or a SET of its own finds the stack    *)
(* empty once it has locked the table.                                       *)
LeaksHaveTwoSources ==
    [][\A t \in TableId :
          ~Leaked(t) /\ Leaked(t)' =>
             \E c \in Conns :
                \/ /\ pc[c] = "replying" /\ ~keep_going[c]
                   /\ t \in locked_tables[c]
                \/ /\ pc[c] = "working" /\ request[c].type = "SET"
                   /\ t = cur_table[c] /\ ~transaction_mode[c]
                   /\ is_empty(client_stack[c])]_vars

(* The numbers arithmetic_request_handler computes fit the int64_t they are   *)
(* computed in, as long as clients push numbers that do: stoi lets only ints *)
(* in, and no operation on two ints leaves int64_t.                          *)
ArithmeticFitsInt64 ==
    \A c \in Conns : \A i \in DOMAIN client_stack[c].stk :
        client_stack[c].stk[i].n \in Int64Min .. Int64Max

(* A request made inside a transaction is answered whatever the other        *)
(* connections do: a transaction never waits for a mutex.                    *)
TransactionsNeverWait ==
    \A c \in Conns :
        (transaction_mode[c] /\ pc[c] \notin {"reading", "closed"})
            ~> (pc[c] \in {"reading", "closed"} \/ process # "running")

-----------------------------------------------------------------------------
(***************************************************************************)
(* The inductive invariant behind the safety properties.                   *)
(***************************************************************************)

(* What a thread's control point says of its request, its current table and  *)
(* its transaction.                                                          *)
ControlInv ==
    \A c \in Conns :
        /\ pc[c] = "creating" => request[c].table \in Names
        /\ pc[c] \in {"locking", "working", "finishing"} => cur_table[c] \in TableId
        /\ pc[c] \in {"locking", "working"}
              => request[c].type \in {"GET", "SET"} /\ request[c].key \in Keys
        /\ pc[c] = "finishing" => ~transaction_mode[c]
        /\ pc[c] = "working" /\ transaction_mode[c]
              => cur_table[c] \in locked_tables[c]
        /\ ~transaction_mode[c] => locked_tables[c] = {}

(* A Table object no thread can have a pointer to. *)
Untouched(t) ==
    /\ m_mutex[t] = NULL
    /\ tables[t] = NewTable
    /\ \A n \in Names : server_tables[n] # t
    /\ \A d \in Conns : cur_table[d] # t /\ t \notin locked_tables[d]

(* create_table always makes a new object: connection c has not made one for *)
(* name n while the name is unknown or c is still about to create it.        *)
FreshInv ==
    \A n \in Names, c \in Conns :
        \/ server_tables[n] = NULL
        \/ pc[c] = "creating" /\ request[c].table = n
        => Untouched(<<n, c>>)

(* The inductive invariant: none of its parts is inductive by itself.        *)
(* Releasing a table is safe only because LocksAreHeld says the mutex is the *)
(* thread's own, and creating one only because FreshInv says nobody uses it. *)
IInv ==
    /\ TypeOK
    /\ ControlInv
    /\ FreshInv
    /\ LocksAreHeld
    /\ UnlockedTablesAreClean

-----------------------------------------------------------------------------
(***************************************************************************)
(* What comments and the README say of the code, and the code does not do. *)
(***************************************************************************)

(* exceptions.h: FailedTransaction "is recoverable".  It is not when it      *)
(* comes from an operation that failed inside a transaction.                 *)
FailedTransactionIsRecoverable == process # "FailedTransaction"

(* README.txt: the server is "free of race conditions and deadlocks".  No    *)
(* thread waits for a mutex that will never be released.                     *)
NoDeadlock == \A c \in Conns : ~(Waiting(c) /\ Leaked(cur_table[c]))

(* client_connection.cpp: a table that "has been named already" "cannot be   *)
(* duplicated".  A name never comes to denote another Table object.          *)
TablesAreNotDuplicated ==
    [][\A n \in Names : server_tables[n] # NULL =>
                            server_tables'[n] = server_tables[n]]_vars
=============================================================================

------------------------------- MODULE Server -------------------------------
(***************************************************************************)
(* The state all connection threads share: the Server object's map from    *)
(* table names to Table objects, the Table objects with their mutexes, and *)
(* the process itself.                                                     *)
(*                                                                         *)
(* find_table and create_table each run inside one tables_mutex critical   *)
(* section that blocks on nothing else, so each is a single atomic step;   *)
(* nothing makes the two together atomic.                                  *)
(***************************************************************************)
EXTENDS Table

CONSTANTS
    Conns,  \* connections, each served by a thread of its own
    Names,  \* table names
    NULL,   \* nullptr; also "no owner" of a mutex
    Early   \* names whose (empty) tables connections now gone have created

(* A Table object is identified by its name and the connection that created  *)
(* it (NULL: one that is gone).  A connection that has created a name always *)
(* finds it afterwards, so it never creates the name again.                  *)
TableId == Names \X (Conns \cup {NULL})

ASSUME NamesAssumption ==
    /\ NULL \notin Conns
    /\ NULL \notin TableId
    /\ NULL \notin Names
    /\ NULL \notin Keys
    /\ Early \subseteq Names

VARIABLES
    process,        \* "running", or what terminated the server process
    server_tables,  \* [Names -> TableId or NULL]
    tables,         \* the Table objects' maps
    m_mutex         \* the thread holding each table's mutex, or NULL

serverVars == <<process, server_tables, tables, m_mutex>>

(* What can end the process: an exception no handler catches (std::terminate)*)
(* or a signal left at its default action.                                   *)
TerminationCauses == {"FailedTransaction", "out_of_range", "SIGFPE", "SIGPIPE"}

ServerTypeOK ==
    /\ process \in {"running"} \cup TerminationCauses
    /\ server_tables \in [Names -> TableId \cup {NULL}]
    /\ tables \in [TableId -> TableState]
    /\ m_mutex \in [TableId -> Conns \cup {NULL}]

(* With Early = {} this is the state main hands to server_loop; otherwise it *)
(* is one reached from there by CREATE requests of earlier connections.      *)
ServerInit ==
    /\ process = "running"
    /\ server_tables = [n \in Names |-> IF n \in Early THEN <<n, NULL>> ELSE NULL]
    /\ tables = [t \in TableId |-> NewTable]
    /\ m_mutex = [t \in TableId |-> NULL]

find_table(n) == server_tables[n]

create_table(n, c) ==
    /\ server_tables' = [server_tables EXCEPT ![n] = <<n, c>>]
    /\ tables' = [tables EXCEPT ![<<n, c>>] = NewTable]
    /\ m_mutex' = [m_mutex EXCEPT ![<<n, c>>] = NULL]

(* A plausible slip: the result of pthread_mutex_trylock is not looked at. *)
CanAlwaysLock(t) == TRUE

(* Table::lock and Table::trylock succeed on the same condition; a mutex of  *)
(* the default kind is not recursive, so its owner cannot take it again.     *)
CanLock(t) == m_mutex[t] = NULL

lock(t, c) == m_mutex' = [m_mutex EXCEPT ![t] = c]

unlock(t) == m_mutex' = [m_mutex EXCEPT ![t] = NULL]
=============================================================================

---------------------------- MODULE AtomicStore ----------------------------
(***************************************************************************)
(* What the server promises the connections that share its tables, said    *)
(* without mutexes, maps of pending changes, or the steps of a commit.     *)
(*                                                                         *)
(* A connection works on tables it owns, from the first use to the end of  *)
(* its unit of work: a transaction, or a single GET or SET.  What it       *)
(* writes is a draft only it can see.  The end is one step for all its     *)
(* tables: either every draft is published, or every draft is dropped.     *)
(***************************************************************************)
EXTENDS Sequences

CONSTANTS
    Conns,    \* connections
    Tables,   \* tables, existing or not
    Keys,     \* keys of every table
    Strings,  \* what a key may be bound to
    Default,  \* what a key is bound to at first
    Nobody    \* stands for no connection and for no access

VARIABLES
    published,  \* what the tables contain for everyone
    draft,      \* what they contain for the connection that owns them
    owner,      \* the connection a table belongs to, or Nobody
    held,       \* the tables each connection's unit of work has used so far
    access,     \* the GET or SET a connection is performing, or Nobody
    stack       \* each connection's own stack, its top first

vars == <<published, draft, owner, held, access, stack>>

Contents == [Keys -> Strings]

Access == [type : {"GET", "SET"}, table : Tables, key : Keys]

Init ==
    /\ published = [t \in Tables |-> [k \in Keys |-> Default]]
    /\ draft = published
    /\ owner = [t \in Tables |-> Nobody]
    /\ held = [c \in Conns |-> {}]
    /\ access = [c \in Conns |-> Nobody]
    /\ stack = [c \in Conns |-> << >>]

(* c starts to access a table that is free or its own. *)
Use(c, a) ==
    /\ access[c] = Nobody
    /\ \/ /\ owner[a.table] = Nobody
          /\ owner' = [owner EXCEPT ![a.table] = c]
          /\ held' = [held EXCEPT ![c] = @ \cup {a.table}]
       \/ /\ a.table \in held[c]
          /\ UNCHANGED <<owner, held>>
    /\ access' = [access EXCEPT ![c] = a]
    /\ UNCHANGED <<published, draft, stack>>

Read(c) ==
    /\ access[c] \in Access
    /\ access[c].type = "GET"
    /\ stack' = [stack EXCEPT ![c] =
                    <<draft[access[c].table][access[c].key]>> \o @]
    /\ access' = [access EXCEPT ![c] = Nobody]
    /\ UNCHANGED <<published, draft, owner, held>>

Write(c) ==
    /\ access[c] \in Access
    /\ access[c].type = "SET"
    /\ stack[c] # << >>
    /\ draft' = [draft EXCEPT ![access[c].table] =
                    [@ EXCEPT ![access[c].key] = Head(stack[c])]]
    /\ stack' = [stack EXCEPT ![c] = Tail(@)]
    /\ access' = [access EXCEPT ![c] = Nobody]
    /\ UNCHANGED <<published, owner, held>>

(* Anything c does with its own stack and no table. *)
Compute(c) ==
    /\ access[c] = Nobody
    /\ stack'[c] \in Seq(Strings)
    /\ stack' = [stack EXCEPT ![c] = stack'[c]]
    /\ UNCHANGED <<published, draft, owner, held, access>>

(* The tables of c's unit of work are free again. *)
Release(c) ==
    /\ access[c] = Nobody
    /\ owner' = [t \in Tables |-> IF t \in held[c] THEN Nobody ELSE owner[t]]
    /\ held' = [held EXCEPT ![c] = {}]
    /\ UNCHANGED <<access, stack>>

Publish(c) ==
    /\ Release(c)
    /\ published' = [t \in Tables |-> IF t \in held[c] THEN draft[t]
                                                      ELSE published[t]]
    /\ UNCHANGED draft

Drop(c) ==
    /\ Release(c)
    /\ draft' = [t \in Tables |-> IF t \in held[c] THEN published[t]
                                                  ELSE draft[t]]
    /\ UNCHANGED published

(* c walks away from its tables, which stay its own for ever: a failed SET,  *)
(* or the end of a connection inside a transaction.                          *)
Abandon(c) ==
    /\ held' = [held EXCEPT ![c] = {}]
    /\ access' = [access EXCEPT ![c] = Nobody]
    /\ stack' \in {stack, [stack EXCEPT ![c] = << >>]}
    /\ UNCHANGED <<published, draft, owner>>

Next ==
    \E c \in Conns :
        \/ \E a \in Access : Use(c, a)
        \/ Read(c)
        \/ Write(c)
        \/ Compute(c)
        \/ Publish(c)
        \/ Drop(c)
        \/ Abandon(c)

Spec == Init /\ [][Next]_vars
=============================================================================

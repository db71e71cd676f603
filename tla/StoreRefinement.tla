-------------------------- MODULE StoreRefinement --------------------------
(***************************************************************************)
(* ClientConnection implements AtomicStore.                                *)
(*                                                                         *)
(* commit_tables and rollback_tables release one table after the other,    *)
(* and a table that is released can be in use by others while the rest is  *)
(* still locked.  For AtomicStore the unit of work is over when the loop   *)
(* starts: the tables that are still in it count as published or dropped,  *)
(* and free.                                                               *)
(***************************************************************************)
EXTENDS ClientConnection

(* Table t is in the loop of the given name. *)
InLoop(t, point) ==
    /\ m_mutex[t] # NULL
    /\ pc[m_mutex[t]] = point
    /\ t \in locked_tables[m_mutex[t]]

(* Every key's value for the one who holds the table, and for the others. *)
Drafted(t) == [k \in Keys |-> get(tables[t], k)]

Kept(t) == [k \in Keys |-> CommittedValue(t, k)]

PublishedAt(t) == IF InLoop(t, "committing") THEN Drafted(t) ELSE Kept(t)

DraftAt(t) == IF InLoop(t, "rolling") THEN Kept(t) ELSE Drafted(t)

OwnerOf(t) ==
    IF InLoop(t, "committing") \/ InLoop(t, "rolling") THEN NULL ELSE m_mutex[t]

HeldBy(c) ==
    CASE pc[c] \in {"committing", "rolling"} -> {}
      [] pc[c] \in {"working", "finishing"}  -> locked_tables[c] \cup {cur_table[c]}
      [] OTHER                               -> locked_tables[c]

AccessBy(c) ==
    IF pc[c] = "working"
    THEN [type |-> request[c].type, table |-> cur_table[c], key |-> request[c].key]
    ELSE NULL

published == [t \in TableId |-> PublishedAt(t)]

draft == [t \in TableId |-> DraftAt(t)]

owner == [t \in TableId |-> OwnerOf(t)]

held == [c \in Conns |-> HeldBy(c)]

access == [c \in Conns |-> AccessBy(c)]

stack == [c \in Conns |-> client_stack[c].stk]

Abstract == INSTANCE AtomicStore
                WITH Tables <- TableId, Strings <- String, Default <- EmptyString,
                     Nobody <- NULL

(* Transactions are atomic and isolated: whatever the interleaving of the    *)
(* threads, a GET reads what this unit of work wrote or else what was last   *)
(* published, and the changes of a transaction become visible to others all  *)
(* at once or not at all, although commit_tables unlocks its tables one by   *)
(* one and another thread may use the first while the last is not committed. *)
TransactionsAreAtomic == Abstract!Spec
=============================================================================

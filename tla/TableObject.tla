---------------------------- MODULE TableObject ----------------------------
(***************************************************************************)
(* One Table object in the hands of the thread that holds its lock: any    *)
(* sequence of set, get, commit_changes and rollback_changes.              *)
(***************************************************************************)
EXTENDS Table

CONSTANTS Values  \* the strings that are stored

ASSUME ValuesAssumption == Values \subseteq String

VARIABLES
    table,   \* theMap and tempMap
    result   \* what the last get returned

vars == <<table, result>>

Init ==
    /\ table = NewTable
    /\ result = EmptyString

Set(k, v) ==
    /\ table' = set(table, k, v)
    /\ UNCHANGED result

Get(k) ==
    /\ result' = get(table, k)
    /\ table' = get_effect(table, k)

CommitChanges ==
    /\ table' = commit_changes(table)
    /\ UNCHANGED result

RollbackChanges ==
    /\ table' = rollback_changes(table)
    /\ UNCHANGED result

Next ==
    \/ \E k \in Keys, v \in Values : Set(k, v)
    \/ \E k \in Keys : Get(k)
    \/ CommitChanges
    \/ RollbackChanges

Spec == Init /\ [][Next]_vars

TypeOK ==
    /\ table \in TableState
    /\ result \in String

-----------------------------------------------------------------------------
(* An entry a map does not have reads as the empty string. *)
OrEmpty(s) == IF s = Absent THEN EmptyString ELSE s

Committed == [k \in Keys |-> OrEmpty(table.theMap[k])]

Visible == [k \in Keys |-> get(table, k)]

Abstract == INSTANCE StagedMap
                WITH Default <- EmptyString, kept <- Committed,
                     current <- Visible, answer <- result

(* Two maps behave as one staged map: get returns the latest set since the   *)
(* last rollback, commit_changes keeps exactly what get showed, and          *)
(* rollback_changes returns to exactly the last commit, whatever the order   *)
(* of calls.                                                                 *)
ImplementsStagedMap == Abstract!Spec

(* table.cpp: get of a key that "doesnt exist" throws, so only set makes a   *)
(* key exist.                                                                *)
OnlySetAddsKeys ==
    [][\A k \in Keys :
          has_key(table, k)' /\ ~has_key(table, k)
             => table'.tempMap[k] # table.tempMap[k]]_vars
=============================================================================

------------------------------- MODULE Table -------------------------------
(***************************************************************************)
(* class Table: theMap holds the committed pairs, tempMap the changes made *)
(* since the last commit or rollback.  A table is a record of two total    *)
(* functions on Keys; an entry a std::map does not have is Absent.  The    *)
(* mutex is kept apart, in Server, because it is the only part of a table  *)
(* touched by threads that do not hold it.                                 *)
(***************************************************************************)
EXTENDS StringValue

CONSTANTS Keys

Map == [Keys -> String \cup {Absent}]

TableState == [theMap : Map, tempMap : Map]

EmptyMap == [k \in Keys |-> Absent]

(* The constructor. *)
NewTable == [theMap |-> EmptyMap, tempMap |-> EmptyMap]

(* A plausible slip in set: the change is written to the committed map. *)
set_committed(tb, k, v) == [tb EXCEPT !.theMap = [@ EXCEPT ![k] = v]]

set(tb, k, v) == [tb EXCEPT !.tempMap = [@ EXCEPT ![k] = v]]

has_key(tb, k) == tb.theMap[k] # Absent \/ tb.tempMap[k] # Absent

(* A plausible slip in get: pending changes are overlooked. *)
get_committed(tb, k) ==
    IF tb.theMap[k] # Absent THEN tb.theMap[k] ELSE EmptyString

(* A plausible slip in get: the missing entry is read without being made. *)
get_unmade(tb, k) ==
    IF tb.tempMap[k] # Absent THEN tb.tempMap[k] ELSE tb.theMap[k]

(***************************************************************************)
(* get.  The test that should detect a missing key compares an iterator of *)
(* tempMap with theMap.end(); the two containers have different end nodes, *)
(* so the comparison is false in every build of std::map and the           *)
(* runtime_error is never thrown.  A missing key falls through to          *)
(* theMap's operator[], which inserts an empty string into the committed   *)
(* map and returns it.                                                     *)
(***************************************************************************)
get(tb, k) ==
    IF tb.tempMap[k] # Absent THEN tb.tempMap[k]
    ELSE IF tb.theMap[k] # Absent THEN tb.theMap[k]
    ELSE EmptyString

get_effect(tb, k) ==
    IF has_key(tb, k) THEN tb
    ELSE [tb EXCEPT !.theMap = [@ EXCEPT ![k] = EmptyString]]

(* theMap overwritten by every pair of tempMap. *)
Overlay(tb) ==
    [k \in Keys |-> IF tb.tempMap[k] # Absent THEN tb.tempMap[k]
                                              ELSE tb.theMap[k]]

(* A plausible slip in commit_changes: the copy without the reset. *)
commit_changes_without_reset(tb) == [tb EXCEPT !.theMap = Overlay(tb)]

commit_changes(tb) == [theMap |-> Overlay(tb), tempMap |-> EmptyMap]

(* A plausible slip in rollback_changes: nothing is thrown away. *)
rollback_changes_ignored(tb) == tb

rollback_changes(tb) == [tb EXCEPT !.tempMap = EmptyMap]

(* No change is pending: what holding no lock must guarantee. *)
Clean(tb) == tb.tempMap = EmptyMap
=============================================================================

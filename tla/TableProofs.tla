---------------------------- MODULE TableProofs ----------------------------
(***************************************************************************)
(* A Table object keeps its maps well formed and implements the staged map,*)
(* for every set of keys and strings.                                      *)
(***************************************************************************)
EXTENDS TableObject, DataLemmas

-----------------------------------------------------------------------------
(* Every call leaves a Table object whose maps send keys to strings, and     *)
(* every get returns a string.                                               *)
THEOREM TableTypeCorrect == Spec => []TypeOK
  <1>1. Init => TypeOK
    BY NewTableType, AbsentIsNoString DEF Init, TypeOK
  <1>2. TypeOK /\ [Next]_vars => TypeOK'
    <2> SUFFICES ASSUME TypeOK, [Next]_vars
                 PROVE  TypeOK'
      OBVIOUS
    <2> USE DEF TypeOK
    <2>1. ASSUME NEW k \in Keys, NEW v \in Values, Set(k, v)
          PROVE  TypeOK'
      BY <2>1, SetType, ValuesAssumption DEF Set
    <2>2. ASSUME NEW k \in Keys, Get(k)
          PROVE  TypeOK'
      BY <2>2, GetType, GetEffectType DEF Get
    <2>3. CASE CommitChanges
      BY <2>3, CommitType DEF CommitChanges
    <2>4. CASE RollbackChanges
      BY <2>4, RollbackType DEF RollbackChanges
    <2>5. CASE UNCHANGED vars
      BY <2>5 DEF vars
    <2> QED
      BY <2>1, <2>2, <2>3, <2>4, <2>5 DEF Next
  <1> QED
    BY <1>1, <1>2, PTL DEF Spec

-----------------------------------------------------------------------------
(* The refinement, one lemma per operation.  get is the only one whose effect*)
(* on the two maps differs from what the staged map does: it may insert an   *)
(* empty string, which the mapping does not see.                             *)

LEMMA SetIsEdit ==
    ASSUME TypeOK, NEW k \in Keys, NEW v \in Values, Set(k, v)
    PROVE  Abstract!Edit(k, v)
  <1>1. v # Absent
    BY AbsentIsNoString, ValuesAssumption
  <1>2. Committed' = Committed
    BY DEF Set, set, Committed, TypeOK, TableState
  <1>3. Visible' = [Visible EXCEPT ![k] = v]
    BY <1>1 DEF Set, set, Visible, get, TypeOK, TableState, Map
  <1> QED
    BY <1>2, <1>3 DEF Set, Abstract!Edit

LEMMA GetIsRead ==
    ASSUME TypeOK, NEW k \in Keys, Get(k)
    PROVE  Abstract!Read(k)
  <1>1. Committed' = Committed
    BY AbsentIsNoString
       DEF Get, get_effect, has_key, Committed, OrEmpty, TypeOK, TableState, Map
  <1>2. Visible' = Visible
    BY AbsentIsNoString
       DEF Get, get_effect, has_key, Visible, get, TypeOK, TableState, Map
  <1>3. result' = Visible[k]
    BY DEF Get, Visible
  <1> QED
    BY <1>1, <1>2, <1>3 DEF Abstract!Read

LEMMA CommitIsKeep ==
    ASSUME TypeOK, CommitChanges
    PROVE  Abstract!Keep
  <1>1. Committed' = Visible
    BY AbsentIsNoString
       DEF CommitChanges, commit_changes, Overlay, Committed, OrEmpty, Visible,
           get, TypeOK, TableState, Map
  <1>2. Visible' = Visible
    BY AbsentIsNoString
       DEF CommitChanges, commit_changes, Overlay, EmptyMap, Visible, get, TypeOK,
           TableState, Map
  <1> QED
    BY <1>1, <1>2 DEF CommitChanges, Abstract!Keep

LEMMA RollbackIsTakeBack ==
    ASSUME TypeOK, RollbackChanges
    PROVE  Abstract!TakeBack
  <1>1. Committed' = Committed
    BY DEF RollbackChanges, rollback_changes, Committed, TypeOK, TableState
  <1>2. Visible' = Committed
    BY DEF RollbackChanges, rollback_changes, EmptyMap, Committed, OrEmpty, Visible,
           get, TypeOK, TableState
  <1> QED
    BY <1>1, <1>2 DEF RollbackChanges, Abstract!TakeBack

(* A Table object, with its two maps and its inserting get, implements the   *)
(* staged map: get returns the latest set since the last rollback, a commit  *)
(* keeps exactly what get showed, a rollback returns to the last commit.     *)
THEOREM TableImplementsStagedMap == Spec => ImplementsStagedMap
  <1>1. Init => Abstract!Init
    BY DEF Init, NewTable, EmptyMap, Committed, Visible, get, OrEmpty, Abstract!Init
  <1>2. TypeOK /\ [Next]_vars => [Abstract!Next]_(Abstract!vars)
    <2> SUFFICES ASSUME TypeOK, [Next]_vars
                 PROVE  [Abstract!Next]_(Abstract!vars)
      OBVIOUS
    <2>1. ASSUME NEW k \in Keys, NEW v \in Values, Set(k, v)
          PROVE  Abstract!Next
      BY <2>1, SetIsEdit DEF Abstract!Next
    <2>2. ASSUME NEW k \in Keys, Get(k)
          PROVE  Abstract!Next
      BY <2>2, GetIsRead DEF Abstract!Next
    <2>3. CASE CommitChanges
      BY <2>3, CommitIsKeep DEF Abstract!Next
    <2>4. CASE RollbackChanges
      BY <2>4, RollbackIsTakeBack DEF Abstract!Next
    <2>5. CASE UNCHANGED vars
      BY <2>5 DEF vars, Abstract!vars, Committed, Visible
    <2> QED
      BY <2>1, <2>2, <2>3, <2>4, <2>5 DEF Next
  <1> QED
    BY <1>1, <1>2, TableTypeCorrect, PTL DEF Spec, ImplementsStagedMap, Abstract!Spec
=============================================================================

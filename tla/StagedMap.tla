----------------------------- MODULE StagedMap -----------------------------
(***************************************************************************)
(* What a Table promises the one thread that holds its lock, said without  *)
(* its two maps: a total map from keys to strings, "" where nothing was    *)
(* ever stored, that can be edited, read, and then either kept or taken    *)
(* back to the last kept state.                                            *)
(***************************************************************************)
CONSTANTS Keys, Values, Default

VARIABLES
    kept,    \* the map at the last Keep
    current, \* the map with every later edit
    answer   \* what the last Read returned

vars == <<kept, current, answer>>

Init ==
    /\ kept = [k \in Keys |-> Default]
    /\ current = kept
    /\ answer = Default

Edit(k, v) ==
    /\ current' = [current EXCEPT ![k] = v]
    /\ UNCHANGED <<kept, answer>>

Read(k) ==
    /\ answer' = current[k]
    /\ UNCHANGED <<kept, current>>

Keep ==
    /\ kept' = current
    /\ UNCHANGED <<current, answer>>

TakeBack ==
    /\ current' = kept
    /\ UNCHANGED <<kept, answer>>

Next ==
    \/ \E k \in Keys, v \in Values : Edit(k, v)
    \/ \E k \in Keys : Read(k)
    \/ Keep
    \/ TakeBack

Spec == Init /\ [][Next]_vars
=============================================================================

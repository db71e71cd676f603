---------------------------- MODULE LineChannel ----------------------------
(***************************************************************************)
(* What the two ends of a connection rely on: messages arrive whole, each  *)
(* once, in the order in which they were sent.                             *)
(***************************************************************************)
EXTENDS Naturals, Sequences

CONSTANTS Messages

VARIABLES sent, received

Init == sent = << >> /\ received = << >>

Send == \E m \in Messages : sent' = Append(sent, m) /\ UNCHANGED received

Receive ==
    /\ Len(received) < Len(sent)
    /\ received' = Append(received, sent[Len(received) + 1])
    /\ UNCHANGED sent

Spec == Init /\ [][Send \/ Receive]_<<sent, received>>
=============================================================================

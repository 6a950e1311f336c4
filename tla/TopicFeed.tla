----------------------------- MODULE TopicFeed -----------------------------
(***************************************************************************)
(* What the subscription tab promises its user: every topic update that    *)
(* the client receives is displayed, once, and in the order of arrival.    *)
(* Updates are numbered in that order.                                     *)
(***************************************************************************)
EXTENDS Naturals, Sequences

VARIABLES
    received,   \* how many updates have arrived
    displayed   \* the updates in the list, oldest first

feedVars == <<received, displayed>>

Init == received = 0 /\ displayed = <<>>

Receive ==
    /\ received' = received + 1
    /\ UNCHANGED displayed

\* Append some of the updates that are received and not yet displayed: the
\* oldest ones.
Display ==
    \E n \in Len(displayed) + 1 .. received :
        /\ displayed' = [i \in 1..n |-> i]
        /\ UNCHANGED received

Next == Receive \/ Display

\* Nothing is lost, duplicated or reordered ...
SafeSpec == Init /\ [][Next]_feedVars

\* ... and nothing is held back for ever.
Spec == SafeSpec /\ WF_feedVars(Display)
=============================================================================

---------------------------- MODULE FetchResults ----------------------------
(***************************************************************************)
(* What the search tab promises its user: one fetch at a time, and for     *)
(* each of them at most one result, never after that of a later one.  A    *)
(* result is all that was found, or an error; nothing may be left of it    *)
(* only if the user has started another fetch before it was displayed.     *)
(* Fetches are numbered in the order they are made.                        *)
(***************************************************************************)
EXTENDS Naturals

CONSTANT Fetches    \* the numbers that fetches may have

VARIABLES
    requested,  \* how many fetches were made
    busy,       \* is the last of them in progress?
    found,      \* how many topics were found for each
    displayed   \* the result on the screen, and the fetch that it is of

resultVars == <<requested, busy, found, displayed>>

Init ==
    /\ requested = 0
    /\ busy = FALSE
    /\ found = [f \in Fetches |-> 0]
    /\ displayed = [op |-> "none", id |-> 0, topics |-> {}]

Request ==
    /\ ~busy
    /\ busy' = TRUE
    /\ requested' = requested + 1
    /\ UNCHANGED <<found, displayed>>

Find ==
    /\ busy
    /\ found' = [found EXCEPT ![requested] = @ + 1]
    /\ UNCHANGED <<requested, busy, displayed>>

End ==
    /\ busy
    /\ busy' = FALSE
    /\ UNCHANGED <<requested, found, displayed>>

Last(f) == f = requested

\* The topics of f, or none of them if it is not the last.
Result(f) == {{f} \X (1..found[f])} \cup IF Last(f) THEN {} ELSE {{}}

\* The screen goes on to a fetch that has ended.
Display ==
    \E f \in displayed.id + 1 .. requested :
        /\ Last(f) => ~busy
        /\ \/ \E topics \in Result(f) :
                  displayed' = [op |-> "fetched", id |-> f, topics |-> topics]
           \/ \E op \in {"fetchError", "fetchDiscard"} :
                  displayed' = [op |-> op, id |-> f, topics |-> {}]
        /\ UNCHANGED <<requested, busy, found>>

Next == Request \/ Find \/ End \/ Display

\* Nothing is displayed that was not found, twice, or too late ...
SafeSpec == Init /\ [][Next]_resultVars

\* ... and while a fetch has ended whose result is not displayed, the screen
\* goes on.
Spec == SafeSpec /\ WF_resultVars(Display)
=============================================================================

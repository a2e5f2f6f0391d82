-------------------------- MODULE ComponentReviews --------------------------
(***************************************************************************)
(* What harness-review promises, without batches, threads, replies and     *)
(* calls: every component that has a rubric is answered once, and the      *)
(* command ends with a report on all of them, or with a failure and no     *)
(* report.                                                                 *)
(***************************************************************************)
VARIABLES
    components,  \* the components to review
    answered,    \* those whose answer has been accepted
    outcome      \* "open", "reported", "failed"

vars == <<components, answered, outcome>>

Init == answered = {} /\ outcome = "open"

(* Some components are answered, none of them a second time. *)
Answer(S) ==
    /\ outcome = "open" /\ S \subseteq components \ answered
    /\ answered' = answered \cup S
    /\ UNCHANGED <<components, outcome>>

Report ==
    /\ outcome = "open" /\ answered = components
    /\ outcome' = "reported" /\ UNCHANGED <<components, answered>>

Fail ==
    /\ outcome = "open"
    /\ outcome' = "failed" /\ UNCHANGED <<components, answered>>

Next == Report \/ Fail \/ \E S \in SUBSET (components \ answered) : Answer(S)

Safe == Init /\ [][Next]_vars

(* It ends. *)
Ends == <>(outcome # "open")
=============================================================================

------------------------------ MODULE AdapterCall ------------------------------
(***************************************************************************)
(* What AdapterSupervisor::run promises its caller, without the protocol,  *)
(* the pipes and the select: one call of one adapter.                      *)
(*                                                                         *)
(*  - the call returns once, and what it returned stays;                   *)
(*  - an answer is returned only after the adapter was asked and answered; *)
(*  - when the call returns no process of the adapter's group is alive,    *)
(*    unless it says that the group could not be terminated.               *)
(***************************************************************************)
CONSTANTS
    None,    \* nothing returned yet
    Errors   \* the errors a call may end with, "termination" among them

VARIABLES
    state,     \* idle, working, returned
    alive,     \* whether a process of the adapter's group is alive
    asked,     \* whether the request was sent
    answered,  \* whether a response to it was taken
    result     \* None, "answer" or an error

vars == <<state, alive, asked, answered, result>>

Init ==
    /\ state = "idle"
    /\ ~alive
    /\ ~asked
    /\ ~answered
    /\ result = None

\* Nothing is started for a call that is refused.
Refuse ==
    /\ state = "idle"
    /\ state' = "returned"
    /\ result' \in Errors
    /\ UNCHANGED <<alive, asked, answered>>

Start ==
    /\ state = "idle"
    /\ state' = "working"
    /\ alive' = TRUE
    /\ UNCHANGED <<asked, answered, result>>

Ask ==
    /\ state = "working"
    /\ ~asked
    /\ asked' = TRUE
    /\ UNCHANGED <<state, alive, answered, result>>

Answer ==
    /\ state = "working"
    /\ asked /\ ~answered
    /\ answered' = TRUE
    /\ UNCHANGED <<state, alive, asked, result>>

\* The last process of the group is gone.
Die ==
    /\ alive
    /\ alive' = FALSE
    /\ UNCHANGED <<state, asked, answered, result>>

Return ==
    /\ state = "working"
    /\ state' = "returned"
    /\ result' \in Errors \cup {"answer"}
    /\ result' = "answer" => answered
    /\ result' # "termination" => ~alive
    /\ UNCHANGED <<alive, asked, answered>>

Next == Refuse \/ Start \/ Ask \/ Answer \/ Die \/ Return

Spec == Init /\ [][Next]_vars
=============================================================================

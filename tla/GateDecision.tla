---------------------------- MODULE GateDecision ----------------------------
(***************************************************************************)
(* What the human gate promises about one portfolio order intent, without  *)
(* saying how: the operator may decide and take the decision back as long  *)
(* as no provider command was ordered; a command is ordered at most once,  *)
(* and only while the decision stands at CONFIRMED; from then on the       *)
(* decision is frozen.  A gate that expired is closed for good.            *)
(*                                                                         *)
(* HumanGate implements it (HumanGate!Decision).                           *)
(***************************************************************************)
VARIABLES
    decision,   \* where the operator's decision stands
    ordered     \* a provider command was created

vars == <<decision, ordered>>

Undecided == {"none", "AWAITING_MANUAL_CONFIRMATION"}
Decisions == {"CONFIRMED", "REJECTED"}

Init ==
    /\ decision = "none"
    /\ ordered = FALSE

Open ==
    /\ decision = "none"
    /\ decision' = "AWAITING_MANUAL_CONFIRMATION"
    /\ UNCHANGED ordered

Decide ==
    /\ decision \in Undecided
    /\ decision' \in Decisions
    /\ UNCHANGED ordered

Undo ==
    /\ ~ordered
    /\ decision \in Decisions
    /\ decision' = "AWAITING_MANUAL_CONFIRMATION"
    /\ UNCHANGED ordered

Expire ==
    /\ decision = "AWAITING_MANUAL_CONFIRMATION"
    /\ decision' = "EXPIRED"
    /\ UNCHANGED ordered

Order ==
    /\ decision = "CONFIRMED"
    /\ ~ordered
    /\ ordered' = TRUE
    /\ UNCHANGED decision

Next == Open \/ Decide \/ Undo \/ Expire \/ Order

Spec == Init /\ [][Next]_vars
=============================================================================

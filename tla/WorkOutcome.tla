----------------------------- MODULE WorkOutcome -----------------------------
(***************************************************************************)
(* What the agent task queue promises of a piece of work, however often    *)
(* it is taken, retried and requeued: once done or cancelled it stays so,  *)
(* and only failed work is taken up again.  Market context work is the     *)
(* exception: a newer task may withdraw its result.                        *)
(***************************************************************************)
CONSTANTS
    Work,           \* pieces of work
    Withdrawable    \* those of them that are market context work

VARIABLE outcome

Outcomes == {"none", "open", "done", "failed", "cancelled"}

Init == outcome = [w \in Work |-> "none"]

Turn(w, from, to) ==
    /\ outcome[w] = from
    /\ outcome' = [outcome EXCEPT ![w] = to]

Begin(w)  == Turn(w, "none", "open")
Finish(w) == Turn(w, "open", "done")
Fail(w)   == Turn(w, "open", "failed")
Resume(w) == Turn(w, "failed", "open")

Cancel(w) == Turn(w, "open", "cancelled")

\* One supersession begins the newest work and ends any of the older.
Withdraw(ws) ==
    /\ ws \subseteq Withdrawable
    /\ \A w \in ws : outcome[w] \in {"open", "done"}
    /\ \E bs \in SUBSET Withdrawable :
          /\ \A b \in bs : outcome[b] = "none"
          /\ outcome' = [w \in Work |-> IF w \in ws THEN "cancelled"
                                        ELSE IF w \in bs THEN "open"
                                        ELSE outcome[w]]

Next ==
    \/ \E w \in Work : Begin(w) \/ Finish(w) \/ Fail(w) \/ Resume(w) \/ Cancel(w)
    \/ \E ws \in SUBSET Withdrawable : Withdraw(ws)

Spec == Init /\ [][Next]_outcome
=============================================================================

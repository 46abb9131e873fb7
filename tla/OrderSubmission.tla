-------------------------- MODULE OrderSubmission --------------------------
(***************************************************************************)
(* What the execution gateway promises about broker submissions, without   *)
(* saying how: a command is issued only for an intent that carries an      *)
(* audited authorisation, it is numbered after the commands issued before  *)
(* it, it reaches the broker at most once, and no command is issued for an *)
(* intent once the desk has learnt that the broker holds its order.        *)
(*                                                                         *)
(* ExecutionOutbox implements it (ExecutionOutbox!Submission).             *)
(***************************************************************************)
EXTENDS Naturals

CONSTANT Intents

VARIABLES
    authorized,   \* intents with an approved row in trade_approvals
    issued,       \* [Intents -> Nat]: commands handed out per intent
    submitted,    \* the commands <<intent, n>> whose order the broker holds
    known         \* intents whose order the desk has recorded

vars == <<authorized, issued, submitted, known>>

Init ==
    /\ authorized = {}
    /\ issued = [i \in Intents |-> 0]
    /\ submitted = {}
    /\ known = {}

Authorize(i) ==
    /\ authorized' = authorized \cup {i}
    /\ UNCHANGED <<issued, submitted, known>>

Issue(i) ==
    /\ i \in authorized
    /\ i \notin known
    /\ issued' = [issued EXCEPT ![i] = @ + 1]
    /\ UNCHANGED <<authorized, submitted, known>>

Submit(i, n) ==
    /\ <<i, n>> \notin submitted
    /\ submitted' = submitted \cup {<<i, n>>}
    /\ UNCHANGED <<authorized, issued, known>>

Learn(i) ==
    /\ \E c \in submitted : c[1] = i
    /\ known' = known \cup {i}
    /\ UNCHANGED <<authorized, issued, submitted>>

Next ==
    \E i \in Intents :
        \/ Authorize(i)
        \/ Issue(i)
        \/ \E n \in 1 .. issued[i] : Submit(i, n)
        \/ Learn(i)

Spec == Init /\ [][Next]_vars
=============================================================================

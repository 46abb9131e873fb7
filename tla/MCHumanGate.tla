---------------------------- MODULE MCHumanGate -----------------------------
(***************************************************************************)
(* TLC instances of HumanGate.  Two requests expect the first revision,    *)
(* two expect none: a confirmation races a rejection, a second operator's  *)
(* confirmation and an undo.                                               *)
(***************************************************************************)
EXTENDS HumanGate

Request(op, expect, id) == [op |-> op, expect |-> expect, id |-> id]

MCRequests ==
    {Request("confirm", 1, 1), Request("reject", 1, 1),
     Request("confirm", 0, 2), Request("undo", 0, 1)}

MCRetried == {Request("confirm", 0, 1), Request("undo", 0, 1)}
=============================================================================

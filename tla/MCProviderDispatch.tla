------------------------- MODULE MCProviderDispatch -------------------------
(***************************************************************************)
(* TLC instances of ProviderDispatch: one confirmation and one undo, so    *)
(* that the gate may still move while the command is made and dispatched.  *)
(***************************************************************************)
EXTENDS ProviderDispatch

MCRequests ==
    {[op |-> "confirm", expect |-> 0, id |-> 1], [op |-> "undo", expect |-> 0, id |-> 1]}
=============================================================================

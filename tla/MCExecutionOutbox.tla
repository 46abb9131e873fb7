------------------------- MODULE MCExecutionOutbox -------------------------
(***************************************************************************)
(* TLC instances of ExecutionOutbox.  Intents and Handlers are model       *)
(* values; no property names one, so they are symmetric in the safety runs.*)
(***************************************************************************)
EXTENDS ExecutionOutbox, TLC

Symmetry == Permutations(Intents) \cup Permutations(Handlers)
=============================================================================

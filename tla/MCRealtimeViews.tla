--------------------------- MODULE MCRealtimeViews ---------------------------
(* Instances of RealtimeViews for TLC.  "live" stands for a view that both   *)
(* lists of the page name, like live-trading.                                *)
EXTENDS RealtimeViews

MCHistory == {<<0, 1>>}
MCEvents == MCHistory \cup {<<1, 1>>, <<2, 1>>, <<3, 1>>}
MCAggregateOf == [e \in Events |-> CHOOSE a \in Aggregates : TRUE]
=============================================================================

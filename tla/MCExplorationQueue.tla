------------------------- MODULE MCExplorationQueue -------------------------
(* Small instances of ExplorationQueue: all requests ask the same question. *)
EXTENDS ExplorationQueue

MCQuestion == [r \in Requests |-> "same"]

\* Every run that was asked for ends, of the user and of a turn (exploration.rs, run_scheduler).
RunsEnd == ManualRunsEnd /\ IntentsEnd
=============================================================================

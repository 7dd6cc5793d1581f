--------------------------- MODULE MCActivityPipeline --------------------------
(* An instance of ActivityPipeline for TLC. *)
EXTENDS ActivityPipeline

CONSTANTS e1, e2, p1, p2

(* Events of different runs, each with an event_id of its own. *)
OwnID == [e \in Events |-> e]
================================================================================

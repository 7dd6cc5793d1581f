------------------------------ MODULE MCPersistor ------------------------------
(* Instances of Persistor for TLC. *)
EXTENDS Persistor, TLC

CONSTANTS e1, e2, e3, p1, p2

(* The event_id that NewKeyboardEvent, NewMouseEvent and NewMicrophoneEvent *)
(* give an event: it names the agent's run, by its trace id, and the kind   *)
(* of event, and nothing else.                                              *)
EnvelopeID(traceID, kind) == <<"evt", traceID, kind>>

(* Two keyboard events of one run and a microphone event of it.            *)
OneRun == [e \in Events |-> EnvelopeID("trace1", IF e = e3 THEN "mic" ELSE "keyboard")]

PersistorSymmetry == Permutations(Persistors)
================================================================================

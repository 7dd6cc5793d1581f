------------------------------ MODULE SampleSource -----------------------------
(***************************************************************************)
(* What the microphone listener gets from its SampleSource                 *)
(* (internal/listeners/microphone/listener.go) when the source drops what  *)
(* it does not read in time: chunks in the order they were captured, some  *)
(* of them missing, none of them older than Window chunks.                 *)
(***************************************************************************)
EXTENDS Naturals

CONSTANT Window  \* how many chunks the source may hold for the listener

VARIABLES captured,  \* number of the latest chunk
          taken      \* number of the chunk read last; 0 at first

Init == captured = 0 /\ taken = 0

Capture ==
    /\ captured' = captured + 1
    /\ UNCHANGED taken

Deliver ==
    /\ \E chunk \in taken + 1 .. captured :
          /\ captured <= chunk + Window
          /\ taken' = chunk
    /\ UNCHANGED captured

Next == Capture \/ Deliver

Spec == Init /\ [][Next]_<<captured, taken>>
================================================================================

------------------------------ MODULE EventJourney -----------------------------
(***************************************************************************)
(* What becomes of each event an agent publishes, end to end: it waits in  *)
(* the agent's buffer, the activity stream queues it, and it ends as a     *)
(* record (a row or a dead letter) or with a dead letter that could not be *)
(* published.  None of the three is left again.  An event is gone without  *)
(* a trace in two cases only: it reached a server without the stream, or   *)
(* the agent was lost with the event in its buffer.  An agent that closes  *)
(* its publisher in order leaves none behind.                              *)
(***************************************************************************)
CONSTANT Events

VARIABLES stage,   \* how far each event is
          agent,   \* the agent is "up", it has "closed", or it was "lost"
          stream   \* the activity stream exists

journeyVars == <<stage, agent, stream>>

JourneyInit ==
    /\ stage = [e \in Events |-> "new"]
    /\ agent = "up"
    /\ stream = FALSE

Moves(e, from, to) ==
    /\ stage[e] = from
    /\ stage' = [stage EXCEPT ![e] = to]
    /\ UNCHANGED <<agent, stream>>

Publish(e) == agent = "up" /\ Moves(e, "new", "buffered")

WriteOut(e) == agent = "up" /\ Moves(e, "buffered", IF stream THEN "queued" ELSE "gone")

Settle(e) == \E to \in {"recorded", "dropped"} : Moves(e, "queued", to)

CreateStream ==
    /\ stream' = TRUE
    /\ UNCHANGED <<stage, agent>>

Close ==
    /\ agent = "up"
    /\ \A e \in Events : stage[e] # "buffered"
    /\ agent' = "closed"
    /\ UNCHANGED <<stage, stream>>

Lose ==
    /\ agent = "up"
    /\ agent' = "lost"
    /\ stage' = [e \in Events |-> IF stage[e] = "buffered" THEN "gone" ELSE stage[e]]
    /\ UNCHANGED stream

JourneyNext ==
    \/ \E e \in Events : Publish(e) \/ WriteOut(e) \/ Settle(e)
    \/ CreateStream
    \/ Close
    \/ Lose

JourneySpec == JourneyInit /\ [][JourneyNext]_journeyVars
================================================================================

---------------------------- MODULE ActivityPipeline ---------------------------
(***************************************************************************)
(* The way of an event from an agent to the activity table: the agent's    *)
(* publisher (internal/messaging/nats/publisher.go), the streams and the   *)
(* consumer that the command jetstream-setup creates                       *)
(* (ConfigureJetStream, jetstream.go), and the persistors.                 *)
(*                                                                         *)
(* The agent publishes with core NATS: PublishActivity returns once the    *)
(* event is in the connection's buffer, and an event that reaches the      *)
(* server before the activity stream exists is gone without an error.  The *)
(* set-up makes three calls, may fail at each and may be run again; agents *)
(* and persistors may be started before, during or after it.               *)
(***************************************************************************)
EXTENDS Persistor

CONSTANT AgentEvents  \* events of the agent; the others come from elsewhere

(* PublishActivity refuses what Insert would refuse: both look at the same *)
(* fields.  The dead-letter publish can fail at any time here.  Whether    *)
(* the consumer was made by the set-up or by a persistor makes a           *)
(* difference to the limit of deliveries only, which is out of reach while *)
(* no delivery is lost; nor does AckWait expire then.                      *)
ASSUME PipelineAssumption ==
    /\ AgentEvents \subseteq Events \ (Malformed \cup Rejected)
    /\ "dlq" \in Faults
    /\ Faults \cap {"crash", "slow", "ack"} = {}

VARIABLES resources,   \* what exists in JetStream
          setup,       \* the call jetstream-setup makes next
          first,       \* history: what came first, ConfigureJetStream returning
                       \* without an error or the start of a persistor
          agent,       \* the agent's publisher
          outbox       \* where each of the agent's events is

setupVars == <<resources, setup, first>>
agentVars == <<agent, outbox>>
pipelineVars == <<vars, setupVars, agentVars>>

Resources == {"stream", "dlq", "consumer"}

PipelineTypeOK ==
    /\ TypeOK
    /\ resources \subseteq Resources
    /\ setup \in {"idle"} \cup Resources
    /\ first \in {"neither", "setup", "persistor"}
    /\ agent \in {"running", "closing", "closed", "lost"}
    /\ outbox \in [AgentEvents -> {"new", "buffered", "out"}]

PipelineInit ==
    /\ Init
    /\ resources = {}
    /\ setup = "idle"
    /\ first = "neither"
    /\ agent = "running"
    /\ outbox = [e \in AgentEvents |-> "new"]

--------------------------------------------------------------------------------
(* jetstream-setup *)

RunSetup ==
    /\ setup = "idle"
    /\ setup' = "stream"
    /\ UNCHANGED <<vars, resources, first, agentVars>>

Comes(event) == first' = IF first = "neither" THEN event ELSE first

CallAfter(r) ==
    CASE r = "stream" -> "dlq"
      [] r = "dlq" -> "consumer"
      [] r = "consumer" -> "idle"

(* Mutant: errors other than "already in use" are ignored, too. *)
EnsureIgnoringErrors(r) ==
    /\ setup = r
    /\ resources' \in {resources, resources \cup {r}}
    /\ setup' = CallAfter(r)
    /\ IF r = "consumer" THEN Comes("setup") ELSE UNCHANGED first
    /\ UNCHANGED <<vars, agentVars>>

(* ensureStream and ensureConsumer leave an existing resource in place.  An *)
(* error ends the set-up; the resource may have been created all the same.  *)
Ensure(r) ==
    /\ setup = r
    /\ \/ /\ resources' = resources \cup {r}
          /\ setup' = CallAfter(r)
          /\ IF r = "consumer" THEN Comes("setup") ELSE UNCHANGED first
       \/ /\ resources' \in {resources, resources \cup {r}}
          /\ setup' = "idle"
          /\ UNCHANGED first
    /\ UNCHANGED <<vars, agentVars>>

--------------------------------------------------------------------------------
(* The agent *)

PublishActivity(e) ==
    /\ agent = "running"
    /\ outbox[e] = "new"
    /\ outbox' = [outbox EXCEPT ![e] = "buffered"]
    /\ UNCHANGED <<vars, setupVars, agent>>

(* The event reaches the server, which stores it if the stream exists.     *)
WriteOut(e) ==
    /\ agent \in {"running", "closing"}
    /\ outbox[e] = "buffered"
    /\ outbox' = [outbox EXCEPT ![e] = "out"]
    /\ IF "stream" \in resources THEN Publish(e) ELSE UNCHANGED vars
    /\ UNCHANGED <<setupVars, agent>>

(* The agent's listeners have stopped: GracefulShutdown begins. *)
Shutdown ==
    /\ agent = "running"
    /\ agent' = "closing"
    /\ UNCHANGED <<vars, setupVars, outbox>>

DiscardBuffer ==
    outbox' = [e \in AgentEvents |-> IF outbox[e] = "buffered" THEN "out" ELSE outbox[e]]

(* Mutant: the connection is closed without waiting for the flush. *)
FlushAndCloseAtOnce ==
    /\ agent = "closing"
    /\ agent' = "closed"
    /\ DiscardBuffer
    /\ UNCHANGED <<vars, setupVars>>

(* Flush returns when the buffer has been written out, and Close follows.  *)
FlushAndClose ==
    /\ agent = "closing"
    /\ \A e \in AgentEvents : outbox[e] # "buffered"
    /\ agent' = "closed"
    /\ UNCHANGED <<vars, setupVars, outbox>>

(* The agent dies, or its connection does until the flush gives up: what   *)
(* is in the buffer is lost.                                               *)
LoseAgent ==
    /\ agent \in {"running", "closing"}
    /\ agent' = "lost"
    /\ DiscardBuffer
    /\ UNCHANGED <<vars, setupVars>>

--------------------------------------------------------------------------------
(* The activity service and other publishers *)

(* NewPersistor needs the activity stream; PullSubscribe creates a consumer *)
(* of the durable name if there is none.  That ConfigureJetStream has been  *)
(* run is left to the caller.                                               *)
StartPersistor(p) ==
    /\ "stream" \in resources
    /\ Start(p)
    /\ resources' = resources \cup {"consumer"}
    /\ Comes("persistor")
    /\ UNCHANGED <<setup, agentVars>>

(* The dead-letter publish waits for the stream's answer: without a stream *)
(* it fails.                                                               *)
PersistorStep(p) ==
    /\ Step(p)
    /\ pc[p] = "deadletter" /\ "dlq" \notin resources => UNCHANGED dlq
    /\ UNCHANGED <<setupVars, agentVars>>

PersistorStops(p) ==
    /\ FetchFails(p) \/ Cancel(p)
    /\ UNCHANGED <<setupVars, agentVars>>

PublishElsewhere(e) ==
    /\ "stream" \in resources
    /\ Publish(e)
    /\ UNCHANGED <<setupVars, agentVars>>

--------------------------------------------------------------------------------
PipelineNext ==
    \/ RunSetup
    \/ \E r \in Resources : Ensure(r)
    \/ \E e \in AgentEvents : PublishActivity(e) \/ WriteOut(e)
    \/ Shutdown
    \/ FlushAndClose
    \/ LoseAgent
    \/ \E e \in Events \ AgentEvents : PublishElsewhere(e)
    \/ \E p \in Persistors : StartPersistor(p) \/ PersistorStep(p) \/ PersistorStops(p)

PipelineSpec == PipelineInit /\ [][PipelineNext]_pipelineVars

(* A running loop keeps going, and the NATS client of an agent that lives  *)
(* and is connected writes its buffer out; nothing makes anyone run the    *)
(* set-up or start a persistor.                                            *)
PipelineFairSpec ==
    /\ PipelineSpec
    /\ \A p \in Persistors : WF_pipelineVars(PersistorStep(p))
    /\ \A e \in AgentEvents : WF_pipelineVars(WriteOut(e))

--------------------------------------------------------------------------------
(* Properties *)

(* While some persistor is left running, every event that is in the stream, *)
(* or in the buffer of the agent while the stream exists, is acknowledged   *)
(* in the end: the agent's shutdown, inserts and dead-letter publishes that *)
(* fail, set-ups that fail and other persistors that come and go do not     *)
(* leave it behind.  Only the loss of the agent loses what it had buffered. *)
InFlight(e) ==
    \/ consumer[e] = "ready"
    \/ e \in AgentEvents /\ outbox[e] = "buffered" /\ "stream" \in resources

LostWithAgent(e) == agent = "lost" /\ consumer[e] = "unpublished"

EverySettled ==
    (\E p \in Persistors : <>[](pc[p] # "stopped"))
        => \A e \in Events : InFlight(e) ~> (consumer[e] = "acked" \/ LostWithAgent(e))

(* "The caller must ensure ConfigureJetStream has been run at least once   *)
(* before starting the persistor" (persistor.go:31): if so, no dead letter *)
(* is lost for want of its stream, however often the set-up failed before  *)
(* and is run again.                                                       *)
SetupCoversDeadLetters ==
    [][first = "setup" /\ dropped' # dropped => "dlq" \in resources]_pipelineVars

(* Each event of the agent makes the journey of EventJourney: whichever    *)
(* persistors deliver it and however often their inserts and dead letters  *)
(* fail, it has one end, and the agent's shutdown loses none.              *)
Stage(e) ==
    IF outbox[e] # "out" THEN outbox[e]
    ELSE IF e \in table \cup dlq THEN "recorded"
    ELSE IF e \in dropped THEN "dropped"
    ELSE IF consumer[e] = "unpublished" THEN "gone"
    ELSE "queued"

Journey == INSTANCE EventJourney WITH
    Events <- AgentEvents,
    stage <- [e \in AgentEvents |-> Stage(e)],
    agent <- IF agent \in {"running", "closing"} THEN "up" ELSE agent,
    stream <- "stream" \in resources

RefinesJourney == Journey!JourneySpec

(* Inductive invariant: the set-up makes its calls in order, what exists    *)
(* stays, and no persistor runs before one has been started.                *)
SetupInv ==
    /\ setup = "dlq" => "stream" \in resources
    /\ setup = "consumer" => {"stream", "dlq"} \subseteq resources
    /\ first = "setup" => "dlq" \in resources

(* Inductive invariant: what has not left the agent is not in the stream,  *)
(* and an event whose dead letter was dropped is acknowledged or about to  *)
(* be, so that no delivery of it follows.                                  *)
Unsent == \A e \in AgentEvents : outbox[e] # "out" => consumer[e] = "unpublished"

DroppedSettled ==
    \A e \in dropped :
        \/ consumer[e] = "acked"
        \/ \E p \in Persistors : pc[p] = "ack" /\ msg[p] = e

JourneyInv == SetupInv /\ Unsent /\ DroppedSettled
================================================================================

------------------------- MODULE ActivityPipelineProofs ------------------------
(***************************************************************************)
(* The pipeline implements its persistors, so what is proved of them holds *)
(* in it; and what the order of the set-up's calls is good for.            *)
(***************************************************************************)
EXTENDS ActivityPipeline, PersistorProofs

(* Every step of the pipeline is a step of the persistors or leaves their  *)
(* variables alone.                                                        *)
LEMMA PipelineStep == PipelineNext => [Next]_vars
<1> SUFFICES ASSUME PipelineNext PROVE [Next]_vars
  OBVIOUS
<1>1. CASE RunSetup \/ Shutdown \/ FlushAndClose \/ LoseAgent
  BY <1>1 DEF RunSetup, Shutdown, FlushAndClose, LoseAgent
<1>2. CASE \E r \in Resources : Ensure(r)
  BY <1>2 DEF Ensure
<1>3. ASSUME NEW e \in AgentEvents, PublishActivity(e) \/ WriteOut(e)
      PROVE  [Next]_vars
  <2>1. e \in Events
    BY PipelineAssumption
  <2> QED
    BY <1>3, <2>1 DEF PublishActivity, WriteOut, Next
<1>4. CASE \E e \in Events \ AgentEvents : PublishElsewhere(e)
  BY <1>4 DEF PublishElsewhere, Next
<1>5. ASSUME NEW p \in Persistors, StartPersistor(p) \/ PersistorStep(p) \/ PersistorStops(p)
      PROVE  [Next]_vars
  BY <1>5 DEF StartPersistor, PersistorStep, PersistorStops, Next
<1> QED
  BY <1>1, <1>2, <1>3, <1>4, <1>5 DEF PipelineNext

(* Agents and set-up only restrict the persistors, so every property of    *)
(* these is one of the pipeline.                                           *)
THEOREM PipelineIsPersistors == PipelineSpec => Spec
<1>1. PipelineInit => Init
  BY DEF PipelineInit
<1>2. [PipelineNext]_pipelineVars => [Next]_vars
  BY PipelineStep DEF pipelineVars
<1> QED
  BY <1>1, <1>2, PTL DEF PipelineSpec, Spec

(* No event runs out of deliveries in the pipeline, whoever created the    *)
(* consumer.                                                               *)
THEOREM PipelineDeliveriesSuffice == PipelineSpec => []NoneExhausted
BY PipelineIsPersistors, DeliveriesSuffice, PTL

(* No event waits for its AckWait in the pipeline, also when a persistor   *)
(* is told to stop or cannot publish its dead letter.                      *)
THEOREM PipelineFetchedIsHeld == PipelineSpec => []NoneStranded
BY PipelineIsPersistors, FetchedIsHeld, PTL

(* No event is stored and dead-lettered, whatever the set-up and the agent *)
(* do meanwhile, unless its Insert wrote the row and returned an error, as *)
(* a shutdown in the middle of it can bring about.                         *)
THEOREM PipelineOnePlace == PipelineSpec => []StoredOrDeadLettered
BY PipelineIsPersistors, OnePlaceOfRecord, PTL

--------------------------------------------------------------------------------
(* What SetupInv and its types add to those of the persistors. *)
SetupTypes ==
    /\ resources \subseteq Resources
    /\ setup \in {"idle"} \cup Resources
    /\ first \in {"neither", "setup", "persistor"}
    /\ agent \in {"running", "closing", "closed", "lost"}
    /\ outbox \in [AgentEvents -> {"new", "buffered", "out"}]

(* Nothing exists at first, and nobody has started. *)
LEMMA SetupInit == PipelineInit => SetupTypes /\ SetupInv
BY DEF PipelineInit, SetupTypes, SetupInv, Resources

(* The agent's events are each in one place. *)
LEMMA OutboxStep ==
    ASSUME SetupTypes, PipelineNext
    PROVE  outbox' \in [AgentEvents -> {"new", "buffered", "out"}]
BY DEF SetupTypes, PipelineNext, RunSetup, Ensure, PublishActivity, WriteOut, Shutdown,
       FlushAndClose, LoseAgent, DiscardBuffer, PublishElsewhere,
       StartPersistor, PersistorStep, PersistorStops, setupVars, agentVars

(* The calls are made in order and no resource goes: Ensure is the one     *)
(* action with something to show.                                          *)
LEMMA SetupStep ==
    SetupTypes /\ SetupInv /\ [PipelineNext]_pipelineVars => (SetupTypes /\ SetupInv)'
<1> SUFFICES ASSUME SetupTypes, SetupInv, [PipelineNext]_pipelineVars
             PROVE  (SetupTypes /\ SetupInv)'
  OBVIOUS
<1>1. ASSUME NEW r \in Resources, Ensure(r)
      PROVE  (SetupTypes /\ SetupInv)'
  <2>1. CASE r = "stream"
    BY <1>1, <2>1 DEF Ensure, CallAfter, Comes, SetupTypes, SetupInv, Resources, agentVars
  <2>2. CASE r = "dlq"
    BY <1>1, <2>2 DEF Ensure, CallAfter, Comes, SetupTypes, SetupInv, Resources, agentVars
  <2>3. CASE r = "consumer"
    BY <1>1, <2>3 DEF Ensure, CallAfter, Comes, SetupTypes, SetupInv, Resources, agentVars
  <2> QED
    BY <2>1, <2>2, <2>3 DEF Resources
<1>2. CASE RunSetup
  BY <1>2 DEF RunSetup, SetupTypes, SetupInv, Resources, agentVars
<1>3. CASE Shutdown \/ FlushAndClose \/ LoseAgent
  BY <1>3, OutboxStep DEF PipelineNext, Shutdown, FlushAndClose, LoseAgent,
                          SetupTypes, SetupInv, setupVars
<1>4. ASSUME NEW e \in AgentEvents, PublishActivity(e) \/ WriteOut(e)
      PROVE  (SetupTypes /\ SetupInv)'
  BY <1>4, OutboxStep DEF PipelineNext, PublishActivity, WriteOut,
                          SetupTypes, SetupInv, setupVars
<1>5. ASSUME NEW p \in Persistors, StartPersistor(p)
      PROVE  (SetupTypes /\ SetupInv)'
  BY <1>5 DEF StartPersistor, Comes, SetupTypes, SetupInv, Resources, agentVars
<1>6. CASE \/ \E e \in Events \ AgentEvents : PublishElsewhere(e)
           \/ \E p \in Persistors : PersistorStep(p) \/ PersistorStops(p)
           \/ UNCHANGED pipelineVars
  <2>1. UNCHANGED <<setupVars, agentVars>>
    BY <1>6 DEF PublishElsewhere, PersistorStep, PersistorStops, pipelineVars
  <2> QED
    BY <2>1 DEF SetupTypes, SetupInv, setupVars, agentVars
<1> QED
  BY <1>1, <1>2, <1>3, <1>4, <1>5, <1>6 DEF PipelineNext

(* Every variable of the pipeline keeps its type. *)
THEOREM PipelineTypeCorrect == PipelineSpec => []PipelineTypeOK
<1>1. SetupTypes /\ TypeOK => PipelineTypeOK
  BY DEF SetupTypes, PipelineTypeOK
<1> QED
  BY <1>1, SetupInit, SetupStep, PipelineIsPersistors, TypeCorrect, PTL DEF PipelineSpec

(* Persistors that are started after a set-up that succeeded never lose a  *)
(* dead letter to a missing stream: the set-up makes the consumer last and *)
(* returns an error if the dead-letter stream could not be made.           *)
THEOREM SetupCovers == PipelineSpec => SetupCoversDeadLetters
<1>1. SetupInv /\ [PipelineNext]_pipelineVars
          => [first = "setup" /\ dropped' # dropped => "dlq" \in resources]_pipelineVars
  BY DEF SetupInv
<1> QED
  BY <1>1, SetupInit, SetupStep, PTL DEF PipelineSpec, SetupCoversDeadLetters

--------------------------------------------------------------------------------
(* The pipeline has none of the faults that lose a delivery. *)
LEMMA PipelineIsCalm == Calm
BY PipelineAssumption DEF Calm

(* A dead letter that was dropped stays the last that is done to its event. *)
LEMMA DroppedStep ==
    TypeOK /\ Exclusive /\ DroppedSettled /\ [Next]_vars => DroppedSettled'
<1> SUFFICES ASSUME TypeOK, Exclusive, DroppedSettled, [Next]_vars PROVE DroppedSettled'
  OBVIOUS
<1> USE DEF TypeOK, Goto, Busy, Holds, DroppedSettled
<1>0. "crash" \notin Faults /\ "slow" \notin Faults /\ "ack" \notin Faults
  BY PipelineAssumption
<1>1. ASSUME NEW e \in Events, Publish(e) \/ AckWaitExpires(e) PROVE DroppedSettled'
  BY <1>0, <1>1 DEF Publish, AckWaitExpires
<1>2. ASSUME NEW p \in Persistors, NEW e \in Events, Fetch(p, e) PROVE DroppedSettled'
  BY <1>2 DEF Fetch
<1>3. ASSUME NEW p \in Persistors,
             CheckContext(p) \/ FetchTimesOut(p) \/ Insert(p) \/ InsertFails(p)
      PROVE  DroppedSettled'
  BY <1>3 DEF CheckContext, FetchTimesOut, Insert, InsertFails
<1>4. ASSUME NEW p \in Persistors, DeadLetter(p) PROVE DroppedSettled'
  BY <1>4 DEF DeadLetter
<1>5. ASSUME NEW p \in Persistors, Ack(p) PROVE DroppedSettled'
  <2>1. consumer' = [consumer EXCEPT ![msg[p]] = "acked"]
    BY <1>0, <1>5 DEF Ack, Exclusive
  <2> QED
    BY <1>5, <2>1 DEF Ack
<1>6. ASSUME NEW p \in Persistors, Nak(p) PROVE DroppedSettled'
  <2>1. consumer[msg[p]] = "pending"
    BY <1>6 DEF Nak, Exclusive
  <2> QED
    BY <1>0, <1>6, <2>1 DEF Nak
<1>7. ASSUME NEW p \in Persistors, Start(p) \/ FetchFails(p) \/ Cancel(p) \/ Crash(p)
      PROVE  DroppedSettled'
  BY <1>0, <1>7 DEF Start, FetchFails, Cancel, Crash
<1>8. CASE UNCHANGED vars
  BY <1>8 DEF vars
<1> QED
  BY <1>1, <1>2, <1>3, <1>4, <1>5, <1>6, <1>7, <1>8 DEF Next, Step

(* A step of a persistor neither publishes an event nor takes one back.    *)
LEMMA PersistorsDoNotPublish ==
    ASSUME TypeOK, Custody, NEW p \in Persistors,
           Step(p) \/ Start(p) \/ FetchFails(p) \/ Cancel(p), NEW e \in Events
    PROVE  consumer'[e] = "unpublished" <=> consumer[e] = "unpublished"
<1> USE DEF TypeOK, Busy
<1>1. CASE \E f \in Events : Fetch(p, f)
  BY <1>1 DEF Fetch
<1>2. CASE Ack(p)
  BY <1>2 DEF Ack
<1>3. CASE Nak(p)
  BY <1>3 DEF Nak, Requeued
<1>4. CASE \/ CheckContext(p) \/ FetchTimesOut(p) \/ Insert(p) \/ InsertFails(p)
           \/ DeadLetter(p) \/ Start(p) \/ FetchFails(p) \/ Cancel(p)
  BY <1>4 DEF CheckContext, FetchTimesOut, Insert, InsertFails, DeadLetter, Start,
              FetchFails, Cancel
<1> QED
  BY <1>1, <1>2, <1>3, <1>4 DEF Step

(* An event is in the stream only after the agent has written it out. *)
LEMMA UnsentStep ==
    SettledInv /\ SetupTypes /\ Unsent /\ [PipelineNext]_pipelineVars => Unsent'
<1> SUFFICES ASSUME SettledInv, SetupTypes, Unsent, [PipelineNext]_pipelineVars
             PROVE  Unsent'
  OBVIOUS
<1> USE DEF SetupTypes, Unsent
<1>0. TypeOK /\ Custody /\ AgentEvents \subseteq Events
  BY PipelineAssumption DEF SettledInv, Inv
<1>1. ASSUME NEW e \in AgentEvents, PublishActivity(e) PROVE Unsent'
  BY <1>1 DEF PublishActivity, vars
<1>2. ASSUME NEW e \in AgentEvents, WriteOut(e) PROVE Unsent'
  BY <1>0, <1>2 DEF WriteOut, Publish, TypeOK, vars
<1>3. CASE LoseAgent
  BY <1>3 DEF LoseAgent, DiscardBuffer, vars
<1>4. ASSUME NEW e \in Events \ AgentEvents, PublishElsewhere(e) PROVE Unsent'
  BY <1>0, <1>4 DEF PublishElsewhere, Publish, TypeOK, agentVars
<1>5. ASSUME NEW p \in Persistors, StartPersistor(p) \/ PersistorStep(p) \/ PersistorStops(p)
      PROVE  Unsent'
  <2>1. outbox' = outbox
    BY <1>5 DEF StartPersistor, PersistorStep, PersistorStops, agentVars
  <2>2. Step(p) \/ Start(p) \/ FetchFails(p) \/ Cancel(p)
    BY <1>5 DEF StartPersistor, PersistorStep, PersistorStops
  <2> QED
    BY <1>0, <2>1, <2>2, PersistorsDoNotPublish
<1>6. CASE RunSetup \/ (\E r \in Resources : Ensure(r)) \/ Shutdown \/ FlushAndClose
  BY <1>6 DEF RunSetup, Ensure, Shutdown, FlushAndClose, vars, agentVars
<1>7. CASE UNCHANGED pipelineVars
  BY <1>7 DEF pipelineVars, vars, agentVars
<1> QED
  BY <1>1, <1>2, <1>3, <1>4, <1>5, <1>6, <1>7 DEF PipelineNext

(* A step of a persistor settles the one event it holds, if it is queued,  *)
(* and leaves every other event where it is.                               *)
LEMMA PersistorsSettle ==
    ASSUME SettledInv, SetupTypes, JourneyInv, NEW p \in Persistors,
           Step(p) \/ Start(p) \/ FetchFails(p) \/ Cancel(p), UNCHANGED outbox
    PROVE  \A e \in AgentEvents :
              \/ Stage(e)' = Stage(e)
              \/ e = msg[p] /\ Stage(e) = "queued" /\ Stage(e)' \in {"recorded", "dropped"}
<1> SUFFICES ASSUME NEW e \in AgentEvents
             PROVE  \/ Stage(e)' = Stage(e)
                    \/ /\ e = msg[p] /\ Stage(e) = "queued"
                       /\ Stage(e)' \in {"recorded", "dropped"}
  OBVIOUS
<1>0. /\ e \in Events /\ TypeOK /\ Custody /\ Exclusive
      /\ Unsent /\ DroppedSettled
  BY PipelineAssumption, PipelineIsCalm DEF SettledInv, Inv, JourneyInv
<1>1. outbox' = outbox /\ (consumer'[e] = "unpublished" <=> consumer[e] = "unpublished")
  BY <1>0, PersistorsDoNotPublish
<1>2. CASE Insert(p) \/ InsertFails(p) \/ DeadLetter(p)
  <2>1. pc[p] \in {"insert", "deadletter"}
    BY <1>2 DEF Insert, InsertFails, DeadLetter
  <2>2. \/ UNCHANGED <<table, dlq, dropped>>
        \/ table' = table \cup {msg[p]} /\ UNCHANGED <<dlq, dropped>>
        \/ dlq' = dlq \cup {msg[p]} /\ UNCHANGED <<table, dropped>>
        \/ dropped' = dropped \cup {msg[p]} /\ UNCHANGED <<table, dlq>>
    BY <1>2 DEF Insert, InsertFails, DeadLetter
  <2>3. CASE e # msg[p]
    BY <1>1, <2>2, <2>3 DEF Stage
  <2>4. CASE e = msg[p]
    <3>1. consumer[e] = "pending"
      BY <1>0, <2>1, <2>4 DEF Exclusive, Busy
    <3>2. e \notin dropped
      <4>1. ASSUME NEW q \in Persistors, pc[q] = "ack", msg[q] = e PROVE FALSE
        BY <1>0, <2>1, <2>4, <4>1 DEF Exclusive, Busy
      <4> QED
        BY <1>0, <3>1, <4>1 DEF DroppedSettled
    <3>3. outbox[e] = "out"
      BY <1>0, <3>1 DEF Unsent
    <3> QED
      BY <1>1, <2>2, <2>4, <3>1, <3>2, <3>3 DEF Stage
  <2> QED
    BY <2>3, <2>4
<1>3. CASE \/ CheckContext(p) \/ FetchTimesOut(p) \/ (\E f \in Events : Fetch(p, f))
           \/ Ack(p) \/ Nak(p) \/ Start(p) \/ FetchFails(p) \/ Cancel(p)
  <2>1. UNCHANGED <<table, dlq, dropped>>
    BY <1>3 DEF CheckContext, FetchTimesOut, Fetch, Ack, Nak, Start, FetchFails, Cancel
  <2> QED
    BY <1>1, <2>1 DEF Stage
<1> QED
  BY <1>2, <1>3 DEF Step

(* One event that changes its stage, and the agent and the stream as they  *)
(* are, is a move of the journey.                                          *)
LEMMA OneMoves ==
    ASSUME NEW e \in AgentEvents,
           \A f \in AgentEvents \ {e} : Stage(f)' = Stage(f),
           UNCHANGED agent, UNCHANGED ("stream" \in resources)
    PROVE  Journey!Moves(e, Stage(e), Stage(e)')
BY DEF Journey!Moves

(* No event changes its stage. *)
LEMMA NoneMoves ==
    ASSUME \A e \in AgentEvents : Stage(e)' = Stage(e),
           UNCHANGED <<agent, resources>>
    PROVE  UNCHANGED Journey!journeyVars
BY DEF Journey!journeyVars

(* What the agent has not written out is in no place of record. *)
LEMMA UnpublishedStages ==
    ASSUME SettledInv, SetupTypes, NEW e \in AgentEvents, consumer[e] = "unpublished"
    PROVE  Stage(e) = IF outbox[e] = "out" THEN "gone" ELSE outbox[e]
<1>1. e \notin table \cup dlq /\ e \notin dropped
  BY PipelineAssumption DEF SettledInv, Inv, Custody, Kept
<1> QED
  BY <1>1 DEF Stage

(* Every step of the pipeline moves one event on, or is one of the steps   *)
(* of the agent and the stream that the journey shows, or shows nothing.   *)
LEMMA JourneyStep ==
    SettledInv /\ SetupTypes /\ JourneyInv /\ [PipelineNext]_pipelineVars
        => [Journey!JourneyNext]_(Journey!journeyVars)
<1> SUFFICES ASSUME SettledInv, SetupTypes, JourneyInv, [PipelineNext]_pipelineVars
             PROVE  [Journey!JourneyNext]_(Journey!journeyVars)
  OBVIOUS
<1> DEFINE Shown == [Journey!JourneyNext]_(Journey!journeyVars)
<1> USE DEF SetupTypes
<1>0. AgentEvents \subseteq Events /\ Unsent /\ TypeOK
  BY PipelineAssumption DEF JourneyInv, SettledInv, Inv
<1>1. ASSUME NEW e \in AgentEvents, PublishActivity(e) PROVE Shown
  <2>1. /\ agent = "running" /\ UNCHANGED <<vars, agent, resources>>
        /\ outbox[e] = "new" /\ outbox' = [outbox EXCEPT ![e] = "buffered"]
    BY <1>1 DEF PublishActivity, setupVars
  <2>2. Stage(e) = "new" /\ Stage(e)' = "buffered"
    BY <2>1 DEF Stage, vars
  <2>3. \A f \in AgentEvents \ {e} : Stage(f)' = Stage(f)
    BY <2>1 DEF Stage, vars
  <2>4. Journey!Publish(e)
    BY <2>1, <2>2, <2>3, OneMoves DEF Journey!Publish
  <2> QED
    BY <2>4 DEF Journey!JourneyNext
<1>2. ASSUME NEW e \in AgentEvents, WriteOut(e) PROVE Shown
  <2>1. /\ agent \in {"running", "closing"} /\ UNCHANGED <<agent, resources>>
        /\ outbox[e] = "buffered" /\ outbox' = [outbox EXCEPT ![e] = "out"]
        /\ UNCHANGED <<table, dlq, dropped>>
    BY <1>2 DEF WriteOut, Publish, setupVars, vars
  <2>2. /\ "stream" \in resources => consumer' = [consumer EXCEPT ![e] = "ready"]
        /\ "stream" \notin resources => consumer' = consumer
    BY <1>2 DEF WriteOut, Publish, vars
  <2>3. consumer[e] = "unpublished" /\ Stage(e) = "buffered"
    BY <1>0, <2>1, UnpublishedStages DEF Unsent
  <2>4. e \notin Kept
    BY <1>0, <2>3 DEF SettledInv, Inv, Custody
  <2>5. Stage(e)' = IF "stream" \in resources THEN "queued" ELSE "gone"
    BY <1>0, <2>1, <2>2, <2>3, <2>4 DEF Stage, Kept, TypeOK
  <2>6. \A f \in AgentEvents \ {e} : Stage(f)' = Stage(f)
    BY <1>0, <2>1, <2>2 DEF Stage, TypeOK
  <2>7. Journey!WriteOut(e)
    BY <2>1, <2>3, <2>5, <2>6, OneMoves DEF Journey!WriteOut
  <2> QED
    BY <2>7 DEF Journey!JourneyNext
<1>3. ASSUME NEW p \in Persistors, StartPersistor(p) \/ PersistorStep(p) \/ PersistorStops(p)
      PROVE  Shown
  <2>1. /\ UNCHANGED <<agent, outbox>>
        /\ Step(p) \/ Start(p) \/ FetchFails(p) \/ Cancel(p)
        /\ UNCHANGED ("stream" \in resources)
    BY <1>3 DEF StartPersistor, PersistorStep, PersistorStops, agentVars, setupVars
  <2>2. \A e \in AgentEvents :
           \/ Stage(e)' = Stage(e)
           \/ /\ e = msg[p] /\ Stage(e) = "queued"
              /\ Stage(e)' \in {"recorded", "dropped"}
    BY <2>1, PersistorsSettle
  <2>3. CASE \A e \in AgentEvents : Stage(e)' = Stage(e)
    BY <2>1, <2>3 DEF Journey!journeyVars
  <2>4. CASE ~\A e \in AgentEvents : Stage(e)' = Stage(e)
    <3>1. PICK e \in AgentEvents :
             /\ e = msg[p] /\ Stage(e) = "queued"
             /\ Stage(e)' \in {"recorded", "dropped"}
      BY <2>2, <2>4
    <3>2. \A f \in AgentEvents \ {e} : Stage(f)' = Stage(f)
      BY <2>2, <3>1
    <3>3. Journey!Moves(e, Stage(e), Stage(e)')
      BY <2>1, <3>2, OneMoves
    <3>4. Journey!Settle(e)
      BY <3>1, <3>3 DEF Journey!Settle
    <3> QED
      BY <3>4 DEF Journey!JourneyNext
  <2> QED
    BY <2>3, <2>4
<1>4. ASSUME NEW e \in Events \ AgentEvents, PublishElsewhere(e) PROVE Shown
  <2>1. /\ UNCHANGED <<agent, outbox, resources, table, dlq, dropped>>
        /\ consumer' = [consumer EXCEPT ![e] = "ready"]
    BY <1>4 DEF PublishElsewhere, Publish, agentVars, setupVars
  <2>2. \A f \in AgentEvents : Stage(f)' = Stage(f)
    BY <1>0, <2>1 DEF Stage, TypeOK
  <2> QED
    BY <2>1, <2>2, NoneMoves
<1>5. CASE LoseAgent
  <2>1. /\ agent \in {"running", "closing"} /\ agent' = "lost"
        /\ UNCHANGED <<vars, resources>> /\ DiscardBuffer
    BY <1>5 DEF LoseAgent, setupVars
  <2>2. ASSUME NEW e \in AgentEvents
        PROVE  Stage(e)' = IF Stage(e) = "buffered" THEN "gone" ELSE Stage(e)
    <3>1. CASE outbox[e] = "buffered"
      <4>1. consumer[e] = "unpublished" /\ Stage(e) = "buffered"
        BY <1>0, <3>1 DEF Unsent, Stage
      <4>2. outbox'[e] = "out" /\ e \notin Kept
        BY <1>0, <2>1, <3>1, <4>1 DEF DiscardBuffer, SettledInv, Inv, Custody
      <4> QED
        BY <2>1, <4>1, <4>2 DEF Stage, Kept, vars
    <3>2. CASE outbox[e] # "buffered"
      <4>1. outbox'[e] = outbox[e]
        BY <2>1, <3>2 DEF DiscardBuffer
      <4> QED
        BY <2>1, <3>2, <4>1 DEF Stage, vars
    <3> QED
      BY <3>1, <3>2
  <2>3. Journey!Lose
    BY <2>1, <2>2 DEF Journey!Lose
  <2> QED
    BY <2>3 DEF Journey!JourneyNext
<1>6. CASE FlushAndClose
  <2>1. /\ agent = "closing" /\ agent' = "closed"
        /\ UNCHANGED <<vars, resources, outbox>>
        /\ \A e \in AgentEvents : outbox[e] # "buffered"
    BY <1>6 DEF FlushAndClose, setupVars
  <2>2. \A e \in AgentEvents : Stage(e) # "buffered" /\ Stage(e)' = Stage(e)
    BY <2>1 DEF Stage, vars
  <2>3. Journey!Close
    BY <2>1, <2>2 DEF Journey!Close
  <2> QED
    BY <2>3 DEF Journey!JourneyNext
<1>7. CASE RunSetup \/ Shutdown \/ UNCHANGED pipelineVars
  <2>1. /\ UNCHANGED <<vars, outbox, resources>>
        /\ agent' = agent \/ (agent = "running" /\ agent' = "closing")
    BY <1>7 DEF RunSetup, Shutdown, pipelineVars, setupVars, agentVars
  <2>2. \A e \in AgentEvents : Stage(e)' = Stage(e)
    BY <2>1 DEF Stage, vars
  <2> QED
    BY <2>1, <2>2 DEF Journey!journeyVars
<1>8. ASSUME NEW r \in Resources, Ensure(r) PROVE Shown
  <2>1. UNCHANGED <<vars, outbox, agent>> /\ resources' \in {resources, resources \cup {r}}
    BY <1>8 DEF Ensure, agentVars
  <2>2. \A e \in AgentEvents : Stage(e)' = Stage(e)
    BY <2>1 DEF Stage, vars
  <2>3. CASE "stream" \in resources'
    <3>1. Journey!CreateStream
      BY <2>1, <2>2, <2>3 DEF Journey!CreateStream
    <3> QED
      BY <3>1 DEF Journey!JourneyNext
  <2>4. CASE "stream" \notin resources'
    BY <2>1, <2>2, <2>4 DEF Journey!journeyVars
  <2> QED
    BY <2>3, <2>4
<1> QED
  BY <1>1, <1>2, <1>3, <1>4, <1>5, <1>6, <1>7, <1>8 DEF PipelineNext

(* The pipeline implements the journey: an event the agent published has   *)
(* one end, a record or a dead letter that failed, and it misses the       *)
(* stream only if that does not exist or the agent is lost.  It holds for  *)
(* any events and persistors, whoever runs the set-up and when.            *)
THEOREM ImplementsJourney == PipelineSpec => RefinesJourney
<1>1. PipelineInit => Journey!JourneyInit
  BY DEF PipelineInit, Init, Journey!JourneyInit, Stage
<1>2. PipelineInit => SettledInv /\ SetupTypes /\ JourneyInv
  <2>1. PipelineInit => SettledInv
    BY InitEstablishes DEF PipelineInit
  <2>2. PipelineInit => Unsent /\ DroppedSettled
    BY PipelineAssumption DEF PipelineInit, Init, Unsent, DroppedSettled
  <2> QED
    BY <2>1, <2>2, SetupInit DEF JourneyInv
<1>3. SettledInv /\ SetupTypes /\ JourneyInv /\ [PipelineNext]_pipelineVars
         => (SettledInv /\ SetupTypes /\ JourneyInv)'
  <2> SUFFICES ASSUME SettledInv, SetupTypes, JourneyInv, [PipelineNext]_pipelineVars
               PROVE  SettledInv' /\ SetupTypes' /\ JourneyInv'
    OBVIOUS
  <2>1. [Next]_vars
    BY PipelineStep DEF pipelineVars
  <2>2. SettledInv'
    BY <2>1, TypeStep, CustodyStep, ExclusiveStep, SettledStep DEF SettledInv, Inv, Calm
  <2>3. DroppedSettled'
    BY <2>1, DroppedStep, PipelineIsCalm DEF SettledInv, Inv, JourneyInv
  <2>4. SetupTypes' /\ SetupInv'
    BY SetupStep DEF JourneyInv
  <2>5. Unsent'
    BY UnsentStep DEF JourneyInv
  <2> QED
    BY <2>2, <2>3, <2>4, <2>5 DEF JourneyInv
<1> QED
  BY <1>1, <1>2, <1>3, JourneyStep, PTL DEF PipelineSpec, RefinesJourney, Journey!JourneySpec
================================================================================

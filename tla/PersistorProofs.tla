--------------------------- MODULE PersistorProofs ----------------------------
(***************************************************************************)
(* What TLC finds of Persistor on two or three events, for every set of    *)
(* events and persistors, every fault and every delivery limit.            *)
(***************************************************************************)
EXTENDS Persistor, TLAPS

(* The initial state: empty stores, idle persistors, nothing delivered. *)
LEMMA InitEstablishes == Init => SettledInv
<1> SUFFICES ASSUME Init PROVE SettledInv
  OBVIOUS
<1> USE PersistorAssumption
<1>1. TypeOK
  BY DEF Init, TypeOK
<1>2. Custody
  BY DEF Init, Custody, AckedIsKept, DeadLetterIsLastResort, Kept, Busy
<1>3. Exclusive
  BY DEF Init, Exclusive, Busy, Holds
<1>4. Settled
  BY DEF Init, Settled
<1> QED
  BY <1>1, <1>2, <1>3, <1>4 DEF SettledInv, Inv

(* Every step keeps the variables in their types; Custody is needed only to *)
(* know that an offered message has a delivery left.                        *)
LEMMA TypeStep == TypeOK /\ Custody /\ [Next]_vars => TypeOK'
<1> SUFFICES ASSUME TypeOK, Custody, [Next]_vars PROVE TypeOK'
  OBVIOUS
<1> USE PersistorAssumption DEF TypeOK, Goto, Busy
<1>1. ASSUME NEW e \in Events, Publish(e) PROVE TypeOK'
  BY <1>1 DEF Publish
<1>2. ASSUME NEW e \in Events, AckWaitExpires(e) PROVE TypeOK'
  BY <1>2 DEF AckWaitExpires, Requeued
<1>3. ASSUME NEW p \in Persistors, CheckContext(p) PROVE TypeOK'
  BY <1>3 DEF CheckContext
<1>4. ASSUME NEW p \in Persistors, NEW e \in Events, Fetch(p, e) PROVE TypeOK'
  <2>1. delivered[e] + 1 \in 0..MaxDeliver
    BY <1>4 DEF Fetch, Custody
  <2> QED
    BY <1>4, <2>1 DEF Fetch
<1>5. ASSUME NEW p \in Persistors, FetchTimesOut(p) PROVE TypeOK'
  BY <1>5 DEF FetchTimesOut
<1>6. ASSUME NEW p \in Persistors, Insert(p) PROVE TypeOK'
  BY <1>6 DEF Insert
<1>7. ASSUME NEW p \in Persistors, InsertFails(p) PROVE TypeOK'
  BY <1>7 DEF InsertFails, AfterFailure
<1>8. ASSUME NEW p \in Persistors, DeadLetter(p) PROVE TypeOK'
  BY <1>8 DEF DeadLetter
<1>9. ASSUME NEW p \in Persistors, Ack(p) PROVE TypeOK'
  BY <1>9 DEF Ack
<1>10. ASSUME NEW p \in Persistors, Nak(p) PROVE TypeOK'
  BY <1>10 DEF Nak, Requeued
<1>11. ASSUME NEW p \in Persistors,
              Start(p) \/ FetchFails(p) \/ Cancel(p) \/ Crash(p)
       PROVE  TypeOK'
  BY <1>11 DEF Start, FetchFails, Cancel, Crash
<1>12. CASE UNCHANGED vars
  BY <1>12 DEF vars
<1> QED
  BY <1>1, <1>2, <1>3, <1>4, <1>5, <1>6, <1>7, <1>8, <1>9, <1>10, <1>11, <1>12
  DEF Next, Step

(* Custody survives every step, faults included: a message reaches the Ack *)
(* only through a row or a dead-letter publish.                            *)
LEMMA CustodyStep == TypeOK /\ Custody /\ [Next]_vars => Custody'
<1> SUFFICES ASSUME TypeOK, Custody, [Next]_vars PROVE Custody'
  OBVIOUS
<1> USE PersistorAssumption
    DEF TypeOK, Goto, Busy, Custody, AckedIsKept, DeadLetterIsLastResort, Kept
<1>1. ASSUME NEW e \in Events, Publish(e) PROVE Custody'
  BY <1>1 DEF Publish
<1>2. ASSUME NEW e \in Events, AckWaitExpires(e) PROVE Custody'
  BY <1>2 DEF AckWaitExpires, Requeued
<1>3. ASSUME NEW p \in Persistors, CheckContext(p) PROVE Custody'
  BY <1>3 DEF CheckContext
<1>4. ASSUME NEW p \in Persistors, NEW e \in Events, Fetch(p, e) PROVE Custody'
  BY <1>4 DEF Fetch
<1>5. ASSUME NEW p \in Persistors, FetchTimesOut(p) PROVE Custody'
  BY <1>5 DEF FetchTimesOut
<1>6. ASSUME NEW p \in Persistors, Insert(p) PROVE Custody'
  BY <1>6 DEF Insert
<1>7. ASSUME NEW p \in Persistors, InsertFails(p) PROVE Custody'
  BY <1>7 DEF InsertFails, AfterFailure
<1>8. ASSUME NEW p \in Persistors, DeadLetter(p) PROVE Custody'
  BY <1>8 DEF DeadLetter
<1>9. ASSUME NEW p \in Persistors, Ack(p) PROVE Custody'
  BY <1>9 DEF Ack
<1>10. ASSUME NEW p \in Persistors, Nak(p) PROVE Custody'
  BY <1>10 DEF Nak, Requeued
<1>11. ASSUME NEW p \in Persistors,
              Start(p) \/ FetchFails(p) \/ Cancel(p) \/ Crash(p)
       PROVE  Custody'
  BY <1>11 DEF Start, FetchFails, Cancel, Crash
<1>12. CASE UNCHANGED vars
  BY <1>12 DEF vars
<1> QED
  BY <1>1, <1>2, <1>3, <1>4, <1>5, <1>6, <1>7, <1>8, <1>9, <1>10, <1>11, <1>12
  DEF Next, Step

(* Without the faults that Calm excludes, a pending message stays in one   *)
(* pair of hands and none runs out of deliveries.                          *)
LEMMA ExclusiveStep ==
    TypeOK /\ Custody /\ Calm /\ Exclusive /\ [Next]_vars => Exclusive'
<1> SUFFICES ASSUME TypeOK, Custody, Calm, Exclusive, [Next]_vars
             PROVE  Exclusive'
  OBVIOUS
<1> USE PersistorAssumption DEF TypeOK, Goto, Busy, Holds, Exclusive
<1>0. "crash" \notin Faults /\ "slow" \notin Faults /\ "ack" \notin Faults
  BY DEF Calm
<1>1. ASSUME NEW e \in Events, Publish(e) PROVE Exclusive'
  BY <1>1 DEF Publish, Custody
<1>2. ASSUME NEW e \in Events, AckWaitExpires(e) PROVE Exclusive'
  BY <1>0, <1>2 DEF AckWaitExpires
<1>3. ASSUME NEW p \in Persistors, CheckContext(p) PROVE Exclusive'
  BY <1>3 DEF CheckContext
<1>4. ASSUME NEW p \in Persistors, NEW e \in Events, Fetch(p, e) PROVE Exclusive'
  BY <1>4 DEF Fetch
<1>5. ASSUME NEW p \in Persistors, FetchTimesOut(p) PROVE Exclusive'
  BY <1>5 DEF FetchTimesOut
<1>6. ASSUME NEW p \in Persistors, Insert(p) PROVE Exclusive'
  BY <1>6 DEF Insert
<1>7. ASSUME NEW p \in Persistors, InsertFails(p) PROVE Exclusive'
  BY <1>7 DEF InsertFails, AfterFailure
<1>8. ASSUME NEW p \in Persistors, DeadLetter(p) PROVE Exclusive'
  BY <1>8 DEF DeadLetter
<1>9. ASSUME NEW p \in Persistors, Ack(p) PROVE Exclusive'
  BY <1>0, <1>9 DEF Ack
<1>10. ASSUME NEW p \in Persistors, Nak(p) PROVE Exclusive'
  BY <1>0, <1>10 DEF Nak, Requeued
<1>11. ASSUME NEW p \in Persistors,
              Start(p) \/ FetchFails(p) \/ Cancel(p) \/ Crash(p)
       PROVE  Exclusive'
  BY <1>0, <1>11 DEF Start, FetchFails, Cancel, Crash
<1>12. CASE UNCHANGED vars
  BY <1>12 DEF vars
<1> QED
  BY <1>1, <1>2, <1>3, <1>4, <1>5, <1>6, <1>7, <1>8, <1>9, <1>10, <1>11, <1>12
  DEF Next, Step

(* What is stored or dead-lettered is then on its way to the Ack, so it is *)
(* not tried again, unless its Insert returned an error.                   *)
LEMMA SettledStep ==
    TypeOK /\ Calm /\ Exclusive /\ Settled /\ [Next]_vars => Settled'
<1> SUFFICES ASSUME TypeOK, Calm, Exclusive, Settled, [Next]_vars
             PROVE  Settled'
  OBVIOUS
<1> USE PersistorAssumption DEF TypeOK, Goto, Busy, Holds, Settled
<1>0. "crash" \notin Faults /\ "slow" \notin Faults /\ "ack" \notin Faults
  BY DEF Calm
<1>1. ASSUME NEW e \in Events, Publish(e) PROVE Settled'
  BY <1>1 DEF Publish
<1>2. ASSUME NEW e \in Events, AckWaitExpires(e) PROVE Settled'
  BY <1>0, <1>2 DEF AckWaitExpires
<1>3. ASSUME NEW p \in Persistors, CheckContext(p) PROVE Settled'
  BY <1>3 DEF CheckContext
<1>4. ASSUME NEW p \in Persistors, NEW e \in Events, Fetch(p, e) PROVE Settled'
  BY <1>4 DEF Fetch
<1>5. ASSUME NEW p \in Persistors, FetchTimesOut(p) PROVE Settled'
  BY <1>5 DEF FetchTimesOut
<1>6. ASSUME NEW p \in Persistors, Insert(p) PROVE Settled'
  <2>1. msg[p] \notin dlq \ unsure
    BY <1>6 DEF Insert, Exclusive
  <2> QED
    BY <1>6, <2>1 DEF Insert
<1>7. ASSUME NEW p \in Persistors, InsertFails(p) PROVE Settled'
  BY <1>7 DEF InsertFails, AfterFailure
<1>8. ASSUME NEW p \in Persistors, DeadLetter(p) PROVE Settled'
  <2>1. msg[p] \notin table \ unsure
    BY <1>8 DEF DeadLetter, Exclusive
  <2> QED
    BY <1>8, <2>1 DEF DeadLetter
<1>9. ASSUME NEW p \in Persistors, Ack(p) PROVE Settled'
  <2>1. consumer' = [consumer EXCEPT ![msg[p]] = "acked"]
    BY <1>0, <1>9 DEF Ack, Exclusive
  <2> QED
    BY <1>9, <2>1 DEF Ack
<1>10. ASSUME NEW p \in Persistors, Nak(p) PROVE Settled'
  <2>1. consumer[msg[p]] = "pending"
    BY <1>10 DEF Nak, Exclusive
  <2> QED
    BY <1>0, <1>10, <2>1 DEF Nak, Requeued
<1>11. ASSUME NEW p \in Persistors,
              Start(p) \/ FetchFails(p) \/ Cancel(p) \/ Crash(p)
       PROVE  Settled'
  BY <1>0, <1>11 DEF Start, FetchFails, Cancel, Crash
<1>12. CASE UNCHANGED vars
  BY <1>12 DEF vars
<1> QED
  BY <1>1, <1>2, <1>3, <1>4, <1>5, <1>6, <1>7, <1>8, <1>9, <1>10, <1>11, <1>12
  DEF Next, Step

(* The four parts together are inductive. *)
THEOREM Invariance == Spec => []SettledInv
<1>1. Init => SettledInv
  BY InitEstablishes
<1>2. SettledInv /\ [Next]_vars => SettledInv'
  BY TypeStep, CustodyStep, ExclusiveStep, SettledStep DEF SettledInv, Inv, Calm
<1> QED
  BY <1>1, <1>2, PTL DEF Spec

--------------------------------------------------------------------------------
(* Every variable keeps its type; in particular JetStream never delivers a *)
(* message more than MaxDeliver times.                                     *)
THEOREM TypeCorrect == Spec => []TypeOK
<1>1. SettledInv => TypeOK
  BY DEF SettledInv, Inv
<1> QED
  BY <1>1, Invariance, PTL

(* Whatever faults occur, no event is acknowledged without a row, a dead   *)
(* letter or a failed dead-letter publish.                                 *)
THEOREM AcknowledgedIsKept == Spec => []AckedIsKept
<1>1. SettledInv => AckedIsKept
  BY DEF SettledInv, Inv, Custody
<1> QED
  BY <1>1, Invariance, PTL

(* No decodable event is dead-lettered before its DeadLetterAt-th delivery. *)
THEOREM DeadLetterComesLast == Spec => []DeadLetterIsLastResort
<1>1. SettledInv => DeadLetterIsLastResort
  BY DEF SettledInv, Inv, Custody
<1> QED
  BY <1>1, Invariance, PTL

(* A threshold of the loop that is at most the MaxDeliver of the consumer  *)
(* is low enough: without lost deliveries no event runs out of them.       *)
THEOREM DeliveriesSuffice == Spec => []NoneExhausted
<1>1. SettledInv => NoneExhausted
  BY DEF SettledInv, Inv, Exclusive, Calm, NoneExhausted
<1> QED
  BY <1>1, Invariance, PTL

(* Without lost deliveries, whoever has fetched an event sees it through.  *)
THEOREM FetchedIsHeld == Spec => []NoneStranded
<1>1. SettledInv => NoneStranded
  BY DEF SettledInv, Inv, Exclusive, Calm, NoneStranded
<1> QED
  BY <1>1, Invariance, PTL

(* While no delivery is lost or outlived, an event is stored or            *)
(* dead-lettered, not both, unless its Insert wrote the row and returned   *)
(* an error.                                                               *)
THEOREM OnePlaceOfRecord == Spec => []StoredOrDeadLettered
<1>1. SettledInv => StoredOrDeadLettered
  BY DEF SettledInv, Settled, Calm, StoredOrDeadLettered
<1> QED
  BY <1>1, Invariance, PTL

--------------------------------------------------------------------------------
(* No two rows or messages share an event_id, so an Insert of a good event *)
(* that is not stored yet succeeds.                                        *)
LEMMA GoodEventsInsert ==
    ASSUME TypeOK, Exclusive, Settled, OwnIDs,
           unsure = {}, NEW p \in Persistors, pc[p] = "insert", msg[p] \notin Rejected
    PROVE  Insertable(msg[p])
<1>1. msg[p] \notin table
  BY DEF TypeOK, Exclusive, Settled, Busy
<1> QED
  BY <1>1 DEF TypeOK, Insertable, OwnIDs

(* With no fault, only what cannot be stored is refused. *)
LEMMA RefusedStep ==
    SettledInv /\ OwnIDs /\ Faults = {} /\ RefusedForGood /\ [Next]_vars
        => RefusedForGood'
<1> SUFFICES ASSUME SettledInv, OwnIDs, Faults = {}, RefusedForGood, [Next]_vars
             PROVE  RefusedForGood'
  OBVIOUS
<1>0. TypeOK /\ Exclusive /\ Settled
  BY DEF SettledInv, Inv, Calm
<1> USE DEF TypeOK, Goto, RefusedForGood
<1>1. ASSUME NEW e \in Events, Publish(e) \/ AckWaitExpires(e) PROVE RefusedForGood'
  BY <1>1 DEF Publish, AckWaitExpires
<1>2. ASSUME NEW p \in Persistors, NEW e \in Events, Fetch(p, e) PROVE RefusedForGood'
  BY <1>0, <1>2 DEF Fetch
<1>3. ASSUME NEW p \in Persistors, Insert(p) PROVE RefusedForGood'
  BY <1>0, <1>3 DEF Insert
<1>4. ASSUME NEW p \in Persistors, InsertFails(p) PROVE RefusedForGood'
  <2>1. msg[p] \in Rejected
    BY <1>0, <1>4, GoodEventsInsert DEF InsertFails
  <2> QED
    BY <1>0, <1>4, <2>1 DEF InsertFails
<1>5. ASSUME NEW p \in Persistors, DeadLetter(p) PROVE RefusedForGood'
  BY <1>0, <1>5 DEF DeadLetter
<1>6. ASSUME NEW p \in Persistors, Ack(p) \/ Nak(p) PROVE RefusedForGood'
  BY <1>0, <1>6 DEF Ack, Nak
<1>7. ASSUME NEW p \in Persistors,
             CheckContext(p) \/ FetchTimesOut(p) \/ Start(p)
      PROVE  RefusedForGood'
  BY <1>0, <1>7 DEF CheckContext, FetchTimesOut, Start
<1>8. ASSUME NEW p \in Persistors, FetchFails(p) \/ Cancel(p) \/ Crash(p)
      PROVE  RefusedForGood'
  BY <1>8 DEF FetchFails, Cancel, Crash
<1>9. CASE UNCHANGED vars
  BY <1>9 DEF vars
<1> QED
  BY <1>1, <1>2, <1>3, <1>4, <1>5, <1>6, <1>7, <1>8, <1>9 DEF Next, Step

(* The one thing that loses events without any fault is the event_id that  *)
(* several of them share: with an event_id of its own, every event that    *)
(* can be stored is stored before it is acknowledged, whatever the number  *)
(* of persistors and however their steps interleave.                       *)
THEOREM OwnIDsAreStored == Spec => [](OwnIDs => EventsAreStored)
<1>1. Init => StorageInv
  BY InitEstablishes DEF StorageInv, RefusedForGood, Init
<1>2. StorageInv /\ [Next]_vars => StorageInv'
  <2>1. SettledInv /\ [Next]_vars => SettledInv'
    BY TypeStep, CustodyStep, ExclusiveStep, SettledStep DEF SettledInv, Inv, Calm
  <2> QED
    BY <2>1, RefusedStep DEF StorageInv, OwnIDs
<1>3. StorageInv => (OwnIDs => EventsAreStored)
  <2> SUFFICES ASSUME StorageInv, OwnIDs, Faults = {},
                      NEW e \in Events \ (Malformed \cup Rejected), consumer[e] = "acked"
               PROVE  e \in table
    BY DEF EventsAreStored
  <2>1. e \in table \cup dlq \cup dropped
    BY DEF StorageInv, SettledInv, Inv, Custody, AckedIsKept, Kept
  <2> QED
    BY <2>1 DEF StorageInv, RefusedForGood
<1> QED
  BY <1>1, <1>2, <1>3, PTL DEF Spec

--------------------------------------------------------------------------------
(* Each step of the loop is a step of the intake or changes nothing that   *)
(* the intake shows: Insert and DeadLetter keep an event, Ack releases one. *)
LEMMA StepRefines ==
    SettledInv /\ [Next]_vars => [Intake!IntakeNext]_(Intake!intakeVars)
<1> SUFFICES ASSUME SettledInv, [Next]_vars
             PROVE  [Intake!IntakeNext]_(Intake!intakeVars)
  OBVIOUS
<1> DEFINE Shown == [Intake!IntakeNext]_(Intake!intakeVars)
<1> USE PersistorAssumption DEF SettledInv, Inv, TypeOK, Goto, Busy, Kept
<1>i. ASSUME UNCHANGED <<consumer, table, dlq, dropped>> PROVE Shown
  BY <1>i DEF Intake!intakeVars
<1>1. ASSUME NEW e \in Events, Publish(e) PROVE Shown
  <2>1. Intake!Accept(e)
    BY <1>1 DEF Publish, Intake!Accept
  <2> QED
    BY <2>1 DEF Intake!IntakeNext
<1>2. ASSUME NEW e \in Events, AckWaitExpires(e) PROVE Shown
  BY <1>2 DEF AckWaitExpires, Requeued, Intake!intakeVars
<1>3. ASSUME NEW p \in Persistors, NEW e \in Events, Fetch(p, e) PROVE Shown
  BY <1>3 DEF Fetch, Intake!intakeVars
<1>4. ASSUME NEW p \in Persistors, Insert(p) \/ InsertFails(p) \/ DeadLetter(p)
      PROVE  Shown
  <2>1. consumer[msg[p]] # "unpublished"
    BY <1>4 DEF Insert, InsertFails, DeadLetter, Custody
  <2>2. Kept' = Kept \/ Kept' = Kept \cup {msg[p]}
    BY <1>4 DEF Insert, InsertFails, DeadLetter
  <2>3. UNCHANGED consumer
    BY <1>4 DEF Insert, InsertFails, DeadLetter
  <2>4. CASE Kept' = Kept
    BY <2>3, <2>4 DEF Intake!intakeVars
  <2>5. CASE Kept' = Kept \cup {msg[p]}
    <3>1. Intake!Keep(msg[p])
      BY <2>1, <2>3, <2>5 DEF Intake!Keep
    <3> QED
      BY <3>1 DEF Intake!IntakeNext
  <2> QED
    BY <2>2, <2>4, <2>5
<1>5. ASSUME NEW p \in Persistors, Ack(p) PROVE Shown
  <2>1. CASE consumer' = consumer
    BY <1>5, <2>1 DEF Ack, Intake!intakeVars
  <2>2. CASE ~(consumer' = consumer)
    <3>1. PICK e \in Events : e = msg[p]
      OBVIOUS
    <3>2. consumer[e] # "acked" /\ consumer' = [consumer EXCEPT ![e] = "acked"]
      BY <1>5, <2>2, <3>1 DEF Ack
    <3>3. e \in Kept
      BY <1>5, <3>1 DEF Ack, Custody
    <3>4. Intake!Release(e)
      BY <1>5, <3>2, <3>3 DEF Ack, Intake!Release
    <3> QED
      BY <3>4 DEF Intake!IntakeNext
  <2> QED
    BY <2>1, <2>2
<1>6. ASSUME NEW p \in Persistors, Nak(p) PROVE Shown
  BY <1>6 DEF Nak, Requeued, Intake!intakeVars
<1>7. ASSUME NEW p \in Persistors,
             CheckContext(p) \/ FetchTimesOut(p) \/ Start(p) \/ FetchFails(p)
                \/ Cancel(p) \/ Crash(p)
      PROVE  Shown
  BY <1>7, <1>i DEF CheckContext, FetchTimesOut, Start, FetchFails, Cancel, Crash
<1>8. CASE UNCHANGED vars
  BY <1>8, <1>i DEF vars
<1> QED
  BY <1>1, <1>2, <1>3, <1>4, <1>5, <1>6, <1>7, <1>8 DEF Next, Step

(* The persistors implement the intake: an event is recorded before it is  *)
(* released, and neither is ever undone.                                   *)
THEOREM ImplementsIntake == Spec => RefinesIntake
<1>1. Init => Intake!IntakeInit
  BY DEF Init, Kept, Intake!IntakeInit
<1>2. SettledInv /\ [Next]_vars => [Intake!IntakeNext]_(Intake!intakeVars)
  BY StepRefines
<1> QED
  BY <1>1, <1>2, Invariance, PTL DEF Spec, RefinesIntake, Intake!IntakeSpec
================================================================================

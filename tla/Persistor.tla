------------------------------- MODULE Persistor -------------------------------
(***************************************************************************)
(* The Activity service's persistors                                       *)
(* (internal/messaging/nats/persistor.go) working off the durable pull     *)
(* consumer that ConfigureJetStream creates (jetstream.go), with the       *)
(* activity_events table behind ActivityRepository.Insert.                 *)
(*                                                                         *)
(* Several persistors may be bound to the one durable consumer.  Each call *)
(* the loop of Start makes on another process (Fetch, Insert, Publish,     *)
(* Ack, Nak) is one step, so crashes, expiring acknowledgement waits and   *)
(* the other persistors' steps come between any two of them.               *)
(***************************************************************************)
EXTENDS Naturals

CONSTANTS Events,       \* messages an agent can publish on activity.events.v1
          Persistors,   \* running instances of Persistor
          EventID,      \* EventID[e] is the event_id of message e
          Malformed,    \* messages whose bytes json.Unmarshal refuses
          Rejected,     \* envelopes with a missing field or invalid payload
          MaxDeliver,   \* ConsumerConfig.MaxDeliver, 5 in the code
          DeadLetterAt, \* the NumDelivered threshold of the loop, 5 in the code
          Faults        \* what may go wrong, see FaultKinds

(* crash:  a process dies between two calls                                *)
(* slow:   a delivery outlives AckWait while a persistor still works on it *)
(* ack:    an Ack or Nak does not reach the server; its error is ignored   *)
(* dlq:    publishing to the dead-letter subject fails; likewise ignored   *)
(* db:     Insert fails and nothing is written                             *)
(* reply:  the row is committed but Insert returns an error                *)
(* fetch:  Fetch fails with something other than ErrTimeout                *)
(* cancel: the context passed to Start is cancelled; an Insert under way   *)
(*         then fails, with or without a row                               *)
FaultKinds == {"crash", "slow", "ack", "dlq", "db", "reply", "fetch", "cancel"}

ASSUME PersistorAssumption ==
    /\ DOMAIN EventID = Events
    /\ Malformed \subseteq Events
    /\ Rejected \subseteq Events
    /\ MaxDeliver \in Nat
    /\ DeadLetterAt \in Nat \ {0}
    /\ DeadLetterAt <= MaxDeliver
    /\ Faults \subseteq FaultKinds

VARIABLES consumer,   \* JetStream's view of each message
          delivered,  \* how often each message has been delivered
          table,      \* messages stored as rows of activity_events
          dlq,        \* messages in the dead-letter stream
          dropped,    \* history: messages whose dead-letter publish failed
          unsure,     \* history: rows whose Insert returned an error
          pc,         \* where each persistor is in the loop of Start
          msg,        \* the message m a persistor holds (its last, when none)
          num,        \* NumDelivered in its metadata, 0 once Ack or Nak is sent
          cancelled   \* persistors whose context is cancelled

vars == <<consumer, delivered, table, dlq, dropped, unsure, pc, msg, num, cancelled>>

Busy == {"insert", "deadletter", "ack", "nak"}

TypeOK ==
    /\ consumer \in [Events -> {"unpublished", "ready", "pending", "acked", "exhausted"}]
    /\ delivered \in [Events -> 0..MaxDeliver]
    /\ table \subseteq Events
    /\ dlq \subseteq Events
    /\ dropped \subseteq Events
    /\ unsure \subseteq Events
    /\ pc \in [Persistors -> {"stopped", "check", "fetch"} \cup Busy]
    /\ msg \in [Persistors -> Events]
    /\ num \in [Persistors -> 0..MaxDeliver]
    /\ cancelled \subseteq Persistors

Init ==
    /\ consumer = [e \in Events |-> "unpublished"]
    /\ delivered = [e \in Events |-> 0]
    /\ table = {}
    /\ dlq = {}
    /\ dropped = {}
    /\ unsure = {}
    /\ pc = [p \in Persistors |-> "stopped"]
    /\ msg \in [Persistors -> Events]
    /\ num = [p \in Persistors |-> 0]
    /\ cancelled = {}

Holds(p, e) == pc[p] \in Busy /\ msg[p] = e

Goto(p, label) == pc' = [pc EXCEPT ![p] = label]

--------------------------------------------------------------------------------
(* JetStream *)

Publish(e) ==
    /\ consumer[e] = "unpublished"
    /\ consumer' = [consumer EXCEPT ![e] = "ready"]
    /\ UNCHANGED <<delivered, table, dlq, dropped, unsure, pc, msg, num, cancelled>>

(* Mutant: MaxDeliver left out of the ConsumerConfig. *)
RequeuedWithoutMaxDeliver(e) == "ready"

(* A message that is not acknowledged goes back in the queue, unless it has *)
(* used up its deliveries: then the consumer never offers it again.         *)
Requeued(e) == IF delivered[e] < MaxDeliver THEN "ready" ELSE "exhausted"

AckWaitExpires(e) ==
    /\ consumer[e] = "pending"
    /\ "slow" \in Faults \/ \A p \in Persistors : ~Holds(p, e)
    /\ consumer' = [consumer EXCEPT ![e] = Requeued(e)]
    /\ UNCHANGED <<delivered, table, dlq, dropped, unsure, pc, msg, num, cancelled>>

--------------------------------------------------------------------------------
(* The loop of Start *)

(* NewPersistor binds to the durable consumer and Start enters the loop with *)
(* a fresh context; also after a crash or an earlier return.                 *)
Start(p) ==
    /\ pc[p] = "stopped"
    /\ Goto(p, "check")
    /\ cancelled' = cancelled \ {p}
    /\ UNCHANGED <<consumer, delivered, table, dlq, dropped, unsure, msg, num>>

CheckContext(p) ==
    /\ pc[p] = "check"
    /\ Goto(p, IF p \in cancelled THEN "stopped" ELSE "fetch")
    /\ UNCHANGED <<consumer, delivered, table, dlq, dropped, unsure, msg, num, cancelled>>

(* Fetch(1) hands over one message; json.Unmarshal decides the next call.  *)
Fetch(p, e) ==
    /\ pc[p] = "fetch"
    /\ consumer[e] = "ready"
    /\ consumer' = [consumer EXCEPT ![e] = "pending"]
    /\ delivered' = [delivered EXCEPT ![e] = @ + 1]
    /\ msg' = [msg EXCEPT ![p] = e]
    /\ num' = [num EXCEPT ![p] = delivered[e] + 1]
    /\ Goto(p, IF e \in Malformed THEN "deadletter" ELSE "insert")
    /\ UNCHANGED <<table, dlq, dropped, unsure, cancelled>>

FetchTimesOut(p) ==
    /\ pc[p] = "fetch"
    /\ \A e \in Events : consumer[e] # "ready"
    /\ Goto(p, "check")
    /\ UNCHANGED <<consumer, delivered, table, dlq, dropped, unsure, msg, num, cancelled>>

FetchFails(p) ==
    /\ "fetch" \in Faults
    /\ pc[p] = "fetch"
    /\ Goto(p, "stopped")
    /\ UNCHANGED <<consumer, delivered, table, dlq, dropped, unsure, msg, num, cancelled>>

(* ActivityRepository.Insert accepts an event when its fields are complete *)
(* and no row has its event_id.                                            *)
Insertable(e) ==
    /\ e \notin Rejected
    /\ \A row \in table : EventID[row] # EventID[e]

(* Mutant: the INSERT ends in ON CONFLICT DO NOTHING. *)
InsertOnConflictDoNothing(p) ==
    /\ pc[p] = "insert"
    /\ msg[p] \notin Rejected
    /\ table' = IF Insertable(msg[p]) THEN table \cup {msg[p]} ELSE table
    /\ Goto(p, "ack")
    /\ UNCHANGED <<consumer, delivered, dlq, dropped, unsure, msg, num, cancelled>>

(* Mutant: a stored event falls through to the failure branch. *)
InsertThenNak(p) ==
    /\ pc[p] = "insert"
    /\ Insertable(msg[p])
    /\ table' = table \cup {msg[p]}
    /\ Goto(p, "nak")
    /\ UNCHANGED <<consumer, delivered, dlq, dropped, unsure, msg, num, cancelled>>

Insert(p) ==
    /\ pc[p] = "insert"
    /\ Insertable(msg[p])
    /\ table' = table \cup {msg[p]}
    /\ Goto(p, "ack")
    /\ UNCHANGED <<consumer, delivered, dlq, dropped, unsure, msg, num, cancelled>>

(* Mutants: the last delivery is acknowledged without a dead letter; the   *)
(* threshold is one too low; it is one too high.                           *)
AfterFailureWithoutDeadLetter(n) == IF n >= DeadLetterAt THEN "ack" ELSE "nak"
AfterFailureEarly(n) == IF n + 1 >= DeadLetterAt THEN "deadletter" ELSE "nak"
AfterFailureLate(n) == IF n > DeadLetterAt THEN "deadletter" ELSE "nak"

(* After a failed Insert: the dead-letter branch from the DeadLetterAt-th  *)
(* delivery on, a Nak before it.                                           *)
AfterFailure(n) == IF n >= DeadLetterAt THEN "deadletter" ELSE "nak"

(* Insert runs its Exec under the context of Start.  When that is cancelled *)
(* the call returns an error, whether the row was written or not; the same *)
(* goes for a reply that is lost.                                          *)
InsertFails(p) ==
    /\ pc[p] = "insert"
    /\ \/ /\ ~Insertable(msg[p]) \/ "db" \in Faults \/ p \in cancelled
          /\ UNCHANGED <<table, unsure>>
       \/ /\ Insertable(msg[p])
          /\ "reply" \in Faults \/ p \in cancelled
          /\ table' = table \cup {msg[p]}
          /\ unsure' = unsure \cup {msg[p]}
    /\ Goto(p, AfterFailure(num[p]))
    /\ UNCHANGED <<consumer, delivered, dlq, dropped, msg, num, cancelled>>

(* Mutant: the dead-letter branch forgets the Ack. *)
DeadLetterWithoutAck(p) ==
    /\ pc[p] = "deadletter"
    /\ dlq' = dlq \cup {msg[p]}
    /\ Goto(p, "check")
    /\ UNCHANGED <<consumer, delivered, table, dropped, unsure, msg, num, cancelled>>

(* The result of publishing to the dead-letter subject is discarded, so the *)
(* loop acknowledges the message in either case.                            *)
DeadLetter(p) ==
    /\ pc[p] = "deadletter"
    /\ \/ /\ dlq' = dlq \cup {msg[p]}
          /\ UNCHANGED dropped
       \/ /\ "dlq" \in Faults
          /\ dropped' = dropped \cup {msg[p]}
          /\ UNCHANGED dlq
    /\ Goto(p, "ack")
    /\ UNCHANGED <<consumer, delivered, table, unsure, msg, num, cancelled>>

(* JetStream takes the acknowledgement of any delivery of a message it has  *)
(* not given up, an earlier one included.                                   *)
Ack(p) ==
    /\ pc[p] = "ack"
    /\ \/ consumer' = IF consumer[msg[p]] \in {"ready", "pending"}
                        THEN [consumer EXCEPT ![msg[p]] = "acked"]
                        ELSE consumer
       \/ "ack" \in Faults /\ UNCHANGED consumer
    /\ Goto(p, "check")
    /\ num' = [num EXCEPT ![p] = 0]
    /\ UNCHANGED <<delivered, table, dlq, dropped, unsure, msg, cancelled>>

Nak(p) ==
    /\ pc[p] = "nak"
    /\ \/ consumer' = IF consumer[msg[p]] = "pending"
                        THEN [consumer EXCEPT ![msg[p]] = Requeued(msg[p])]
                        ELSE consumer
       \/ "ack" \in Faults /\ UNCHANGED consumer
    /\ Goto(p, "check")
    /\ num' = [num EXCEPT ![p] = 0]
    /\ UNCHANGED <<delivered, table, dlq, dropped, unsure, msg, cancelled>>

--------------------------------------------------------------------------------
(* The environment of a persistor *)

Cancel(p) ==
    /\ "cancel" \in Faults
    /\ pc[p] # "stopped"
    /\ p \notin cancelled
    /\ cancelled' = cancelled \cup {p}
    /\ UNCHANGED <<consumer, delivered, table, dlq, dropped, unsure, pc, msg, num>>

Crash(p) ==
    /\ "crash" \in Faults
    /\ pc[p] # "stopped"
    /\ Goto(p, "stopped")
    /\ UNCHANGED <<consumer, delivered, table, dlq, dropped, unsure, msg, num, cancelled>>

--------------------------------------------------------------------------------
Step(p) ==
    \/ CheckContext(p)
    \/ \E e \in Events : Fetch(p, e)
    \/ FetchTimesOut(p)
    \/ Insert(p)
    \/ InsertFails(p)
    \/ DeadLetter(p)
    \/ Ack(p)
    \/ Nak(p)

Next ==
    \/ \E e \in Events : Publish(e) \/ AckWaitExpires(e)
    \/ \E p \in Persistors :
          Step(p) \/ Start(p) \/ FetchFails(p) \/ Cancel(p) \/ Crash(p)

Spec == Init /\ [][Next]_vars

--------------------------------------------------------------------------------
(* Properties *)

Kept == table \cup dlq \cup dropped

(* No event is acknowledged, and so forgotten by JetStream, without a copy *)
(* in the activity table or the dead-letter stream, except one whose       *)
(* dead-letter publish failed: whatever crashes, races and lost calls come *)
(* between the Insert or Publish and the Ack.                              *)
AckedIsKept == \A e \in Events : consumer[e] = "acked" => e \in Kept

(* As long as deliveries are neither lost to a crash, nor outlived, nor    *)
(* have their Ack or Nak lost, no event runs out of deliveries: the        *)
(* dead-letter branch takes each one before JetStream gives it up.         *)
NoneExhausted ==
    Faults \cap {"crash", "slow", "ack"} = {}
        => \A e \in Events : consumer[e] # "exhausted"

(* Nor is an event left to its AckWait then: a pending one is in the hands  *)
(* of a running persistor, which acknowledges it or gives it back before   *)
(* it looks at its context or fetches again.                               *)
NoneStranded ==
    Faults \cap {"crash", "slow", "ack"} = {}
        => \A e \in Events : consumer[e] = "pending" => \E p \in Persistors : Holds(p, e)

(* A message that decodes is given DeadLetterAt deliveries before it is    *)
(* moved to the dead-letter stream.                                        *)
DeadLetterIsLastResort ==
    \A e \in (dlq \cup dropped) \ Malformed : delivered[e] >= DeadLetterAt

(* The dead-letter stream is for events that could not be stored.  Two     *)
(* things put a stored event there.  A delivery that is lost or outlived   *)
(* comes again, and fails its Insert on the primary key.  So does one whose *)
(* first Insert wrote the row and yet returned an error, because its reply *)
(* was lost or a shutdown cut the call off: with no other fault, those are *)
(* the only events that can be both a row and a dead letter.               *)
StoredOrDeadLettered ==
    Faults \cap {"crash", "slow", "ack"} = {} => table \cap dlq \subseteq unsure

(* "Every mic event and keyboard/mouse event is timestamped and streamed   *)
(* to the ActivityLogger" (README.md:32): with nothing failing, an event   *)
(* that can be stored is stored.                                           *)
EventsAreStored ==
    Faults = {} =>
        \A e \in Events \ (Malformed \cup Rejected) :
            consumer[e] = "acked" => e \in table

(* The persistors implement the intake the service promises.  A failed     *)
(* dead-letter publish counts as kept here.                                *)
Intake == INSTANCE EventIntake WITH
    accepted <- {e \in Events : consumer[e] # "unpublished"},
    kept <- Kept,
    released <- {e \in Events : consumer[e] = "acked"}

RefinesIntake == Intake!IntakeSpec

--------------------------------------------------------------------------------
(* Inductive invariants *)

(* Under every fault: what a persistor is about to acknowledge is kept, a  *)
(* message on its way to the dead-letter stream has had its deliveries,    *)
(* and one that is offered has a delivery left.                            *)
Custody ==
    /\ AckedIsKept
    /\ DeadLetterIsLastResort
    /\ \A p \in Persistors :
          /\ pc[p] = "ack" => msg[p] \in Kept
          /\ pc[p] = "deadletter" =>
                msg[p] \in Malformed \/ num[p] >= DeadLetterAt
          /\ pc[p] \in Busy =>
                consumer[msg[p]] # "unpublished" /\ num[p] <= delivered[msg[p]]
    /\ \A e \in Events :
          /\ consumer[e] \in {"unpublished", "ready"} => delivered[e] < MaxDeliver
          /\ consumer[e] = "unpublished" => e \notin Kept

(* Without crashes, outlived deliveries and lost Acks and Naks: a pending  *)
(* message is in the hands of exactly one persistor, which has its latest  *)
(* delivery, and only a persistor short of the threshold sends a Nak.      *)
Calm == Faults \cap {"crash", "slow", "ack"} = {}

Exclusive ==
    /\ \A e \in Events :
          /\ consumer[e] # "exhausted"
          /\ consumer[e] = "pending" => \E p \in Persistors : Holds(p, e)
    /\ \A p \in Persistors :
          /\ pc[p] \in Busy =>
                consumer[msg[p]] = "pending" /\ num[p] = delivered[msg[p]]
          /\ pc[p] = "nak" => num[p] < DeadLetterAt
    /\ \A p, q \in Persistors :
          pc[p] \in Busy /\ pc[q] \in Busy /\ msg[p] = msg[q] => p = q

(* A message that is a row or a dead letter is then acknowledged or about  *)
(* to be, except a row whose Insert returned an error: that one is tried   *)
(* again.                                                                  *)
Settled ==
    /\ \A e \in (table \cup dlq) \ unsure :
          \/ consumer[e] = "acked"
          \/ \E p \in Persistors : pc[p] = "ack" /\ msg[p] = e
    /\ table \cap dlq \subseteq unsure

Inv == TypeOK /\ Custody /\ (Calm => Exclusive)

(* With an event_id of its own for each message and with no fault at all,  *)
(* an Insert fails only for good: what is refused and what is dead-lettered *)
(* could not be stored.                                                    *)
OwnIDs == \A e, f \in Events : EventID[e] = EventID[f] => e = f

RefusedForGood ==
    /\ dropped = {}
    /\ unsure = {}
    /\ cancelled = {}
    /\ dlq \subseteq Malformed \cup Rejected
    /\ \A p \in Persistors :
          pc[p] \in {"deadletter", "nak"} => msg[p] \in Malformed \cup Rejected

SettledInv == Inv /\ (Calm => Settled)

StorageInv == SettledInv /\ (OwnIDs /\ Faults = {} => RefusedForGood)
================================================================================

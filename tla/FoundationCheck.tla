---------------------------- MODULE FoundationCheck ----------------------------
(***************************************************************************)
(* The command foundation-check (cmd/foundation-check/main.go): a          *)
(* subscriber of the activity subject that passes when it has seen a valid *)
(* event of every required type (verification/foundation.go).              *)
(*                                                                         *)
(* The subscription is one of core NATS.  The server gets to know of it    *)
(* some time after SubscribeSync has returned; what is published earlier,  *)
(* while the connection is down or when the client's queue is full does    *)
(* not reach the check.  Any agents publish anything at any time.          *)
(***************************************************************************)
EXTENDS Naturals, Sequences

CONSTANT PendingLimit  \* messages the subscription's queue holds

ASSUME FoundationCheckAssumption == PendingLimit \in Nat \ {0}

RequiredEventTypes == {"microphone", "keyboard", "mouse"}

(* What ValidateActivityEvent can find wrong with the data of a message,   *)
(* apart from its type.                                                    *)
Flaws == {"none", "encoding", "envelope", "payload"}

Messages == [type : RequiredEventTypes \cup {"other"}, flaw : Flaws]

VARIABLES pc,          \* where main is
          connection,  \* the NATS connection
          interest,    \* the server knows of the subscription
          queue,       \* the subscription's pending messages
          slow,        \* the last one to arrive was dropped, and not reported yet
          ctxDone,     \* the timeout has passed or a signal has come
          seen,        \* the map of main
          arrived      \* history: types of the valid events put in the queue

vars == <<pc, connection, interest, queue, slow, ctxDone, seen, arrived>>

(* polling: about to call NextMsg; waiting: in its 250 ms. *)
Ended == pc \in {"passed", "failed"}

TypeOK ==
    /\ pc \in {"connect", "subscribe", "polling", "waiting", "passed", "failed"}
    /\ connection \in {"none", "up", "down", "closed"}
    /\ interest \in BOOLEAN
    /\ queue \in Seq(Messages)
    /\ Len(queue) <= PendingLimit
    /\ slow \in BOOLEAN
    /\ ctxDone \in BOOLEAN
    /\ seen \subseteq RequiredEventTypes
    /\ arrived \subseteq RequiredEventTypes

Init ==
    /\ pc = "connect"
    /\ connection = "none"
    /\ interest = FALSE
    /\ queue = <<>>
    /\ slow = FALSE
    /\ ctxDone = FALSE
    /\ seen = {}
    /\ arrived = {}

--------------------------------------------------------------------------------
(* main *)

Connect ==
    /\ pc = "connect"
    /\ \/ connection' = "up" /\ pc' = "subscribe"
       \/ pc' = "failed" /\ UNCHANGED connection
    /\ UNCHANGED <<interest, queue, slow, ctxDone, seen, arrived>>

(* SubscribeSync fails on a closed connection alone. *)
Subscribe ==
    /\ pc = "subscribe"
    /\ pc' = IF connection = "closed" THEN "failed" ELSE "polling"
    /\ UNCHANGED <<connection, interest, queue, slow, ctxDone, seen, arrived>>

(* Mutant: the envelope's fields are not looked at. *)
ValidateTypeOnly(m) ==
    /\ m.flaw \notin {"encoding", "payload"}
    /\ m.type \in RequiredEventTypes

(* Mutant: events of every type count. *)
ValidateAnyType(m) == m.flaw = "none"

(* The data decodes, the envelope is complete, the type is a required one, *)
(* the payload is JSON.                                                    *)
ValidateActivityEvent(m) ==
    /\ m.flaw # "encoding"
    /\ m.flaw # "envelope"
    /\ m.type \in RequiredEventTypes
    /\ m.flaw # "payload"

(* Mutant: once its context is done the check takes no more messages into  *)
(* account, but goes on.                                                   *)
SeenAfterUnlessDone(m) ==
    IF ValidateActivityEvent(m) /\ ~ctxDone THEN seen \cup {m.type} ELSE seen

SeenAfter(m) == IF ValidateActivityEvent(m) THEN seen \cup {m.type} ELSE seen

(* NextMsg returns the oldest pending message, whether or not the context  *)
(* is done, and the loop takes it into account.                            *)
Take ==
    /\ pc \in {"polling", "waiting"}
    /\ connection # "closed"
    /\ pc = "polling" => ~slow
    /\ queue # <<>>
    /\ seen' = SeenAfter(Head(queue))
    /\ queue' = Tail(queue)
    /\ pc' = IF seen' = RequiredEventTypes THEN "passed" ELSE "polling"
    /\ UNCHANGED <<connection, interest, slow, ctxDone, arrived>>

BeginWait ==
    /\ pc = "polling"
    /\ connection # "closed"
    /\ ~slow
    /\ queue = <<>>
    /\ pc' = "waiting"
    /\ UNCHANGED <<connection, interest, queue, slow, ctxDone, seen, arrived>>

(* Mutant: every error of NextMsg starts another wait. *)
AfterErrorRetry == "polling"

(* After an error nextMessage looks at the context; when that is done, main *)
(* fails, otherwise NextMsg is called again.                                *)
AfterError == IF ctxDone THEN "failed" ELSE "polling"

(* The 250 ms of the wait are over; a message that has come in at that very *)
(* moment stays in the queue.                                               *)
NextMsgTimesOut ==
    /\ pc = "waiting"
    /\ pc' = AfterError
    /\ UNCHANGED <<connection, interest, queue, slow, ctxDone, seen, arrived>>

(* NextMsg returns at once: ErrConnectionClosed always, ErrSlowConsumer one *)
(* time while the subscription is marked as slow.                           *)
NextMsgRefuses ==
    /\ pc = "polling"
    /\ connection = "closed" \/ slow
    /\ slow' = (slow /\ connection = "closed")
    /\ pc' = AfterError
    /\ UNCHANGED <<connection, interest, queue, ctxDone, seen, arrived>>

(* The -timeout of the context made by main, or a signal. *)
CancelContext ==
    /\ ~ctxDone
    /\ ctxDone' = TRUE
    /\ UNCHANGED <<pc, connection, interest, queue, slow, seen, arrived>>

--------------------------------------------------------------------------------
(* NATS and the agents *)

(* The subscription reaches the server, the first time or after a reconnect. *)
Register ==
    /\ pc \in {"polling", "waiting"}
    /\ connection = "up"
    /\ ~interest
    /\ interest' = TRUE
    /\ UNCHANGED <<pc, connection, queue, slow, ctxDone, seen, arrived>>

Valid(m) == m.flaw = "none" /\ m.type \in RequiredEventTypes

(* The types of the valid events in a queue. *)
ValidTypes(q) == {q[i].type : i \in {j \in DOMAIN q : Valid(q[j])}}

(* The server passes on a message; a full queue drops it and marks the     *)
(* subscription as slow until the next one that it takes.                  *)
Arrive(m) ==
    /\ pc \in {"polling", "waiting"}
    /\ connection = "up"
    /\ interest
    /\ \/ /\ Len(queue) < PendingLimit
          /\ queue' = Append(queue, m)
          /\ arrived' = IF Valid(m) THEN arrived \cup {m.type} ELSE arrived
          /\ slow' = FALSE
       \/ /\ Len(queue) = PendingLimit
          /\ slow' = TRUE
          /\ UNCHANGED <<queue, arrived>>
    /\ UNCHANGED <<pc, connection, interest, ctxDone, seen>>

(* The connection breaks; the client reconnects, or gives up after its     *)
(* number of attempts.                                                     *)
Disconnect ==
    /\ connection = "up"
    /\ ~Ended
    /\ connection' = "down"
    /\ interest' = FALSE
    /\ UNCHANGED <<pc, queue, slow, ctxDone, seen, arrived>>

Reconnect ==
    /\ connection = "down"
    /\ ~Ended
    /\ connection' \in {"up", "closed"}
    /\ UNCHANGED <<pc, interest, queue, slow, ctxDone, seen, arrived>>

--------------------------------------------------------------------------------
MainStep ==
    \/ Connect
    \/ Subscribe
    \/ Take
    \/ BeginWait
    \/ NextMsgRefuses

Next ==
    \/ MainStep
    \/ NextMsgTimesOut
    \/ CancelContext
    \/ Register
    \/ \E m \in Messages : Arrive(m)
    \/ Disconnect
    \/ Reconnect

Spec == Init /\ [][Next]_vars

(* main goes on, a wait without a message ends, and the timeout passes.    *)
FairSpec ==
    /\ Spec
    /\ WF_vars(MainStep)
    /\ WF_vars(NextMsgTimesOut)
    /\ WF_vars(CancelContext)

--------------------------------------------------------------------------------
(* Properties *)

(* The check counts a type only for a valid event of it that has reached   *)
(* the check since it subscribed, and passes with all of them only: not    *)
(* for malformed events, for others' types, or on an error.                *)
PassesOnEvidence ==
    /\ seen \subseteq arrived
    /\ pc = "passed" => seen = RequiredEventTypes

(* No valid event that has reached the check is passed over: its type is   *)
(* counted or the event is still in the queue, whatever invalid events,    *)
(* dropped messages, timeouts and broken connections come in between.  A   *)
(* check that fails may leave some in the queue that it never counts: its  *)
(* context was done, or its connection closed, before it came to them.     *)
NothingOverlooked == arrived \subseteq seen \cup ValidTypes(queue)

(* When messages stop arriving, or the connection is given up, the check   *)
(* ends after its timeout.  With steady traffic it need not: nextMessage   *)
(* looks at its context only after an error of NextMsg.                    *)
EndsOnceQuiet ==
    \/ <>[][\A m \in Messages : ~Arrive(m)]_vars
    \/ <>(connection = "closed")
    => <>Ended

(* Inductive invariant: what is counted next has arrived, too. *)
Inv ==
    /\ TypeOK
    /\ PassesOnEvidence
    /\ NothingOverlooked
    /\ ValidTypes(queue) \subseteq arrived
================================================================================

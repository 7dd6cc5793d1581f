------------------------- MODULE FoundationCheckProofs -------------------------
(***************************************************************************)
(* The verdict of the foundation check, for a subscription queue of any    *)
(* length.                                                                 *)
(***************************************************************************)
EXTENDS FoundationCheck, TLAPS

(* The type a message adds to those in a queue. *)
TypesOf(m) == IF Valid(m) THEN {m.type} ELSE {}

(* The messages that count are the valid ones of a required type. *)
LEMMA ValidatedIsValid ==
    ASSUME NEW m \in Messages
    PROVE  /\ ValidateActivityEvent(m) <=> Valid(m)
           /\ TypesOf(m) \subseteq RequiredEventTypes
           /\ SeenAfter(m) = seen \cup TypesOf(m)
BY DEF Messages, Flaws, ValidateActivityEvent, Valid, SeenAfter, TypesOf

(* A message that comes in at the end of a queue adds its type to those in *)
(* the queue.                                                              *)
LEMMA AppendedTypes ==
    ASSUME NEW q \in Seq(Messages), NEW m \in Messages
    PROVE  /\ Append(q, m) \in Seq(Messages)
           /\ Len(Append(q, m)) = Len(q) + 1
           /\ ValidTypes(Append(q, m)) = ValidTypes(q) \cup TypesOf(m)
<1> DEFINE longer == Append(q, m)
<1>1. DOMAIN q = 1 .. Len(q) /\ Len(q) \in Nat
  OBVIOUS
<1>2. /\ longer \in Seq(Messages)
      /\ Len(longer) = Len(q) + 1
      /\ DOMAIN longer = 1 .. Len(q) + 1
  OBVIOUS
<1>3. /\ \A i \in 1 .. Len(q) : longer[i] = q[i]
      /\ longer[Len(q) + 1] = m
  OBVIOUS
<1>4. 1 .. Len(q) + 1 = (1 .. Len(q)) \cup {Len(q) + 1}
  BY <1>1
<1> HIDE DEF longer
<1>5. ValidTypes(longer) = ValidTypes(q) \cup TypesOf(m)
  BY <1>1, <1>2, <1>3, <1>4 DEF ValidTypes, TypesOf
<1> QED
  BY <1>2, <1>5 DEF longer

(* The first message and the ones behind it have the types of a queue. *)
LEMMA TakenTypes ==
    ASSUME NEW q \in Seq(Messages), q # <<>>
    PROVE  /\ Head(q) \in Messages
           /\ Tail(q) \in Seq(Messages)
           /\ Len(Tail(q)) = Len(q) - 1
           /\ ValidTypes(q) = TypesOf(Head(q)) \cup ValidTypes(Tail(q))
<1> DEFINE rest == Tail(q)
           first == Head(q)
<1>1. DOMAIN q = 1 .. Len(q) /\ Len(q) \in Nat \ {0}
  OBVIOUS
<1>2. rest \in Seq(Messages) /\ Len(rest) = Len(q) - 1
  OBVIOUS
<1>3. DOMAIN rest = 1 .. Len(q) - 1
  BY <1>1, <1>2
<1>4. \A i \in 1 .. Len(q) - 1 : rest[i] = q[i + 1]
  BY <1>1
<1>5. first = q[1] /\ first \in Messages
  BY <1>1
<1> HIDE DEF rest, first
<1>6. \A i \in 1 .. Len(q) : i = 1 \/ (i - 1 \in 1 .. Len(q) - 1 /\ q[i] = rest[i - 1])
  <2> SUFFICES ASSUME NEW i \in 1 .. Len(q), i # 1
               PROVE  i - 1 \in 1 .. Len(q) - 1 /\ q[i] = rest[i - 1]
    OBVIOUS
  <2>1. i - 1 \in 1 .. Len(q) - 1 /\ (i - 1) + 1 = i
    BY <1>1
  <2> QED
    BY <2>1, <1>4
<1>7. \A i \in 1 .. Len(q) - 1 : i + 1 \in 1 .. Len(q)
  BY <1>1
<1>8. 1 \in 1 .. Len(q)
  BY <1>1
<1>9. ValidTypes(q) \subseteq TypesOf(first) \cup ValidTypes(rest)
  BY <1>1, <1>3, <1>5, <1>6 DEF ValidTypes, TypesOf
<1>10. TypesOf(first) \cup ValidTypes(rest) \subseteq ValidTypes(q)
  BY <1>1, <1>3, <1>4, <1>5, <1>7, <1>8 DEF ValidTypes, TypesOf
<1> QED
  BY <1>2, <1>5, <1>9, <1>10 DEF rest, first

(* An empty queue has nothing to count. *)
LEMMA InitEstablishes == Init => Inv
<1> SUFFICES ASSUME Init PROVE Inv
  OBVIOUS
<1>1. ValidTypes(queue) = {}
  BY DEF Init, ValidTypes
<1>2. queue \in Seq(Messages) /\ Len(queue) <= PendingLimit
  BY FoundationCheckAssumption DEF Init
<1>3. TypeOK
  BY <1>2 DEF Init, TypeOK
<1> QED
  BY <1>1, <1>3 DEF Init, Inv, PassesOnEvidence, NothingOverlooked

(* Steps that leave queue, seen and arrived alone keep what they say of    *)
(* each other.                                                             *)
LEMMA QueueUntouched ==
    ASSUME Inv, UNCHANGED <<queue, seen, arrived>>,
           pc' = "passed" => pc = "passed"
    PROVE  /\ (PassesOnEvidence /\ NothingOverlooked)'
           /\ (ValidTypes(queue) \subseteq arrived)'
BY DEF Inv, PassesOnEvidence, NothingOverlooked, ValidTypes, Valid

(* Every step of main, of NATS and of the agents keeps the invariant.  The *)
(* queue changes in Take and Arrive only, and what Take removes from it is *)
(* counted if it is valid.                                                 *)
LEMMA InvStep == Inv /\ [Next]_vars => Inv'
<1> SUFFICES ASSUME Inv, [Next]_vars PROVE Inv'
  OBVIOUS
<1>1. CASE Connect \/ Subscribe \/ BeginWait \/ NextMsgRefuses \/ NextMsgTimesOut
  <2>1. TypeOK'
    BY <1>1 DEF Connect, Subscribe, BeginWait, NextMsgRefuses, NextMsgTimesOut, AfterError,
                Inv, TypeOK
  <2>2. UNCHANGED <<queue, seen, arrived>> /\ pc' # "passed"
    BY <1>1 DEF Connect, Subscribe, BeginWait, NextMsgRefuses, NextMsgTimesOut, AfterError
  <2> QED
    BY <2>1, <2>2, QueueUntouched DEF Inv
<1>2. CASE CancelContext \/ Register \/ Disconnect \/ Reconnect \/ UNCHANGED vars
  <2>1. TypeOK'
    BY <1>2 DEF CancelContext, Register, Disconnect, Reconnect, vars, Inv, TypeOK
  <2>2. UNCHANGED <<queue, seen, arrived, pc>>
    BY <1>2 DEF CancelContext, Register, Disconnect, Reconnect, vars
  <2> QED
    BY <2>1, <2>2, QueueUntouched DEF Inv
<1>3. CASE Take
  <2>1. /\ Head(queue) \in Messages
        /\ queue' \in Seq(Messages)
        /\ Len(queue') = Len(queue) - 1
        /\ ValidTypes(queue) = TypesOf(Head(queue)) \cup ValidTypes(queue')
    BY <1>3, TakenTypes DEF Take, Inv, TypeOK
  <2>2. /\ seen' = seen \cup TypesOf(Head(queue))
        /\ TypesOf(Head(queue)) \subseteq RequiredEventTypes
    BY <1>3, <2>1, ValidatedIsValid DEF Take
  <2>3. Len(queue') <= PendingLimit
    BY <2>1, FoundationCheckAssumption DEF Inv, TypeOK
  <2>4. TypeOK'
    BY <1>3, <2>1, <2>2, <2>3 DEF Take, Inv, TypeOK
  <2>5. ValidTypes(queue)' = ValidTypes(queue')
    BY DEF ValidTypes, Valid
  <2> QED
    BY <1>3, <2>1, <2>2, <2>4, <2>5 DEF Take, Inv, PassesOnEvidence, NothingOverlooked
<1>4. ASSUME NEW m \in Messages, Arrive(m)
      PROVE  Inv'
  <2>1. CASE queue' = queue /\ arrived' = arrived /\ slow' = TRUE
    <3>1. TypeOK' /\ UNCHANGED <<queue, seen, arrived, pc>>
      BY <1>4, <2>1 DEF Arrive, Inv, TypeOK
    <3> QED
      BY <3>1, QueueUntouched DEF Inv
  <2>2. CASE /\ Len(queue) < PendingLimit
             /\ queue' = Append(queue, m)
             /\ arrived' = IF Valid(m) THEN arrived \cup {m.type} ELSE arrived
             /\ slow' = FALSE
    <3>1. /\ queue' \in Seq(Messages)
          /\ Len(queue') = Len(queue) + 1
          /\ ValidTypes(queue') = ValidTypes(queue) \cup TypesOf(m)
      BY <2>2, AppendedTypes DEF Inv, TypeOK
    <3>2. /\ arrived' = arrived \cup TypesOf(m)
          /\ TypesOf(m) \subseteq RequiredEventTypes
      BY <2>2, ValidatedIsValid DEF TypesOf
    <3>3. Len(queue') <= PendingLimit
      BY <2>2, <3>1, FoundationCheckAssumption DEF Inv, TypeOK
    <3>4. TypeOK'
      BY <1>4, <2>2, <3>1, <3>2, <3>3 DEF Arrive, Inv, TypeOK
    <3>5. ValidTypes(queue)' = ValidTypes(queue')
      BY DEF ValidTypes, Valid
    <3> QED
      BY <1>4, <3>1, <3>2, <3>4, <3>5 DEF Arrive, Inv, PassesOnEvidence, NothingOverlooked
  <2> QED
    BY <1>4, <2>1, <2>2 DEF Arrive
<1> QED
  BY <1>1, <1>2, <1>3, <1>4 DEF Next, MainStep

(* Every variable of the check keeps its type and the queue its limit. *)
THEOREM TypeCorrect == Spec => []TypeOK
<1>1. Inv => TypeOK
  BY DEF Inv
<1> QED
  BY InitEstablishes, InvStep, <1>1, PTL DEF Spec

(* A check that passes has been given a valid event of every required type, *)
(* whatever else has arrived.                                               *)
THEOREM VerdictHasEvidence == Spec => []PassesOnEvidence
<1>1. Inv => PassesOnEvidence
  BY DEF Inv
<1> QED
  BY InitEstablishes, InvStep, <1>1, PTL DEF Spec

(* A valid event that has arrived is counted or is still in the queue.     *)
THEOREM NoneIsPassedOver == Spec => []NothingOverlooked
<1>1. Inv => NothingOverlooked
  BY DEF Inv
<1> QED
  BY InitEstablishes, InvStep, <1>1, PTL DEF Spec
================================================================================

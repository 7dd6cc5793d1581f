-------------------------- MODULE AgentRuntimeProofs --------------------------
(***************************************************************************)
(* What TLC finds of AgentRuntime with two events per source, for any      *)
(* number of events, any fault and any capacity of the channel of results. *)
(***************************************************************************)
EXTENDS AgentRuntime, SequenceTheorems, TLAPS

(* A queue of results, with one more and with one less. *)
LEMMA QueueOfResults ==
    ASSUME NEW q \in Seq(Results), NEW r \in Results
    PROVE  /\ Append(q, r) \in Seq(Results)
           /\ Len(Append(q, r)) = Len(q) + 1
           /\ \A i \in 1..Len(Append(q, r)) :
                 Append(q, r)[i] = IF i = Len(q) + 1 THEN r ELSE q[i]
           /\ q # <<>> => /\ Tail(q) \in Seq(Results)
                          /\ Len(Tail(q)) = Len(q) - 1
                          /\ Head(q) = q[1] /\ 1 \in 1..Len(q)
                          /\ \A i \in 1..Len(Tail(q)) :
                                Tail(q)[i] = q[i + 1] /\ i + 1 \in 1..Len(q)
BY HeadTailProperties, AppendProperties

(* All is at rest, and nothing has been received. *)
LEMMA InitEstablishes == Init => Inv
<1> SUFFICES ASSUME Init PROVE Inv
  OBVIOUS
<1>1. TypeOK
  BY AgentRuntimeAssumption DEF Init, TypeOK, Results
<1>2. Quiet
  BY DEF Init, Quiet, NothingLeftBehind
<1>3. Genuine
  BY DEF Init, Genuine, RunDone, ReportsGenuineErrors, Listeners
<1>4. OneResultEach
  BY DEF Init, OneResultEach
<1> QED
  BY <1>1, <1>2, <1>3, <1>4 DEF Inv

(* Every step keeps the variables in their types. *)
LEMMA TypeStep == TypeOK /\ Genuine /\ [Next]_vars => TypeOK'
<1> SUFFICES ASSUME TypeOK, Genuine, [Next]_vars PROVE TypeOK'
  OBVIOUS
<1> USE AgentRuntimeAssumption DEF TypeOK, Goto, Stops
<1>1. ASSUME NEW l \in Listeners, New(l) \/ ReadCancelled(l) \/ ReadFails(l)
      PROVE  TypeOK'
  BY <1>1 DEF New, ReadCancelled, ReadFails, Results
<1>2. ASSUME NEW l \in Listeners, Read(l) PROVE TypeOK'
  BY <1>2 DEF Read
<1>3. ASSUME NEW l \in Listeners, Handle(l) PROVE TypeOK'
  <2>1. listener' \in [Listeners -> {"new", "read", "handle", "send", "returned"}]
    BY <1>3 DEF Handle
  <2>2. result' \in [Listeners -> Results \cup {"none"}]
    BY <1>3 DEF Handle, Results
  <2>3. buffered' \in Nat
    BY <1>3 DEF Handle
  <2> QED
    BY <1>3, <2>1, <2>2, <2>3 DEF Handle
<1>4. ASSUME NEW l \in Listeners, Send(l) PROVE TypeOK'
  <2>1. result[l] \in Results
    BY <1>4 DEF Send, Genuine
  <2>2. events' \in Seq(Results) /\ Len(events') <= ResultsCap
    BY <1>4, <2>1, QueueOfResults DEF Send
  <2> QED
    BY <1>4, <2>2 DEF Send
<1>5. CASE Receive
  <2>1. Head(events) \in Results
    BY <1>5, QueueOfResults DEF Receive
  <2>2. events' \in Seq(Results) /\ Len(events') <= ResultsCap
    BY <1>5, QueueOfResults DEF Receive
  <2>3. completed' \in 0..2 /\ firstErr' \in Results
    BY <1>5, <2>1 DEF Receive
  <2>4. done' \subseteq {"ctx", "runContext"}
    BY <1>5 DEF Receive
  <2>5. UNCHANGED <<listener, result, open, supplied, buffered, flushErr, pc>>
    BY <1>5 DEF Receive
  <2> QED
    BY <2>2, <2>3, <2>4, <2>5
<1>6. CASE ContextDone
  BY <1>6 DEF ContextDone
<1>7. CASE LeaveLoop
  BY <1>7 DEF LeaveLoop
<1>8. CASE CloseSource
  BY <1>8 DEF CloseSource
<1>9. CASE Wait
  BY <1>9 DEF Wait
<1>10. CASE Flush
  BY <1>10 DEF Flush
<1>11. CASE ClosePublisher
  BY <1>11 DEF ClosePublisher
<1>12. CASE WriteOut
  BY <1>12 DEF WriteOut
<1>13. CASE Signal
  BY <1>13 DEF Signal
<1>14. CASE UNCHANGED vars
  BY <1>14 DEF vars
<1> QED
  BY <1>1, <1>2, <1>3, <1>4, <1>5, <1>6, <1>7, <1>8, <1>9, <1>10, <1>11, <1>12,
     <1>13, <1>14
  DEF Next, ListenerStep, MainStep

(* No goroutine is left to publish once main has passed the Wait, and what *)
(* the flush did not send stays marked as failed.                          *)
LEMMA QuietStep == TypeOK /\ Quiet /\ [Next]_vars => Quiet'
<1> SUFFICES ASSUME TypeOK, Quiet, [Next]_vars PROVE Quiet'
  OBVIOUS
<1> USE DEF TypeOK, Quiet, NothingLeftBehind, Goto, Stops
<1>1. ASSUME NEW l \in Listeners, ListenerStep(l) PROVE Quiet'
  <2>1. listener[l] # "returned"
    BY <1>1 DEF ListenerStep, New, Read, ReadCancelled, ReadFails, Handle, Send
  <2>2. pc \notin {"flush", "closePublisher", "exited"}
    BY <2>1
  <2>3. pc' = pc
    BY <1>1 DEF ListenerStep, New, Read, ReadCancelled, ReadFails, Handle, Send
  <2> QED
    BY <2>2, <2>3
<1>2. CASE Receive \/ ContextDone \/ LeaveLoop \/ CloseSource
  BY <1>2 DEF Receive, ContextDone, LeaveLoop, CloseSource
<1>3. CASE Wait
  BY <1>3 DEF Wait
<1>4. CASE Flush \/ ClosePublisher
  BY <1>4 DEF Flush, ClosePublisher
<1>5. CASE WriteOut \/ Signal \/ UNCHANGED vars
  BY <1>5 DEF WriteOut, Signal, vars
<1> QED
  BY <1>1, <1>2, <1>3, <1>4, <1>5 DEF Next, MainStep

(* The results say what stopped the listeners: before the signal only a    *)
(* failure can be the first of them, and a closed hook is never one that   *)
(* RunListeners still receives.                                            *)
LEMMA GenuineStep == TypeOK /\ Genuine /\ [Next]_vars => Genuine'
<1> SUFFICES ASSUME TypeOK, Genuine, [Next]_vars PROVE Genuine'
  OBVIOUS
<1> USE DEF TypeOK, Genuine, ReportsGenuineErrors, RunDone, Goto, Stops
<1>1. ASSUME NEW l \in Listeners,
             New(l) \/ Read(l) \/ ReadCancelled(l) \/ ReadFails(l) \/ Handle(l)
      PROVE  Genuine'
  <2>1. UNCHANGED <<done, events, completed, firstErr, open, pc>>
    BY <1>1 DEF New, Read, ReadCancelled, ReadFails, Handle
  <2>2. \/ result' = result /\ \A k \in Listeners :
              listener'[k] = "send" => listener[k] = "send"
        \/ \E r \in Results :
              /\ result' = [result EXCEPT ![l] = r]
              /\ r = "nil" => RunDone
              /\ r = "hookStopped" => "input" \notin open
              /\ \A k \in Listeners : listener'[k] = "send" => listener[k] = "send" \/ k = l
    <3>1. CASE Read(l)
      BY <3>1 DEF Read
    <3>2. CASE New(l)
      BY <3>2 DEF New, Results
    <3>3. CASE ReadCancelled(l)
      BY <3>3 DEF ReadCancelled, Results
    <3>4. CASE ReadFails(l)
      BY <3>4 DEF ReadFails, Results
    <3>5. CASE Handle(l)
      BY <3>5 DEF Handle, Results
    <3> QED
      BY <1>1, <3>1, <3>2, <3>3, <3>4, <3>5
  <2>3. \A r \in Results : r # "none"
    BY DEF Results
  <2> QED
    BY <2>1, <2>2, <2>3
<1>2. ASSUME NEW l \in Listeners, Send(l) PROVE Genuine'
  <2>1. result[l] \in Results
    BY <1>2 DEF Send
  <2>2. \A i \in 1..Len(events') : events'[i] = result[l] \/
           (i \in 1..Len(events) /\ events'[i] = events[i])
    BY <1>2, <2>1, QueueOfResults DEF Send
  <2> QED
    BY <1>2, <2>2 DEF Send
<1>3. CASE Receive
  <2>1. /\ Head(events) = events[1] /\ 1 \in 1..Len(events)
        /\ \A i \in 1..Len(events') :
              events'[i] = events[i + 1] /\ i + 1 \in 1..Len(events)
    BY <1>3, QueueOfResults DEF Receive, Results
  <2>2. ~RunDone => Head(events) # "nil"
    BY <2>1
  <2>3. Head(events) # "hookStopped"
    BY <1>3, <2>1 DEF Receive
  <2> QED
    BY <1>3, <2>1, <2>2, <2>3 DEF Receive
<1>4. CASE ContextDone \/ LeaveLoop \/ CloseSource \/ Wait
  BY <1>4 DEF ContextDone, LeaveLoop, CloseSource, Wait
<1>5. CASE Flush \/ ClosePublisher \/ WriteOut \/ Signal
  BY <1>5 DEF Flush, ClosePublisher, WriteOut, Signal
<1>6. CASE UNCHANGED vars
  BY <1>6 DEF vars
<1> QED
  BY <1>1, <1>2, <1>3, <1>4, <1>5, <1>6 DEF Next, ListenerStep, MainStep

(* A goroutine adds a result as it returns, and no other step adds one. *)
LEMMA OneResultStep ==
    TypeOK /\ Genuine /\ OneResultEach /\ [Next]_vars => OneResultEach'
<1> SUFFICES ASSUME TypeOK, Genuine, OneResultEach, [Next]_vars PROVE OneResultEach'
  OBVIOUS
<1> USE DEF TypeOK, OneResultEach, Goto, Stops, Listeners
<1>1. ASSUME NEW l \in Listeners,
             New(l) \/ Read(l) \/ ReadCancelled(l) \/ ReadFails(l) \/ Handle(l)
      PROVE  OneResultEach'
  <2>1. UNCHANGED events
    BY <1>1 DEF New, Read, ReadCancelled, ReadFails, Handle
  <2>2. \A k \in Listeners : listener'[k] # "returned" <=> listener[k] # "returned"
    BY <1>1 DEF New, Read, ReadCancelled, ReadFails, Handle
  <2> QED
    BY <2>1, <2>2
<1>2. ASSUME NEW l \in Listeners, Send(l) PROVE OneResultEach'
  <2>1. Len(events') = Len(events) + 1 /\ Len(events) \in Nat
    <3>1. result[l] \in Results
      BY <1>2 DEF Send, Genuine
    <3> QED
      BY <1>2, <3>1, QueueOfResults DEF Send
  <2>2. /\ listener[l] = "send" /\ listener'[l] = "returned"
        /\ \A k \in Listeners : k # l => listener'[k] = listener[k]
    BY <1>2 DEF Send
  <2>3. CASE \A k \in Listeners : listener[k] # "returned"
    BY <2>1, <2>2, <2>3
  <2>4. CASE ~\A k \in Listeners : listener[k] # "returned"
    BY <2>2, <2>4
  <2> QED
    BY <2>3, <2>4
<1>3. CASE Receive
  <2>1. Len(events') = Len(events) - 1 /\ Len(events) \in Nat /\ Len(events) > 0
    BY <1>3, QueueOfResults DEF Receive, Results
  <2>2. UNCHANGED listener
    BY <1>3 DEF Receive
  <2> QED
    BY <2>1, <2>2
<1>4. CASE ContextDone \/ LeaveLoop \/ CloseSource \/ Wait
  BY <1>4 DEF ContextDone, LeaveLoop, CloseSource, Wait
<1>5. CASE Flush \/ ClosePublisher \/ WriteOut \/ Signal
  BY <1>5 DEF Flush, ClosePublisher, WriteOut, Signal
<1>6. CASE UNCHANGED vars
  BY <1>6 DEF vars
<1> QED
  BY <1>1, <1>2, <1>3, <1>4, <1>5, <1>6 DEF Next, ListenerStep, MainStep

(* The invariant holds in every state of the agent. *)
THEOREM Invariance == Spec => []Inv
<1>1. Inv /\ [Next]_vars => Inv'
  BY TypeStep, QuietStep, GenuineStep, OneResultStep DEF Inv
<1> QED
  BY InitEstablishes, <1>1, PTL DEF Spec

(* Type correctness; the channel never holds more than its capacity. *)
THEOREM TypeCorrect == Spec => []TypeOK
<1>1. Inv => TypeOK
  BY DEF Inv
<1> QED
  BY Invariance, <1>1, PTL

(* The flush of the shutdown comes after the last publish. *)
THEOREM FlushIsLast == Spec => []NothingLeftBehind
<1>1. Inv => NothingLeftBehind
  BY DEF Inv, Quiet
<1> QED
  BY Invariance, <1>1, PTL

(* Without a signal RunListeners ends with a listener's failure, and       *)
(* returns it.                                                             *)
THEOREM NilMeansShutdown == Spec => []NilOnlyOnShutdown
<1>1. Inv => NilOnlyOnShutdown
  <2> SUFFICES ASSUME Inv, pc # "select", "ctx" \notin done PROVE firstErr = "failed"
    BY DEF NilOnlyOnShutdown
  <2>1. RunDone
    BY DEF Inv, Genuine
  <2>2. done = {"runContext"}
    BY <2>1 DEF Inv, TypeOK, RunDone
  <2>3. firstErr # "nil" /\ firstErr # "hookStopped" /\ firstErr \in Results
    BY <2>2 DEF Inv, TypeOK, Genuine, ReportsGenuineErrors
  <2> QED
    BY <2>3 DEF Results
<1> QED
  BY Invariance, <1>1, PTL

(* The error that closing the hook causes is never taken for the cause. *)
THEOREM CausesAreGenuine == Spec => []ReportsGenuineErrors
<1>1. Inv => ReportsGenuineErrors
  BY DEF Inv, Genuine
<1> QED
  BY Invariance, <1>1, PTL

(* Two places in the channel of results are enough for the two goroutines, *)
(* whoever receives.                                                       *)
THEOREM ResultsFit == Spec => []SendNeverBlocks
<1>1. Inv => SendNeverBlocks
  <2> SUFFICES ASSUME Inv, ResultsCap >= 2, NEW l \in Listeners, listener[l] = "send"
               PROVE  Len(events) < ResultsCap
    BY DEF SendNeverBlocks
  <2>1. Len(events) <= 1 /\ Len(events) \in Nat
    BY DEF Inv, OneResultEach, TypeOK
  <2> QED
    BY <2>1, AgentRuntimeAssumption
<1> QED
  BY Invariance, <1>1, PTL
================================================================================

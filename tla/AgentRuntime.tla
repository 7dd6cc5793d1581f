------------------------------ MODULE AgentRuntime -----------------------------
(***************************************************************************)
(* The recording agent from the start of its listeners to its exit:        *)
(* RunListeners (internal/agent/listeners.go) with the microphone and the  *)
(* input listener it runs as goroutines (internal/listeners), the NATS     *)
(* publisher they share (internal/messaging/nats/publisher.go), and the    *)
(* GracefulShutdown (internal/agent/shutdown.go) at the end of the agent's *)
(* main.                                                                   *)
(*                                                                         *)
(* The goroutines' steps interleave, the signal may arrive before any of   *)
(* them, and a select takes any of its ready cases.                        *)
(***************************************************************************)
EXTENDS Naturals, Sequences, FiniteSets

CONSTANTS MaxEvents,   \* events each source supplies; bounds the counters
          ResultsCap,  \* capacity of the channel of results, 2 in the code
          Faults       \* what may fail, see below

(* new:     a listener's configuration is refused                          *)
(* read:    a source's Read fails while its context is not cancelled       *)
(* publish: PublishActivity refuses or fails to publish an event           *)
(* flush:   the flush at shutdown fails or times out                       *)
ASSUME AgentRuntimeAssumption ==
    /\ MaxEvents \in Nat
    /\ ResultsCap \in Nat
    /\ Faults \subseteq {"new", "read", "publish", "flush"}

Listeners == {"microphone", "input"}

VARIABLES done,       \* contexts that are done: "ctx", the agent's signal
                      \* context, and "runContext", cancelled in RunListeners
          listener,   \* where each listener's goroutine is
          result,     \* what each listener's Run returned
          events,     \* the channel of results
          completed,  \* the counter of the select loop
          firstErr,   \* the error RunListeners is to return
          open,       \* sources that are not closed
          supplied,   \* events each source has supplied
          buffered,   \* events accepted by the publisher, not at the server
          flushErr,   \* the error of the flush in GracefulShutdown
          pc          \* where the agent's main goroutine is

vars == <<done, listener, result, events, completed, firstErr,
          open, supplied, buffered, flushErr, pc>>

(* runContext is derived from ctx. *)
RunDone == done # {}

Results == {"nil", "failed", "hookStopped"}

TypeOK ==
    /\ done \subseteq {"ctx", "runContext"}
    /\ listener \in [Listeners -> {"new", "read", "handle", "send", "returned"}]
    /\ result \in [Listeners -> Results \cup {"none"}]
    /\ events \in Seq(Results) /\ Len(events) <= ResultsCap
    /\ completed \in 0..2
    /\ firstErr \in Results
    /\ open \subseteq Listeners
    /\ supplied \in [Listeners -> 0..MaxEvents]
    /\ buffered \in Nat
    /\ flushErr \in {"nil", "failed"}
    /\ pc \in {"select", "closeMicrophone", "closeInput", "wait", "flush",
                 "closePublisher", "exited"}

Init ==
    /\ done = {}
    /\ listener = [l \in Listeners |-> "new"]
    /\ result = [l \in Listeners |-> "none"]
    /\ events = <<>>
    /\ completed = 0
    /\ firstErr = "nil"
    /\ open = Listeners
    /\ supplied = [l \in Listeners |-> 0]
    /\ buffered = 0
    /\ flushErr = "nil"
    /\ pc = "select"

--------------------------------------------------------------------------------
(* The listeners' goroutines *)

Goto(l, label) == listener' = [listener EXCEPT ![l] = label]

Stops(l, r) ==
    /\ result' = [result EXCEPT ![l] = r]
    /\ Goto(l, "send")

(* Mutant: the error of New is sent without the return behind it. *)
NewWithoutReturn(l) ==
    /\ listener[l] = "new"
    /\ \/ UNCHANGED <<result, events>>
       \/ /\ "new" \in Faults /\ Len(events) < ResultsCap
          /\ result' = [result EXCEPT ![l] = "failed"]
          /\ events' = Append(events, "failed")
    /\ Goto(l, "read")
    /\ UNCHANGED <<done, completed, firstErr, open, supplied, buffered,
                   flushErr, pc>>

New(l) ==
    /\ listener[l] = "new"
    /\ \/ Goto(l, "read") /\ UNCHANGED result
       \/ "new" \in Faults /\ Stops(l, "failed")
    /\ UNCHANGED <<done, events, completed, firstErr, open,
                   supplied, buffered, flushErr, pc>>

(* A source supplies a sample or an input event that becomes an envelope;  *)
(* the microphone's channel may still hold a chunk after its Close.        *)
Read(l) ==
    /\ listener[l] = "read"
    /\ supplied[l] < MaxEvents
    /\ l = "input" => l \in open
    /\ supplied' = [supplied EXCEPT ![l] = @ + 1]
    /\ Goto(l, "handle")
    /\ UNCHANGED <<done, result, events, completed, firstErr,
                   open, buffered, flushErr, pc>>

(* Read returns the error of its done context: Run returns nil.            *)
ReadCancelled(l) ==
    /\ listener[l] = "read"
    /\ RunDone
    /\ Stops(l, "nil")
    /\ UNCHANGED <<done, events, completed, firstErr, open,
                   supplied, buffered, flushErr, pc>>

(* Read returns another error; closing the hook closes the channel the     *)
(* input source reads.                                                     *)
ReadFails(l) ==
    /\ listener[l] = "read"
    /\ \/ "read" \in Faults /\ Stops(l, "failed")
       \/ l = "input" /\ l \notin open /\ Stops(l, "hookStopped")
    /\ UNCHANGED <<done, events, completed, firstErr, open,
                   supplied, buffered, flushErr, pc>>

(* The handler publishes with a context of its own, so an event read       *)
(* before the shutdown is still accepted.                                  *)
Handle(l) ==
    /\ listener[l] = "handle"
    /\ \/ /\ pc # "exited"
          /\ buffered' = buffered + 1
          /\ Goto(l, "read")
          /\ UNCHANGED result
       \/ /\ "publish" \in Faults \/ pc = "exited"
          /\ Stops(l, "failed")
          /\ UNCHANGED buffered
    /\ UNCHANGED <<done, events, completed, firstErr, open,
                   supplied, flushErr, pc>>

(* The one send of a goroutine, and its deferred listeners.Done().         *)
Send(l) ==
    /\ listener[l] = "send"
    /\ Len(events) < ResultsCap
    /\ events' = Append(events, result[l])
    /\ Goto(l, "returned")
    /\ UNCHANGED <<done, result, completed, firstErr, open,
                   supplied, buffered, flushErr, pc>>

--------------------------------------------------------------------------------
(* RunListeners *)

(* Mutant: cancel() is left to the deferred call. *)
ReceiveWithoutCancel ==
    /\ pc = "select"
    /\ completed < 2
    /\ events # <<>>
    /\ events' = Tail(events)
    /\ completed' = completed + 1
    /\ firstErr' = IF firstErr = "nil" THEN Head(events) ELSE firstErr
    /\ UNCHANGED <<done, listener, result, open, supplied,
                   buffered, flushErr, pc>>

(* Mutant: the latest result replaces the first error. *)
ReceiveLatest ==
    /\ pc = "select"
    /\ completed < 2
    /\ events # <<>>
    /\ events' = Tail(events)
    /\ completed' = completed + 1
    /\ firstErr' = Head(events)
    /\ done' = IF Head(events) # "nil" THEN done \cup {"runContext"} ELSE done
    /\ UNCHANGED <<listener, result, open, supplied, buffered,
                   flushErr, pc>>

Receive ==
    /\ pc = "select"
    /\ completed < 2
    /\ events # <<>>
    /\ events' = Tail(events)
    /\ completed' = completed + 1
    /\ IF firstErr = "nil" /\ Head(events) # "nil"
         THEN firstErr' = Head(events) /\ done' = done \cup {"runContext"}
         ELSE UNCHANGED <<firstErr, done>>
    /\ UNCHANGED <<listener, result, open, supplied, buffered,
                   flushErr, pc>>

(* Mutant: completed is raised by 2 instead of set to 2. *)
ContextDoneAddsTwo ==
    /\ pc = "select"
    /\ completed < 2
    /\ "ctx" \in done
    /\ done' = done \cup {"runContext"}
    /\ completed' = completed + 2
    /\ UNCHANGED <<listener, result, events, firstErr, open, supplied,
                   buffered, flushErr, pc>>

ContextDone ==
    /\ pc = "select"
    /\ completed < 2
    /\ "ctx" \in done
    /\ done' = done \cup {"runContext"}
    /\ completed' = 2
    /\ UNCHANGED <<listener, result, events, firstErr, open, supplied,
                   buffered, flushErr, pc>>

LeaveLoop ==
    /\ pc = "select"
    /\ completed = 2
    /\ pc' = "closeMicrophone"
    /\ UNCHANGED <<done, listener, result, events, completed,
                   firstErr, open, supplied, buffered, flushErr>>

CloseSource ==
    /\ \/ /\ pc = "closeMicrophone"
          /\ open' = open \ {"microphone"}
          /\ pc' = "closeInput"
       \/ /\ pc = "closeInput"
          /\ open' = open \ {"input"}
          /\ pc' = "wait"
    /\ UNCHANGED <<done, listener, result, events, completed,
                   firstErr, supplied, buffered, flushErr>>

(* Mutant: RunListeners returns without listeners.Wait(). *)
ReturnWithoutWait ==
    /\ pc = "wait"
    /\ pc' = "flush"
    /\ UNCHANGED <<done, listener, result, events, completed,
                   firstErr, open, supplied, buffered, flushErr>>

(* Mutant: the loop after the Wait drains the channel.                     *)
WaitAndDrain ==
    /\ pc = "wait"
    /\ \A l \in Listeners : listener[l] = "returned"
    /\ pc' = "flush"
    /\ events' = <<>>
    /\ firstErr' = IF firstErr = "nil" /\ events # <<>> THEN Head(events) ELSE firstErr
    /\ UNCHANGED <<done, listener, result, completed, open,
                   supplied, buffered, flushErr>>

(* listeners.Wait(), and the return.  completed is 2 by now, so the loop   *)
(* between them that drains the channel has no iteration.                  *)
Wait ==
    /\ pc = "wait"
    /\ \A l \in Listeners : listener[l] = "returned"
    /\ pc' = "flush"
    /\ UNCHANGED <<done, listener, result, events, completed,
                   firstErr, open, supplied, buffered, flushErr>>

--------------------------------------------------------------------------------
(* GracefulShutdown and the publisher *)

Flush ==
    /\ pc = "flush"
    /\ \/ /\ buffered' = 0
          /\ UNCHANGED flushErr
       \/ /\ "flush" \in Faults
          /\ flushErr' = "failed"
          /\ UNCHANGED buffered
    /\ pc' = "closePublisher"
    /\ UNCHANGED <<done, listener, result, events, completed,
                   firstErr, open, supplied>>

(* Close follows whether or not the flush failed; then main returns.       *)
ClosePublisher ==
    /\ pc = "closePublisher"
    /\ pc' = "exited"
    /\ UNCHANGED <<done, listener, result, events, completed,
                   firstErr, open, supplied, buffered, flushErr>>

(* The NATS client writes its buffer out in the background.                *)
WriteOut ==
    /\ buffered > 0
    /\ pc # "exited"
    /\ buffered' = buffered - 1
    /\ UNCHANGED <<done, listener, result, events, completed,
                   firstErr, open, supplied, flushErr, pc>>

Signal ==
    /\ "ctx" \notin done
    /\ pc # "exited"
    /\ done' = done \cup {"ctx"}
    /\ UNCHANGED <<listener, result, events, completed, firstErr,
                   open, supplied, buffered, flushErr, pc>>

--------------------------------------------------------------------------------
ListenerStep(l) ==
    New(l) \/ Read(l) \/ ReadCancelled(l) \/ ReadFails(l) \/ Handle(l) \/ Send(l)

MainStep ==
    \/ Receive
    \/ ContextDone
    \/ LeaveLoop
    \/ CloseSource
    \/ Wait
    \/ Flush
    \/ ClosePublisher

Next ==
    \/ \E l \in Listeners : ListenerStep(l)
    \/ MainStep
    \/ WriteOut
    \/ Signal

Spec == Init /\ [][Next]_vars

(* Go runs every goroutine that can run, and its select does not pass over *)
(* a done context for ever.  Sources need not supply or fail.              *)
FairSpec ==
    /\ Spec
    /\ WF_vars(MainStep)
    /\ \A l \in Listeners :
          /\ WF_vars(New(l) \/ Handle(l) \/ Send(l))
          /\ SF_vars(ReadCancelled(l))

--------------------------------------------------------------------------------
(* Properties *)

(* What the publisher accepted before the agent exits is at the server,    *)
(* unless the flush failed: no listener publishes behind the flush, however *)
(* the signal, errors and the closing of the sources interleave.           *)
NothingLeftBehind ==
    pc \in {"closePublisher", "exited"} /\ flushErr = "nil" => buffered = 0

(* RunListeners returns nil only on shutdown: with the context not done, a *)
(* listener's error ended it, and that error is what it returns.           *)
NilOnlyOnShutdown ==
    pc \in {"flush", "closePublisher", "exited"} /\ "ctx" \notin done
        => firstErr = "failed"

(* Closing the hook makes the input listener return an error of its own;   *)
(* RunListeners never reports that one.                                    *)
ReportsGenuineErrors == firstErr # "hookStopped"

(* A channel of two results has room for each goroutine's, so none blocks  *)
(* on its send: neither when RunListeners has stopped receiving nor when   *)
(* both listeners fail before it receives.                                 *)
SendNeverBlocks ==
    ResultsCap >= 2 =>
        \A l \in Listeners : listener[l] = "send" => Len(events) < ResultsCap

(* A signal ends the agent: neither the channel of results nor the wait    *)
(* for the goroutines blocks it, also when no one receives the results.    *)
SignalEndsAgent == "ctx" \in done /\ pc = "select" ~> pc = "exited"

(* "... stop when ctx is cancelled or either listener returns an error":   *)
(* one listener's failure stops the other one and then the agent.          *)
FailureEndsAgent ==
    (\E l \in Listeners : result[l] = "failed") ~> pc = "exited"

--------------------------------------------------------------------------------
(* Inductive invariants *)

(* main passes the Wait only when both goroutines are done for good, and   *)
(* past the flush the buffer stays empty unless the flush failed.          *)
Quiet ==
    /\ pc \in {"flush", "closePublisher", "exited"} =>
          \A l \in Listeners : listener[l] = "returned"
    /\ NothingLeftBehind

(* Before the signal or a first error, nothing but a failure has stopped a *)
(* listener and RunListeners has received nothing.  While it receives, no  *)
(* source is closed, so no result tells of a closed hook.                  *)
Genuine ==
    /\ ~RunDone =>
          /\ firstErr = "nil" /\ completed = 0
          /\ \A l \in Listeners : result[l] # "nil"
          /\ \A i \in 1..Len(events) : events[i] # "nil"
    /\ done = {"runContext"} => firstErr # "nil"
    /\ pc = "select" =>
          /\ "input" \in open
          /\ \A l \in Listeners : result[l] # "hookStopped"
          /\ \A i \in 1..Len(events) : events[i] # "hookStopped"
    /\ pc # "select" => completed = 2
    /\ \A l \in Listeners : listener[l] = "send" => result[l] # "none"
    /\ ReportsGenuineErrors

(* A result in the channel is one that a goroutine has returned after.     *)
OneResultEach ==
    /\ \A l \in Listeners : listener[l] # "returned" => Len(events) <= 1
    /\ (\A l \in Listeners : listener[l] # "returned") => Len(events) = 0

Inv == TypeOK /\ Quiet /\ Genuine /\ OneResultEach
================================================================================

----------------------------- MODULE RecordingAgent ----------------------------
(***************************************************************************)
(* AgentRuntime with the microphone it runs on: the microphone listener    *)
(* (internal/listeners/microphone/listener.go) reads the channel of        *)
(* AudioBuffer, passes over silent chunks and makes an event of a loud one, *)
(* and RunListeners closes the stream while the callback may be at work.   *)
(***************************************************************************)
EXTENDS AgentRuntime, AudioBuffer

agentVars == <<vars, audioVars>>

AgentInit == Init /\ AudioInit

(* Run reads a chunk and either publishes an event or goes on to the next  *)
(* chunk: below the threshold.                                             *)
ReadChunk ==
    /\ TakeChunk
    /\ \/ Read("microphone")
       \/ listener["microphone"] = "read" /\ UNCHANGED vars

ReadInput == Read("input") /\ UNCHANGED audioVars

(* RunListeners closes the microphone: Close returns once PortAudio has    *)
(* stopped, and only then the input source is closed.                      *)
CloseMicrophone ==
    /\ pc = "closeMicrophone"
    /\ \/ StopStream /\ UNCHANGED vars
       \/ StreamStopped /\ CloseSource

CloseInput ==
    /\ pc = "closeInput"
    /\ CloseSource
    /\ UNCHANGED audioVars

AgentMain ==
    \/ CloseMicrophone
    \/ CloseInput
    \/ (Receive \/ ContextDone \/ LeaveLoop \/ Wait \/ Flush \/ ClosePublisher)
         /\ UNCHANGED audioVars

(* The steps of a listener that do not read.                               *)
AgentListener(l) ==
    (New(l) \/ ReadCancelled(l) \/ ReadFails(l) \/ Handle(l) \/ Send(l))
        /\ UNCHANGED audioVars

AgentNext ==
    \/ (Capture \/ CallbackStep) /\ UNCHANGED vars
    \/ ReadChunk
    \/ ReadInput
    \/ \E l \in Listeners : AgentListener(l)
    \/ AgentMain
    \/ (WriteOut \/ Signal) /\ UNCHANGED audioVars

AgentSpec == AgentInit /\ [][AgentNext]_agentVars

(* Besides the fairness of AgentRuntime: PortAudio lets a callback that has *)
(* been called run on, and the microphone listener reads.  Nothing makes   *)
(* PortAudio capture.                                                      *)
FairAgentSpec ==
    /\ AgentSpec
    /\ WF_agentVars(AgentMain)
    /\ WF_agentVars(CallbackStep /\ UNCHANGED vars)
    /\ WF_agentVars(ReadChunk)
    /\ \A l \in Listeners :
          /\ WF_agentVars((New(l) \/ Handle(l) \/ Send(l)) /\ UNCHANGED audioVars)
          /\ SF_agentVars(ReadCancelled(l) /\ UNCHANGED audioVars)

================================================================================

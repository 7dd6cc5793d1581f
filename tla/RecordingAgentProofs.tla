-------------------------- MODULE RecordingAgentProofs -------------------------
(***************************************************************************)
(* The microphone's channel keeps its promises for any capacity and any    *)
(* number of chunks, and the agent with that channel is an AgentRuntime.   *)
(***************************************************************************)
EXTENDS RecordingAgent, AgentRuntimeProofs

(* A channel with one chunk more. *)
LEMMA OneMore ==
    ASSUME NEW q \in Seq(ChunkNumbers), NEW c \in ChunkNumbers
    PROVE  /\ Append(q, c) \in Seq(ChunkNumbers)
           /\ Append(q, c) # <<>>
           /\ Len(Append(q, c)) = Len(q) + 1
           /\ \A i \in 1..Len(q) : Append(q, c)[i] = q[i]
           /\ Append(q, c)[Len(q) + 1] = c
BY AppendProperties

(* A channel with one chunk less. *)
LEMMA OneLess ==
    ASSUME NEW q \in Seq(ChunkNumbers), q # <<>>
    PROVE  /\ Len(q) \in Nat /\ Len(q) > 0
           /\ Head(q) = q[1] /\ Head(q) \in ChunkNumbers
           /\ Tail(q) \in Seq(ChunkNumbers)
           /\ Len(Tail(q)) = Len(q) - 1
           /\ \A i \in 1..Len(Tail(q)) : Tail(q)[i] = q[i + 1]
           /\ Tail(q) = <<>> => Len(q) = 1
<1>1. /\ Tail(q) \in Seq(ChunkNumbers) /\ Len(q) \in Nat
      /\ Len(Tail(q)) = Len(q) - 1
      /\ Head(q) = q[1] /\ Head(q) \in ChunkNumbers
      /\ \A i \in 1..Len(Tail(q)) : Tail(q)[i] = q[i + 1]
  BY HeadTailProperties
<1>2. Len(q) # 0
  BY EmptySeq
<1>3. Len(q) > 0
  BY <1>1, <1>2
<1>4. Tail(q) = <<>> => Len(q) = 1
  <2>1. \A s \in Seq(ChunkNumbers) : s = <<>> => Len(s) = 0
    BY EmptySeq
  <2>2. ASSUME Len(Tail(q)) = 0 PROVE Len(q) = 1
    <3>1. Len(q) - 1 = 0 /\ Len(q) \in Nat
      BY <1>1, <2>2
    <3> HIDE <1>1, <2>2
    <3> QED
      BY <3>1
  <2> QED
    BY <1>1, <2>1, <2>2
<1> QED
  BY <1>1, <1>3, <1>4

(* What the invariant says in numbers. *)
LEMMA InNumbers ==
    ASSUME AudioInv
    PROVE  /\ chunks \in Seq(ChunkNumbers) /\ Len(chunks) \in Nat
           /\ captured \in Nat /\ taken \in Nat /\ Finished \in Nat
           /\ Capacity \in Nat /\ Capacity > 0 /\ MaxChunks \in Nat
           /\ chunks # <<>> <=> Len(chunks) > 0
<1>1. chunks \in Seq(ChunkNumbers)
  BY DEF AudioInv, AudioTypeOK
<1>2. Len(chunks) \in Nat /\ (chunks # <<>> <=> Len(chunks) > 0)
  BY <1>1
<1> QED
  BY <1>1, <1>2, AudioBufferAssumption DEF AudioInv, AudioTypeOK, Recent, Finished

(* The stream has just been started. *)
LEMMA AudioInitEstablishes == AudioInit => AudioInv
<1> SUFFICES ASSUME AudioInit PROVE AudioInv
  OBVIOUS
<1>1. AudioTypeOK
  BY AudioBufferAssumption DEF AudioInit, AudioTypeOK
<1>2. Recent
  BY AudioBufferAssumption DEF AudioInit, Recent, Finished
<1> QED
  BY <1>1, <1>2 DEF AudioInv

(* A send that finds room adds the chunk in hand; one that does not leaves *)
(* the channel full.                                                       *)
LEMMA TrySendKeeps ==
    ASSUME AudioInv, NEW from \in {"send", "resend"}, NEW otherwise \in {"evict", "idle"},
           TrySend(from, otherwise), from = "send" => otherwise = "evict"
    PROVE  AudioInv'
<1>1. /\ callback = from /\ UNCHANGED <<stream, captured, taken>>
      /\ Finished = captured - 1 /\ captured \in ChunkNumbers
  BY DEF TrySend, AudioInv, AudioTypeOK, Recent, Finished, ChunkNumbers
<1>2. CASE Len(chunks) < Capacity
  <2>1. chunks' = Append(chunks, captured) /\ callback' = "idle" /\ Finished' = captured
    BY <1>1, <1>2 DEF TrySend, Finished
  <2>2. /\ chunks' \in Seq(ChunkNumbers)
        /\ chunks' # <<>>
        /\ Len(chunks') = Len(chunks) + 1
        /\ \A i \in 1..Len(chunks) : chunks'[i] = chunks[i]
        /\ chunks'[Len(chunks) + 1] = captured
    BY <1>1, <2>1, OneMore, InNumbers
  <2>3. AudioTypeOK'
    BY <1>1, <1>2, <2>1, <2>2, InNumbers DEF AudioInv, AudioTypeOK
  <2>4. \A i \in 1..Len(chunks') : chunks'[i] = (Finished' - Len(chunks')) + i
    <3> SUFFICES ASSUME NEW i \in 1..Len(chunks')
                 PROVE  chunks'[i] = (Finished' - Len(chunks')) + i
      OBVIOUS
    <3>1. CASE i \in 1..Len(chunks)
      BY <3>1, <1>1, <2>1, <2>2, InNumbers DEF AudioInv, Recent
    <3>2. CASE i = Len(chunks) + 1
      BY <3>2, <2>1, <2>2, InNumbers
    <3> QED
      BY <3>1, <3>2, <2>2, InNumbers
  <2>5. taken' + Len(chunks') <= Finished'
    BY <1>1, <2>1, <2>2, InNumbers DEF AudioInv, Recent
  <2> QED
    BY <2>1, <2>2, <2>3, <2>4, <2>5 DEF AudioInv, Recent
<1>3. CASE ~(Len(chunks) < Capacity)
  <2>1. from = "send" /\ callback' = "evict" /\ chunks' = chunks
    BY <1>1, <1>3 DEF TrySend, AudioInv, Recent
  <2>2. chunks # <<>> /\ Finished' = Finished
    BY <1>1, <1>3, <2>1, InNumbers DEF Finished
  <2> QED
    BY <1>1, <2>1, <2>2 DEF AudioInv, AudioTypeOK, Recent
<1> QED
  BY <1>2, <1>3

(* Taking a chunk from the channel, whether to read it or to drop it,      *)
(* leaves the chunks behind it.                                            *)
LEMMA TailKeeps ==
    ASSUME AudioInv, chunks # <<>>, chunks' = Tail(chunks), Finished' = Finished
    PROVE  /\ chunks' \in Seq(ChunkNumbers)
           /\ Len(chunks') = Len(chunks) - 1
           /\ \A i \in 1..Len(chunks') : chunks'[i] = (Finished' - Len(chunks')) + i
           /\ Head(chunks) = (Finished - Len(chunks)) + 1
           /\ Head(chunks) \in ChunkNumbers
           /\ chunks' = <<>> => Len(chunks) = 1
<1>1. /\ chunks' \in Seq(ChunkNumbers)
      /\ Len(chunks) > 0 /\ Len(chunks') = Len(chunks) - 1
      /\ \A i \in 1..Len(chunks') : chunks'[i] = chunks[i + 1]
      /\ Head(chunks) = chunks[1] /\ Head(chunks) \in ChunkNumbers
      /\ chunks' = <<>> => Len(chunks) = 1
  BY OneLess, InNumbers
<1>2. \A i \in 1..Len(chunks) : chunks[i] = (Finished - Len(chunks)) + i
  BY DEF AudioInv, Recent
<1>3. Head(chunks) = (Finished - Len(chunks)) + 1
  BY <1>1, <1>2, InNumbers
<1>4. ASSUME NEW i \in 1..Len(chunks')
      PROVE  chunks'[i] = (Finished' - Len(chunks')) + i
  <2>1. i + 1 \in 1..Len(chunks)
    BY <1>1, InNumbers
  <2>2. chunks'[i] = (Finished - Len(chunks)) + (i + 1)
    BY <1>1, <1>2, <2>1
  <2> QED
    BY <1>1, <2>2, InNumbers
<1> QED
  BY <1>1, <1>3, <1>4

(* Every step keeps the channel the tail of what was captured. *)
LEMMA AudioStep == AudioInv /\ [AudioNext]_audioVars => AudioInv'
<1> SUFFICES ASSUME AudioInv, [AudioNext]_audioVars PROVE AudioInv'
  OBVIOUS
<1>1. CASE Capture
  BY <1>1, InNumbers DEF Capture, AudioInv, AudioTypeOK, Recent, Finished
<1>2. CASE SendChunk
  BY <1>2, TrySendKeeps DEF SendChunk
<1>3. CASE DropOldest
  <2>1. /\ callback = "evict" /\ callback' = "resend" /\ Finished' = Finished
        /\ UNCHANGED <<stream, captured, taken>>
    BY <1>3 DEF DropOldest, Finished
  <2>2. CASE chunks = <<>>
    <3>1. chunks' = chunks /\ Len(chunks) = 0
      BY <1>3, <2>2 DEF DropOldest
    <3> QED
      BY <2>1, <3>1, InNumbers DEF AudioInv, AudioTypeOK, Recent
  <2>3. CASE chunks # <<>>
    <3>1. chunks' = Tail(chunks)
      BY <1>3, <2>3 DEF DropOldest
    <3> QED
      BY <2>1, <2>3, <3>1, TailKeeps, InNumbers DEF AudioInv, AudioTypeOK, Recent
  <2> QED
    BY <2>2, <2>3
<1>4. CASE SendAgain
  BY <1>4, TrySendKeeps DEF SendAgain
<1>5. CASE TakeChunk
  <2>1. /\ chunks # <<>> /\ taken' = Head(chunks) /\ chunks' = Tail(chunks)
        /\ UNCHANGED <<stream, callback, captured>> /\ Finished' = Finished
    BY <1>5 DEF TakeChunk, Finished
  <2>2. /\ Len(chunks) > 0
        /\ taken' + Len(chunks') = Finished'
        /\ chunks' = <<>> => taken' = Finished'
    BY <2>1, TailKeeps, InNumbers
  <2>3. /\ chunks' \in Seq(ChunkNumbers) /\ Len(chunks') = Len(chunks) - 1
        /\ \A i \in 1..Len(chunks') : chunks'[i] = (Finished' - Len(chunks')) + i
        /\ taken' \in ChunkNumbers
    BY <2>1, TailKeeps
  <2>4. Len(chunks') <= Capacity /\ taken' \in 0..MaxChunks
    BY <2>3, InNumbers DEF AudioInv, AudioTypeOK, ChunkNumbers
  <2>5. AudioTypeOK'
    BY <2>1, <2>3, <2>4 DEF AudioInv, AudioTypeOK
  <2>6. callback' = "resend" => Len(chunks') < Capacity
    BY <2>1, <2>3, InNumbers DEF AudioInv, Recent
  <2>7. taken' + Len(chunks') <= Finished'
    BY <2>1, <2>2, InNumbers
  <2>8. Recent'
    BY <2>1, <2>2, <2>3, <2>6, <2>7 DEF AudioInv, Recent
  <2> QED
    BY <2>5, <2>8 DEF AudioInv
<1>6. CASE StopStream \/ StreamStopped
  <2>1. UNCHANGED <<callback, captured, chunks, taken>> /\ stream' \in {"stopping", "stopped"}
    BY <1>6 DEF StopStream, StreamStopped
  <2>2. AudioTypeOK'
    BY <2>1 DEF AudioInv, AudioTypeOK
  <2>3. Finished' = Finished
    BY <2>1 DEF Finished
  <2>4. Recent'
    BY <2>1, <2>3 DEF AudioInv, Recent
  <2> QED
    BY <2>2, <2>4 DEF AudioInv
<1>7. CASE UNCHANGED audioVars
  BY <1>7 DEF audioVars, AudioInv, AudioTypeOK, Recent, Finished
<1> QED
  BY <1>1, <1>2, <1>3, <1>4, <1>5, <1>6, <1>7 DEF AudioNext, CallbackStep

(* The invariant holds of the source by itself. *)
THEOREM AudioInvariance == AudioSpec => []AudioInv
BY AudioInitEstablishes, AudioStep, PTL DEF AudioSpec

(* The channel never holds more than its capacity. *)
THEOREM AudioTypeCorrect == AudioSpec => []AudioTypeOK
<1>1. AudioInv => AudioTypeOK
  BY DEF AudioInv
<1> QED
  BY AudioInvariance, <1>1, PTL

(* The latest chunk survives the dropping, whatever the listener reads     *)
(* between the callback's selects.                                         *)
THEOREM LatestSurvives == AudioSpec => []LatestIsKept
<1>1. AudioInv => LatestIsKept
  <2> SUFFICES ASSUME AudioInv, callback = "idle", captured > 0
               PROVE IF chunks = <<>> THEN taken = captured
                     ELSE chunks[Len(chunks)] = captured
    BY DEF LatestIsKept
  <2>1. CASE chunks = <<>>
    BY <2>1 DEF AudioInv, Recent, Finished
  <2>2. CASE chunks # <<>>
    <3>1. Len(chunks) \in 1..Len(chunks) /\ Finished = captured
      BY <2>2, InNumbers DEF Finished
    <3>2. chunks[Len(chunks)] = (Finished - Len(chunks)) + Len(chunks)
      BY <3>1 DEF AudioInv, Recent
    <3> QED
      BY <2>2, <3>1, <3>2, InNumbers
  <2> QED
    BY <2>1, <2>2
<1> QED
  BY AudioInvariance, <1>1, PTL

(* The channel implements a SampleSource: its listener gets chunks in      *)
(* order, none twice, and none older than the channel is long.             *)
THEOREM ChannelIsSampleSource == AudioSpec => ImplementsSampleSource
<1>1. AudioInit => Samples!Init
  BY DEF AudioInit, Samples!Init
<1>2. AudioInv /\ [AudioNext]_audioVars => [Samples!Next]_<<captured, taken>>
  <2> SUFFICES ASSUME AudioInv, AudioNext PROVE Samples!Next \/ UNCHANGED <<captured, taken>>
    BY DEF audioVars
  <2>1. CASE Capture
    BY <2>1 DEF Capture, Samples!Next, Samples!Capture
  <2>2. CASE CallbackStep \/ StopStream \/ StreamStopped
    BY <2>2 DEF CallbackStep, SendChunk, SendAgain, TrySend, DropOldest, StopStream,
                StreamStopped
  <2>3. CASE TakeChunk
    <3>1. /\ chunks # <<>> /\ taken' = Head(chunks) /\ UNCHANGED captured
          /\ Len(chunks) > 0 /\ Head(chunks) = chunks[1] /\ 1 \in 1..Len(chunks)
      BY <2>3, OneLess, InNumbers DEF TakeChunk
    <3>2. taken' = (Finished - Len(chunks)) + 1
      BY <3>1 DEF AudioInv, Recent
    <3>3. taken + Len(chunks) <= Finished /\ Len(chunks) <= Capacity
      BY DEF AudioInv, AudioTypeOK, Recent
    <3>4. Finished <= captured /\ captured <= Finished + 1
      BY InNumbers DEF Finished
    <3>5. /\ captured <= Head(chunks) + Capacity
          /\ Head(chunks) \in Int
          /\ taken + 1 <= Head(chunks) /\ Head(chunks) <= captured
      <4>1. /\ Finished \in Nat /\ Len(chunks) \in Nat /\ Capacity \in Nat
            /\ captured \in Nat /\ taken \in Nat
        BY InNumbers
      <4>2. Head(chunks) = (Finished - Len(chunks)) + 1
        BY <3>1, <3>2
      <4>3. Len(chunks) > 0
        BY <3>1
      <4> QED
        BY <3>3, <3>4, <4>1, <4>2, <4>3
    <3>6. Head(chunks) \in taken + 1 .. captured
      BY <3>5, InNumbers
    <3>7. Samples!Deliver
      BY <3>1, <3>5, <3>6 DEF Samples!Deliver
    <3> QED
      BY <3>7 DEF Samples!Next
  <2> QED
    BY <2>1, <2>2, <2>3 DEF AudioNext
<1> QED
  BY <1>1, <1>2, AudioInvariance, PTL DEF AudioSpec, ImplementsSampleSource, Samples!Spec

(* The agent with its microphone is an AgentRuntime and an AudioBuffer, so *)
(* what holds of either holds of the agent.                                *)
THEOREM AgentImplementsItsParts == AgentSpec => Spec /\ AudioSpec
<1>1. AgentInit => Init /\ AudioInit
  BY DEF AgentInit
<1>2. [AgentNext]_agentVars => [Next]_vars
  <2> SUFFICES ASSUME [AgentNext]_agentVars PROVE Next \/ UNCHANGED vars
    OBVIOUS
  <2> USE DEF Next, MainStep, ListenerStep, Listeners
  <2>1. CASE (Capture \/ CallbackStep) /\ UNCHANGED vars
    BY <2>1
  <2>2. CASE ReadChunk
    BY <2>2 DEF ReadChunk
  <2>3. CASE ReadInput
    BY <2>3 DEF ReadInput
  <2>4. ASSUME NEW l \in Listeners, AgentListener(l) PROVE Next
    BY <2>4 DEF AgentListener
  <2>5. CASE AgentMain
    BY <2>5 DEF AgentMain, CloseMicrophone, CloseInput
  <2>6. CASE (WriteOut \/ Signal) /\ UNCHANGED audioVars
    BY <2>6
  <2>7. CASE UNCHANGED agentVars
    BY <2>7 DEF agentVars
  <2> QED
    BY <2>1, <2>2, <2>3, <2>4, <2>5, <2>6, <2>7 DEF AgentNext
<1>3. [AgentNext]_agentVars => [AudioNext]_audioVars
  <2> SUFFICES ASSUME [AgentNext]_agentVars PROVE AudioNext \/ UNCHANGED audioVars
    OBVIOUS
  <2> USE DEF AudioNext
  <2>1. CASE (Capture \/ CallbackStep) /\ UNCHANGED vars
    BY <2>1
  <2>2. CASE ReadChunk \/ ReadInput
    BY <2>2 DEF ReadChunk, ReadInput
  <2>3. ASSUME NEW l \in Listeners, AgentListener(l) PROVE UNCHANGED audioVars
    BY <2>3 DEF AgentListener
  <2>4. CASE AgentMain
    BY <2>4 DEF AgentMain, CloseMicrophone, CloseInput
  <2>5. CASE (WriteOut \/ Signal) /\ UNCHANGED audioVars
    BY <2>5
  <2>6. CASE UNCHANGED agentVars
    BY <2>6 DEF agentVars
  <2> QED
    BY <2>1, <2>2, <2>3, <2>4, <2>5, <2>6 DEF AgentNext
<1> QED
  BY <1>1, <1>2, <1>3, PTL DEF AgentSpec, Spec, AudioSpec

(* Nothing a listener published is left behind when the agent with its     *)
(* microphone exits, neither goroutine ever blocks on its result, and nil  *)
(* or a listener's own failure is what RunListeners returns: closing the   *)
(* stream under a callback at work changes none of it.                     *)
THEOREM AgentShutsDownClean ==
    AgentSpec => /\ []NothingLeftBehind
                 /\ []SendNeverBlocks
                 /\ []NilOnlyOnShutdown
                 /\ []ReportsGenuineErrors
BY AgentImplementsItsParts, FlushIsLast, ResultsFit, NilMeansShutdown, CausesAreGenuine, PTL

(* The listener of the agent gets its chunks in order and the latest of    *)
(* them in the end, also while RunListeners closes the stream.             *)
THEOREM AgentKeepsLatest == AgentSpec => []LatestIsKept /\ ImplementsSampleSource
BY AgentImplementsItsParts, LatestSurvives, ChannelIsSampleSource, PTL
================================================================================

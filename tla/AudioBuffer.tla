------------------------------ MODULE AudioBuffer ------------------------------
(***************************************************************************)
(* The buffer between PortAudio's callback and the microphone listener     *)
(* (internal/listeners/microphone/portaudio.go).  The callback runs on a   *)
(* thread of PortAudio's and must not block: it sends a chunk if there is  *)
(* room, and otherwise receives the oldest one and sends again.  These are *)
(* three selects, and the listener may read between any two of them.       *)
(*                                                                         *)
(* Chunks are numbered as they are captured.  Names begin with Audio where *)
(* RecordingAgent needs them next to those of AgentRuntime.                *)
(***************************************************************************)
EXTENDS Naturals, Sequences

CONSTANTS Capacity,  \* audioBufferCapacity, 4 in the code
          MaxChunks  \* bound on the chunks captured

ASSUME AudioBufferAssumption ==
    /\ Capacity \in Nat \ {0}
    /\ MaxChunks \in Nat

VARIABLES stream,    \* what PortAudio does with the stream
          callback,  \* the select the callback is at
          captured,  \* number of the latest chunk the callback was given
          chunks,    \* the channel
          taken      \* number of the chunk Read returned last

ChunkNumbers == 1..MaxChunks

audioVars == <<stream, callback, captured, chunks, taken>>

AudioTypeOK ==
    /\ stream \in {"running", "stopping", "stopped"}
    /\ callback \in {"idle", "send", "evict", "resend"}
    /\ captured \in 0..MaxChunks
    /\ chunks \in Seq(ChunkNumbers) /\ Len(chunks) <= Capacity
    /\ taken \in 0..MaxChunks

(* NewPortAudioSource has made the channel and started the stream.         *)
AudioInit ==
    /\ stream = "running"
    /\ callback = "idle"
    /\ captured = 0
    /\ chunks = <<>>
    /\ taken = 0

--------------------------------------------------------------------------------
(* The callback *)

(* PortAudio has samples; it makes one call at a time. *)
Capture ==
    /\ stream = "running"
    /\ callback = "idle"
    /\ captured < MaxChunks
    /\ captured' = captured + 1
    /\ callback' = "send"
    /\ UNCHANGED <<stream, chunks, taken>>

(* A select with a send and a default: the chunk in hand is the latest.    *)
TrySend(from, otherwise) ==
    /\ callback = from
    /\ IF Len(chunks) < Capacity
         THEN /\ chunks' = Append(chunks, captured)
              /\ callback' = "idle"
         ELSE /\ callback' = otherwise
              /\ UNCHANGED chunks
    /\ UNCHANGED <<stream, captured, taken>>

(* Mutant: there is no look at the room.                                   *)
SendChunkUnbounded ==
    /\ callback = "send"
    /\ chunks' = Append(chunks, captured)
    /\ callback' = "idle"
    /\ UNCHANGED <<stream, captured, taken>>

(* Mutant: the callback waits for room. *)
SendChunkBlocking ==
    /\ callback = "send"
    /\ Len(chunks) < Capacity
    /\ chunks' = Append(chunks, captured)
    /\ callback' = "idle"
    /\ UNCHANGED <<stream, captured, taken>>

(* Mutant: a full channel drops the chunk in hand. *)
SendChunkOrDrop == TrySend("send", "idle")

SendChunk == TrySend("send", "evict")

(* A select with a receive and a default: the oldest chunk goes, unless    *)
(* the listener has emptied the channel meanwhile.                         *)
DropOldest ==
    /\ callback = "evict"
    /\ chunks' = IF chunks = <<>> THEN <<>> ELSE Tail(chunks)
    /\ callback' = "resend"
    /\ UNCHANGED <<stream, captured, taken>>

SendAgain == TrySend("resend", "idle")

CallbackStep == SendChunk \/ DropOldest \/ SendAgain

--------------------------------------------------------------------------------
(* PortAudioSource *)

(* The case of Read's select that is not the context's. *)
TakeChunk ==
    /\ chunks # <<>>
    /\ taken' = Head(chunks)
    /\ chunks' = Tail(chunks)
    /\ UNCHANGED <<stream, callback, captured>>

(* Close asks PortAudio to stop and waits for the callback to return.      *)
(* The channel stays open, with the chunks it holds.                       *)
StopStream ==
    /\ stream = "running"
    /\ stream' = "stopping"
    /\ UNCHANGED <<callback, captured, chunks, taken>>

StreamStopped ==
    /\ stream = "stopping"
    /\ callback = "idle"
    /\ stream' = "stopped"
    /\ UNCHANGED <<callback, captured, chunks, taken>>

AudioNext == Capture \/ CallbackStep \/ TakeChunk \/ StopStream \/ StreamStopped

AudioSpec == AudioInit /\ [][AudioNext]_audioVars

--------------------------------------------------------------------------------
(* Properties *)

(* Dropping the oldest chunk never costs the latest one: when the callback *)
(* returns, its chunk is the last in the channel or has been read already, *)
(* although the listener reads between the callback's three selects.       *)
LatestIsKept ==
    callback = "idle" /\ captured > 0 =>
        IF chunks = <<>> THEN taken = captured ELSE chunks[Len(chunks)] = captured

(* The listener gets chunks in order, none twice, and none that is older   *)
(* than the channel is long, however far it falls behind.                  *)
Samples == INSTANCE SampleSource WITH Window <- Capacity
ImplementsSampleSource == Samples!Spec

--------------------------------------------------------------------------------
(* Inductive invariant *)

(* The last chunk the callback has finished with. *)
Finished == IF callback = "idle" THEN captured ELSE captured - 1

(* The channel holds the latest chunks without a gap; the gaps are between *)
(* it and what was read.  Only a full channel makes the callback evict.    *)
Recent ==
    /\ callback # "idle" => captured > 0
    /\ \A i \in 1..Len(chunks) : chunks[i] = (Finished - Len(chunks)) + i
    /\ chunks = <<>> /\ callback # "resend" => taken = Finished
    /\ taken + Len(chunks) <= Finished
    /\ callback = "resend" => Len(chunks) < Capacity

AudioInv == AudioTypeOK /\ Recent
================================================================================

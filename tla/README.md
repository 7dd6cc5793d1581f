# VoidCut in TLA+

Models of VoidCut's recording agent and of the services behind it, checked with
TLC, and theorems about all of them, proved with TLAPS. Paths are those
of the repository; line numbers of every definition are in `PROJECT.json`
(`map`).

## The system

A recording agent (`cmd/agent`) runs on the user's machine. It loads or obtains
credentials, opens the microphone and a keyboard/mouse hook, and publishes an
envelope per event on the NATS subject `activity.events.v1`. JetStream stores
the events; persistors of the activity service work them off a durable pull
consumer into the `activity_events` table, or into a dead-letter stream. The
gateway offers the device login to the agent over a Redis key. The video service
stores uploaded videos and a row per video in `jobs`, which workers advance.

| Component | State | Operations | Talks to |
|---|---|---|---|
| Persistor and consumer (`messaging/nats/persistor.go`, `jetstream.go`) | consumer position and delivery count of each message, the message a loop holds | Fetch, Insert, dead-letter Publish, Ack, Nak | JetStream, Postgres |
| Activity repository (`repository/postgres/activity.go`, migration 001) | rows by `event_id` | Insert, ListBySession | persistor |
| Activity events (`events/activity.go`, `schema/contracts.go`) | none: envelopes and their ids | NewKeyboardEvent, NewMouseEvent, NewMicrophoneEvent | listeners, publisher, repository |
| Device login service (`auth/device_login.go`, `gateway/device_handlers.go`) | one Redis key per login, with a TTL | Start, Approve, Token | client, users, Redis |
| Device login client (`auth/device.go`) | deadline, ticker, last answer | Start, Poll, pollOnce | gateway |
| Listener runtime and shutdown (`agent/listeners.go`, `shutdown.go`) | run context, channel of results, counters, open sources | RunListeners, GracefulShutdown | listeners, publisher, OS signals |
| Microphone and input listeners (`listeners/...`) | a source and a channel each | Run, Read, Close | runtime, publisher, hardware |
| NATS publisher (`messaging/nats/publisher.go`) | buffer of the connection | PublishActivity, Flush, Close | agent, JetStream |
| Start-up and credentials (`cmd/agent/main.go`, `auth/credentials.go`) | the credentials file, `main`'s variable | LoadFrom, SaveTo, Validate | file system, login, runtime |
| Video service (`cmd/video`, `services/video/...`) | files, rows, where each upload is, whether the server takes requests | Upload, Put, Delete, Shutdown | clients, jobs repository |
| Jobs repository (`repository/postgres/jobs.go`, `events/jobs.go`) | state of each row | Create, GetByID, UpdateState, CanTransition | video service, workers |
| JetStream set-up (`cmd/jetstream-setup`, `jetstream.go`) | the streams and the consumer | ConfigureJetStream, ensureStream, ensureConsumer | JetStream |
| Foundation check (`cmd/foundation-check`, `verification/`) | the types it has seen, its subscription's queue, its context | nextMessage, ValidateActivityEvent | NATS, agents |
| Gateway server (`cmd/gateway`, `gateway.go`, `middleware.go`) | whether its process runs | Start, Stop, routing | client, users, Redis |
| Configuration, logging, browser, ids, empty services | none of their own | input and output | |

### What is hard in it, and what makes each part correct

- **Persistor.** Between any two of its calls a process may die, AckWait may
  expire and another persistor may take the message; the results of Ack, Nak
  and of the dead-letter publish are thrown away. Correct: nothing is
  acknowledged unrecorded; no event runs out of deliveries before the loop
  dead-letters it (two limits in two files); nothing is dead-lettered early, nor
  a stored event dead-lettered unless a delivery was lost or its Insert wrote the
  row and returned an error; every event is settled in the end.
- **Device login.** Approve checks with one Redis command and writes with
  another; keys expire meanwhile; two deadlines, a ticker and a key lifetime
  have to fit. Correct: the agent gets the user and token of one granted
  approval, also when the gateway stops in the middle; a granted code is not
  granted again; the login ends; an approval in time is noticed.
- **Agent runtime.** Two goroutines, a signal, two contexts, a channel of
  results nobody may be reading, sources closed under a reader, a flush that
  has to be last. Correct: shutdown never blocks; nothing is published after
  the flush; a failure of one listener ends the agent and is the error reported.
- **Microphone buffer.** A callback that must not block makes room in a full
  channel with three selects, between which the listener reads; the shutdown
  waits for it. Correct: old chunks are dropped, never the latest; chunks stay in
  order; the callback never holds up the shutdown.
- **Pipeline.** Events travel through a buffer with no acknowledgement; the
  streams are made by a command that may fail half-way, and a persistor can start
  before it is done. Correct: what is in flight is settled in the end; after a
  complete set-up no dead letter lacks its stream.
- **Foundation check.** Messages arrive while it waits, at the end of a wait, after
  its timeout; the connection may break. Correct: it passes on evidence only,
  passes over nothing that reached it (each valid event is counted or still in
  its queue), and ends once messages stop.
- **Start-up.** The file survives a crash, half written or not; stored
  credentials expire. Correct: events carry the user whose credentials are
  stored; a login is used; an agent that can stream does so in the end.
- **Video and jobs.** A file and a row in two stores with compensation; replies
  get lost; a crash or the shutdown cuts uploads off; workers act on a row they
  read before. Correct: both or neither; no crash or shutdown
  leaves a job without its video; a confirmed video is whole; transitions follow
  the lifecycle and are made once. An Insert that wrote its row and returned an
  error breaks the first two, and the properties say so.

## Modules

| Module | Role |
|---|---|
| `EventIntake` | what the activity service promises: record, then release |
| `Persistor` | the fetch loop, several of it, on JetStream and the table |
| `EventJourney` | what becomes of each event an agent publishes: where it can end and how it can be lost |
| `ActivityPipeline` | `Persistor` with the set-up of the streams and an agent's publisher |
| `DeviceLogin` | client, gateway process, handlers and service of one login |
| `AgentRuntime` | RunListeners, both listeners, publisher, GracefulShutdown |
| `SampleSource` | what the microphone listener may count on |
| `AudioBuffer` | the PortAudio callback and its channel |
| `RecordingAgent` | `AgentRuntime` and `AudioBuffer` composed |
| `AgentStartup` | successive runs of `main` over the credentials file |
| `JobLifecycle` | what the `jobs` table promises about each job |
| `VideoJobs` | the service's process, its uploads, the object store and the jobs repository |
| `FoundationCheck` | the command, its subscription and the agents it listens to |
| `PersistorProofs`, `ActivityPipelineProofs`, `DeviceLoginProofs`, `AgentRuntimeProofs`, `RecordingAgentProofs`, `AgentStartupProofs`, `VideoJobsProofs`, `FoundationCheckProofs` | theorems about these components |
| `MCPersistor`, `MCActivityPipeline`, `MCDeviceLogin`, `MCVideoJobs` | values and symmetry for TLC |

`RecordingAgent`, `AgentStartup` and `FoundationCheck` need no structured
constants, so their configurations instantiate them directly. `AgentStartup` takes
the login and the streaming as single steps; `DeviceLogin` and `RecordingAgent`
open them up. `ActivityPipeline` begins where `RecordingAgent` ends, at the
publisher's buffer.

### Persistor

`consumer[e]` is JetStream's view of message `e`: not published, ready for
delivery, pending (delivered and waiting for an acknowledgement), acked, or
exhausted (MaxDeliver deliveries without one). `delivered[e]` is the server's
count and `num[p]` the NumDelivered in the metadata of the delivery persistor
`p` holds: an older one once AckWait has expired. `pc[p]` names the call the
loop makes next. Every call on another process is one action, with the local
branching after it: `Fetch` includes `json.Unmarshal`, `InsertFails` the choice
between `Nak` and the dead letter. `Insertable` is the repository's validation
and the primary key on `event_id`. A dead-letter publish that fails puts the
event in the history variable `dropped`. An Insert that writes the row and yet
returns an error puts it in `unsure`: from there the loop gives the event back,
every further Insert fails on the primary key, and the event ends as a dead
letter too. `num[p]` is reset with the Ack or Nak, after which the code has no
use for the message.

The fault kinds in `Faults` say what may go wrong: `crash`, `slow` (AckWait runs
out while a persistor still works), `ack` (an Ack or Nak is lost), `dlq`, `db`,
`reply` (the row is committed, the caller gets an error), `fetch`, `cancel` (the
context of `Start` is cancelled; Insert runs under it, so a call that is cut off
fails, with or without its row).
Every property's precondition names the kinds it cannot bear.

External, modelled from the way the code uses it: the pull consumer with
explicit acknowledgement and MaxDeliver, and the primary key of Postgres.

### ActivityPipeline

`resources` says which of the activity stream, the dead-letter stream and the
consumer exist, and `setup` which call `ConfigureJetStream` makes next. `Ensure`
is one call: it may fail, with or without having created the resource, which
ends the run of the set-up; another may follow. `StartPersistor` is
`NewPersistor` and `PullSubscribe`, which need the activity stream only and make
the consumer if there is none; `first` remembers which came first, a complete
set-up or a persistor. `PublishActivity` puts an event in the connection's
buffer (`outbox`); `WriteOut` brings it to the server, where it vanishes if
there is no stream. `FlushAndClose` is the end of GracefulShutdown; `LoseAgent`
is a crash, or a flush that gives up. `Stage` says how far an event is and maps
the pipeline to `EventJourney`: new, buffered, queued, and then recorded (a row
or a dead letter), dropped (its dead letter could not be published) or gone. A
dead-letter publish fails while its stream is missing. All of `Persistor` runs
behind that: every behaviour of the pipeline is one of `Persistor` (proved),
with `Publish` taken by the agent or by others.

### DeviceLogin

`login` is the value of the Redis key cut at its colons, as `splitColon` does,
and `ttl` its lifetime in ticks. `CheckPending` and `SetApproved` are the GET
and the SET of Approve, with anything between them. Each may fail, and an
approval counts as granted once its SET has taken effect, even if nobody is
told. `AnswerPoll` is Token with its handler, whose GET may fail too;
`BeginPoll`, `Receive`, `PollAgain`, `PollExpires`, `RequestFails` and
`Cancelled` are Start and Poll of the client. An answer is its HTTP code and the
status field of its body ("none" where there is none), and `AfterReply` is what
Poll makes of it: only the code 200 with "pending" lets it go on, and an
approved answer with a blank token, which comes from a user_id that ends in a
colon, is an error. `Tick` moves the key's lifetime, the deadline and the
ticker, whose channel holds one tick. `GatewayStarts` and `GatewayStops` are the
two ends of `main` in `cmd/gateway`: `Stop` does nothing, so an approval that
has passed its check loses its SET and a poll its answer, while the key lives on
in Redis.

`env` is the environment of the login, chosen at the start and kept: the answers
a poll may get before the approval (the gateway's is 400 with no status field,
that of the client's tests 200 with a status), whether the agent is prompt
(time stands still while it has something to do), and the faults (`hang`, `net`,
`redis`, `stop`, `cancel`). One run so covers a login in which everything goes
wrong and one in which nothing does.

### AgentRuntime

`pc` takes `main` through the select loop, the two Close calls, the Wait, the flush
and Close. Each listener is created, reads, handles, sends its one result and
returns. `done` holds the contexts that are done: `ctx` after the signal,
`runContext` after a cancel in RunListeners; either ends the run (`RunDone`).
`buffered` and `sent` are the events in the connection's buffer and at the
server. The drain loop after the Wait has no iteration in the code (its counter
is 2 when it is reached), so `Wait` does nothing but wait.

### AudioBuffer, SampleSource and RecordingAgent

Chunks are numbered as they are captured. `callback` is the select the callback
is at: `SendChunk`, and if the channel is full `DropOldest` and `SendAgain`.
`TakeChunk` is the case of `Read` that the listener gets a chunk from, between any
two of them. `StopStream` and `StreamStopped` are `Close`, which waits for the
callback. `SampleSource` has no channel: a listener gets chunks in order, some
missing, none older than `Window`. `RecordingAgent` joins this to `AgentRuntime`:
the microphone listener reads by `TakeChunk`, silent chunks lead to no event, and
the main goroutine's closing of the microphone takes the two steps of `Close`.

### FoundationCheck

`pc` takes `main` through connecting and subscribing into its loop: `polling`
before a call of `NextMsg`, `waiting` in its 250 ms. `queue` is the subscription's
pending messages, `slow` the error it reports once after dropping some, unless the
next message that fits clears it, `interest`
whether the server knows of the subscription. `Take` is the whole iteration with
a message, `ValidateActivityEvent` included; `NextMsgTimesOut` and `NextMsgRefuses`
are the two ways to an error, after which alone the context is looked at. A
message is its type and its flaw, if any. `arrived` is a history variable.

External, from the way the code uses it: delivery by core NATS, the queue's limit,
ErrSlowConsumer, reconnecting and giving up.

### AgentStartup

`file` is absent, torn (truncated and not written), valid or expired. `user` is
the variable `credentials` of `main`, `approved` the user of this run's login,
which the code keeps in a second variable of that name.

### VideoJobs

`CreateFile`, `Copy`, `CopyFails`, `InsertJob`, `InsertFails`, `Cleanup` are the
steps of Upload with LocalObjectStore.Put and Delete. A worker reads a row
(`GetByID`) and later calls `UpdateState` with what it saw. `Copied` and
`Remaining` are an `io.LimitedReader`: it stops at the limit, and the size
checks look for a remainder below zero. `AcceptRequest` and `RefuseRequest` are
the handler before and at its form checks. `server` is serving or draining:
`Signal` is the start of `Shutdown`, `Exit` its end, with all requests done or
after ten seconds, and `Crash` an end without it. `CutOff` is what both do to
uploads at work: they stop where they are, and an INSERT that is under way may
be committed. Create runs under the request's context: a client that goes away
(`client`) can make it return an error with or without its row, as a lost reply
(`reply`) does with one. `JobLifecycle` lets several jobs move in one step for
that reason. The history variables are `granted`, `repeated` (transitions told
to two workers) and `unsure` (uploads whose reply or cleanup was lost).

## Runs

| Run | Shows |
|---|---|
| `persistor_faults` | Two persistors, two events with the same `event_id`, all faults: TypeOK, AckedIsKept, DeadLetterIsLastResort, and RefinesIntake (the detailed model implements `EventIntake`) |
| `activity_pipeline` | An agent, a set-up that fails anywhere and is repeated, two persistors, one event of the agent and a malformed one from elsewhere, faults that neither lose nor repeat a delivery: NoneExhausted, NoneStranded, StoredOrDeadLettered, SetupCoversDeadLetters, EverySettled, and RefinesJourney (the pipeline implements `EventJourney`) |
| `persistor_same_id` | Violation of EventsAreStored, with no fault at all: finding 1 |
| `device_faults` | Three overlapping approvals, of which one user_id has a colon and another ends in one; every fault, with any answer to a pending login, the gateway stopping and coming back included, or none with a prompt agent and the answer the client expects: TypeOK, TokenIsIssued, ApprovalAwaitsPoll, LaterApprovalsRefused, LoginEnds, ApprovalLogsIn |
| `device_two_approvals` | Violation of ApprovalIsFinal: finding 2 |
| `device_pending` | Violation of PollWaitsForApproval: finding 3 |
| `agent_runtime` | `RecordingAgent`: both listeners, the callback, all faults, the signal at any point: TypeOK, AudioTypeOK, NothingLeftBehind, SendNeverBlocks, NilOnlyOnShutdown, ReportsGenuineErrors, LatestIsKept, SignalEndsAgent, FailureEndsAgent, and ImplementsSampleSource (the channel implements `SampleSource`) |
| `foundation_check` | Any messages at any time, breaking connections, a timeout at any time: TypeOK, PassesOnEvidence, NothingOverlooked, EndsOnceQuiet |
| `agent_startup` | Runs that crash or fail anywhere, two users, expiring credentials: TypeOK, NoStaleUser, ValidCredentialsSurvive, StreamsInTheEnd |
| `agent_first_login` | Violation of LoginIsUsed: finding 4 |
| `video_jobs` | Two uploads at and over the limit, two workers, all faults, crashes and shutdowns: TypeOK, VideoIffJob, JobHasVideo, ConfirmedIsWhole, GrantedOnce, FollowsLifecycle |
| `video_oversize` | Violation of OversizeIsRefused: finding 5 |

### Bounds, and why they are enough

- `persistor_faults`: MaxDeliver 3 with DeadLetterAt 2 leaves deliveries before,
  at and after the threshold (the code has 5 and 5). Two persistors can hold
  two deliveries of one message; two events of one id collide in the table.
  Persistors are symmetric; events are not, as the ids tell them apart.
- `activity_pipeline`: MaxDeliver = DeadLetterAt = 2, equal as in the code, where
  one off is seen at once. The agent's event can only be stored, the other one
  only be dead-lettered, and failing inserts can exchange the two ends of the
  first. No symmetry, because liveness is checked.
- `device_*`: Interval 2 and ExpiresIn 4 or 6 give two or three polls;
  ApprovedTTL 3 is more than an interval and less than the deadline, as in the
  code (5 s, 300 s, 600 s), and PendingTTL equals ExpiresIn, as there. Three
  approvals: two that overlap and one that comes after them.
- `agent_runtime`: MaxEvents 2 per source, so one event may be out while the
  next is being handled; ResultsCap 2 is the code's value. Capacity 2 and
  MaxChunks 4 (the code: 4, and no bound) fill the channel, overflow it twice and
  leave a chunk on either side of one that is dropped.
- `foundation_check`: PendingLimit 2, so a message can wait behind another and a
  third one be dropped. Messages are not bounded in number: the queue is.
- `agent_startup`: MaxExpiry 2 expiries, two users, so the user can change twice.
- `video_jobs`: MaxSize 1 and sizes 1 and 2: at the limit and over it; two workers
  can hold the same stale row, and are symmetric; two uploads can be cut off in
  different stages.

Finding runs have the fewest processes that show the matter.

### Deadlock

It is checked where the system never stops (`persistor_*`, `activity_pipeline`,
`agent_startup`, `agent_first_login`). The agent of `agent_runtime` and the
command of `foundation_check` exit, a login of `device_*` ends and the uploads and
jobs of `video_*` come to their ends, so those runs do not check it.

### Fairness

- `ActivityPipeline`: a persistor's loop that runs takes its next step, as Go
  runs a goroutine that can go on and Fetch, Insert and the rest have time
  limits or answers; the NATS client of an agent that lives writes its buffer
  out. Nothing makes anyone run the set-up, or start or restart a persistor:
  EverySettled assumes that one of them stays up.
- `DeviceLogin`: the agent's timers and local steps, and the clock. The gateway
  answers unless `hang` is among the faults. Nobody has to approve.
- `RecordingAgent`: weak fairness of `main`'s and of each listener's own steps, of
  a callback that PortAudio has called, and of the listener's reading of a chunk
  that is there. `ReadCancelled` is strongly fair: a select takes a ready case at
  random, so one whose context is done is not passed over for ever while events
  keep coming. Sources need not supply or fail, and PortAudio need not capture.
- `FoundationCheck`: `main` goes on, a wait for a message ends after its 250 ms,
  and the timeout passes. EndsOnceQuiet assumes that messages stop, or that the
  connection is given up: with steady traffic of invalid events the code never
  looks at its context.
- `AgentStartup`: `main` goes on, users log in and produce input, and somebody
  launches the agent again; StreamsInTheEnd assumes besides that failures stop.
- `VideoJobs` states safety only.

## Findings

1. `persistor_same_id`: the `event_id` holds the run's trace id and the kind of
   event (`internal/events/activity.go:57`). All events of one kind in a run
   share it; every one after the first fails on the primary key and ends as a
   dead letter. README.md:31-32 says that every event is streamed to the log.
2. `device_two_approvals`: "Only proceed if status is pending"
   (`device_login.go:105`), yet overlapping approvals both pass the GET, and the
   second SET replaces the first one's user and token.
3. `device_pending`: "Poll waits for device approval" (`device.go:90`), but the
   gateway answers a pending login with 400 (`device_handlers.go:94-98`), which
   ends the login at the first poll. Its body has no status field either, so a
   200 alone would not do: Poll would end on an unknown status (`device.go:141`).
4. `agent_first_login`: `credentials, saveErr :=` (`cmd/agent/main.go:69`)
   declares a new variable; the run that logs in streams under no user, and its
   first event ends it.
5. `video_oversize`: "Verify that we didn't exceed the size limit"
   (`service.go:92`) tests N < 0, which a LimitedReader never reaches: a video
   over 500 MB is cut off and accepted.

The models also state, in the preconditions of properties that hold, what the
code does not do: an event whose dead-letter publish fails is acknowledged and
gone (`dropped`); a stored event that is delivered again ends as a dead letter
too, and so does one whose Insert wrote the row but returned an error, for which
a shutdown at the wrong moment is enough (StoredOrDeadLettered); an upload whose
Create wrote the row but returned an error has its file deleted, so that its job
has no video (JobHasVideo); a torn credentials file is never replaced
(StreamsInTheEnd); a user_id with a colon is read wrongly (TokenIsIssued), and
one that ends in a colon cannot log in (ApprovalLogsIn); the request that starts
a login has no deadline (LoginEnds); a listener's error that races the signal is
lost (NilOnlyOnShutdown); the foundation check outlives its `-timeout` under
steady traffic (EndsOnceQuiet); an event published before the stream exists is
gone, and so is a dead letter of a persistor that is started before the set-up
(EverySettled, SetupCoversDeadLetters); files of uploads that were cut off stay
behind (VideoIffJob); a stopping gateway cuts its requests off, although `Stop`
"performs a graceful shutdown" (`gateway.go:84`, LoginEnds holds all the same).

## What is proved

Eight modules of proofs hold for every value of the constants that meets the
component's named assumption (`PersistorAssumption`, ...): any numbers of
events, persistors, approvals, uploads and workers, any limits and times, and
every set of faults, apart from what is said below. Each proves an inductive
invariant from `Init` and one step per action, and takes the properties from it.
TLC checked every one of these invariants first, on the instances above.

Every safety invariant and action property that a passing run checks is the
subject of a theorem.

- `PersistorProofs`: TypeCorrect, AcknowledgedIsKept, DeadLetterComesLast,
  DeliveriesSuffice, FetchedIsHeld, OnePlaceOfRecord, OwnIDsAreStored and
  ImplementsIntake, from `SettledInv`.
  - AckedIsKept alone is not inductive: `Ack` could come out of nowhere.
    `Custody` adds that what a persistor is about to acknowledge is kept, that a
    message on its way to the dead-letter stream is malformed or has had its
    deliveries, and that a message on offer has a delivery left.
  - NoneExhausted holds only while deliveries are not lost (`Calm`). `Exclusive`
    says why: a pending message then is in the hands of exactly one persistor,
    which has its latest delivery, so the loop's count is the server's, and a
    Nak is sent below the threshold only. The assumption DeadLetterAt <=
    MaxDeliver does the rest. FetchedIsHeld (NoneStranded) is the other half: no
    pending message is left to AckWait.
  - OwnIDsAreStored bounds finding 1: with an id of its own per event, and no
    fault, every storable event is in the table before it is acknowledged.
    `StorageInv` adds `RefusedForGood`: an Insert is refused only for events that
    are malformed or rejected.
  - StoredOrDeadLettered needs `Settled` besides: a recorded message is
    acknowledged or about to be, so nobody tries it again, unless it is `unsure`.
    The theorem holds with every fault that neither loses nor repeats a
    delivery, a lost reply and a shutdown among them, and says that those two make
    the only exceptions.
  - ImplementsIntake: every step is one of `EventIntake` or leaves its variables
    alone; that a released event was kept is `Custody`.
- `ActivityPipelineProofs`: PipelineIsPersistors says that every step of the
  pipeline is one of `Persistor` or leaves its variables alone, so that its
  theorems carry over: PipelineDeliveriesSuffice, PipelineOnePlace. SetupCovers
  follows from `SetupInv`: the set-up makes its calls in order and nothing that
  exists is removed, so a set-up that returns without an error has found or made
  the dead-letter stream, unless a persistor has been started before it.
  PipelineFetchedIsHeld carries FetchedIsHeld over.
  `PipelineAssumption` leaves out faults that lose or repeat deliveries.
  - ImplementsJourney: every step of the agent, the server, the set-up and the
    persistors is a step of `EventJourney` or a stutter, so an event has one
    end, which nothing undoes, and is lost without a trace only with the agent or
    before the stream exists. `JourneyInv` adds that what has not left the
    agent is not in the stream (`Unsent`) and that an event whose dead letter was
    dropped is not delivered again (`DroppedSettled`); the second needs `Exclusive`
    of the persistors, as a second delivery could still store the event.
- `DeviceLoginProofs`: TypeCorrect, GenuineToken, GrantsOnce, ApprovalIsRead,
  PatientWithPending, NothingElseWaits and FinalOneAtATime. The first three come
  from `KeyOK` (the key holds a pending login or the value of a granted
  approval, and is never pending again once one is granted) and `ReplyOK` (a
  token in an answer was read from such a value). ApprovedParts says where the
  parts of the colon-separated value lie.
  - ApprovalIsRead proves the timing: with an approved key that outlives the
    interval, a prompt agent and no faults, the key is there at the next poll. `TimeOK`
    relates the key's lifetime to the ticks that are left until that poll.
  - PatientWithPending and NothingElseWaits bound finding 3 from both sides: with
    the code 200 and the status "pending" for a pending login Poll, where nothing
    fails, waits as it says (`PatientOK`), and while no answer has both the agent
    never waits at all (`ImpatientOK`). FinalOneAtATime bounds finding 2: under every
    fault a granted approval is final where approvals do not overlap (`NoneOverlaps`).
- `AgentRuntimeProofs`: TypeCorrect, FlushIsLast, NilMeansShutdown,
  CausesAreGenuine and ResultsFit, from `Quiet` (past the Wait both goroutines
  are done), `OneResultEach` (while a listener has not returned, the channel
  holds the other one's result at most) and `Genuine` (before the signal or a
  first error only a failure has stopped a listener and nothing has been
  received; no source is closed while RunListeners receives).
- `RecordingAgentProofs`: AudioInvariance, AudioTypeCorrect, LatestSurvives,
  ChannelIsSampleSource, AgentImplementsItsParts, AgentShutsDownClean and
  AgentKeepsLatest. `Recent` says that the channel
  holds the chunks up to the last one the callback has finished with, without a
  gap, and that the callback, having made room, finds it: only the listener takes
  chunks meanwhile. AgentImplementsItsParts makes the theorems of the runtime
  and of the buffer theorems about the composed agent (the last two): each step of it
  is a step of one, of both, or of neither.
- `AgentStartupProofs`: TypeCorrect, StoredUserStreams, ValidIsSafe and
  LoginRunPublishesNothing. The invariant adds that `main` knows no user where it
  may replace the file, comes there only without a valid one, and saves the user
  who approved. LoginRunPublishesNothing is finding 4 in general: no run that
  performs a login publishes an event (`LoginUnused`).
- `FoundationCheckProofs`: TypeCorrect, VerdictHasEvidence and NoneIsPassedOver;
  the invariant adds that what waits in the queue has arrived.
- `VideoJobsProofs`: TypeCorrect, FileAndRow, RowsHaveVideos,
  WholeWhenConfirmed, LimitOnlyCuts, OneWorkerPerTransition and
  ImplementsLifecycle, from `Stages` (what each step of an upload says of file
  and row) and `Progress` (a job is past every state it left, for the lifecycle
  has no cycle, so a stale WHERE clause matches nothing). RowsHaveVideos covers
  every upload: a job lacks its video only if the upload failed after Create had
  written the row and returned an error (`unsure`). LimitOnlyCuts is finding 5
  in general: for every limit and size, a video over the limit is cut there and,
  but for faults, not refused (`NoneRefused`).

Only model-checked: the liveness properties (EverySettled, LoginEnds,
ApprovalLogsIn, SignalEndsAgent, FailureEndsAgent, EndsOnceQuiet,
StreamsInTheEnd), as fairness
and ENABLED are beyond the prover, and the five findings, which are
counterexamples. Induction over data is beyond it too; no model needs it, since
none has a recursive definition.

## Not modelled

- ListBySession, payloads, RMS and key names: reads and data.
- Routing, CORS and request logging of the gateway, health checks, configuration,
  logging, the browser and random ids: no state, or input and output alone. The
  empty services have no code.
- Ages in JetStream (MaxAge of the streams): a week without any persistor.
- A video service or gateway that cannot open its port: the one logs the error
  and waits for a signal, the other exits.

## Plan

Done, in order of importance: `Persistor` with `EventIntake`; `DeviceLogin`,
`AgentRuntime`, `AgentStartup`, `VideoJobs` with `JobLifecycle`; the microphone's
buffer and its composition with the runtime; the foundation check; the pipeline
from the agent to the table; the processes of the video service and of the
gateway; the proofs of all of these; the journey of an event from end to end; and
the theorems that say how far the findings reach.

What could follow: MaxAge in `Persistor`, with NoneExhausted and EverySettled for
events that are young enough; faults that
repeat deliveries in the pipeline, with the default limits of a consumer that a
persistor created.

------------------------------- MODULE VideoJobs -------------------------------
(***************************************************************************)
(* The video service (internal/services/video): uploads that store a video *)
(* in the LocalObjectStore and then create a job row, and the jobs         *)
(* repository (internal/repository/postgres/jobs.go), whose UpdateState    *)
(* workers use to advance a job through its lifecycle                      *)
(* (internal/events/jobs.go).                                              *)
(*                                                                         *)
(* An upload generates an id of its own, so an upload names its object and *)
(* its job.  File operations and statements are single steps; uploads and  *)
(* workers interleave, and the service (cmd/video/main.go) may crash, or   *)
(* have its shutdown cut uploads off, between any two steps.               *)
(***************************************************************************)
EXTENDS Integers

CONSTANTS Uploads,  \* calls of Upload
          Workers,  \* callers of UpdateState
          Size,     \* Size[u] is the size of the video that upload u sends
          MaxSize,  \* maxUploadSize, 500 MB in the code
          Faults    \* what may go wrong, see below

(* client: an upload's client goes away: its data cannot be read to the    *)
(*         end, and a statement under way, which runs under the request's  *)
(*         context, returns an error with or without effect                *)
(* disk:   a file cannot be created or written                             *)
(* delete: the cleanup does not remove the file; its error is ignored      *)
(* db:     a statement fails and has no effect                             *)
(* reply:  a statement is committed but its caller gets an error           *)
(* crash:  the service dies                                                *)
ASSUME VideoJobsAssumption ==
    /\ Size \in [Uploads -> Nat]
    /\ MaxSize \in Nat
    /\ Faults \subseteq {"client", "disk", "delete", "db", "reply", "crash"}

VARIABLES server,  \* whether the service takes requests
          upload,  \* where each upload is
          objects, \* uploads whose file exists
          bytes,   \* how much of it the file holds
          job,     \* state of each upload's row in jobs, or "none"
          seen,    \* per worker, the job and the state it read
          granted, \* transitions some worker was told it made
          repeated, \* those of them that someone had been told before
          unsure   \* history: uploads with a lost reply or a failed cleanup

vars == <<server, upload, objects, bytes, job, seen, granted, repeated, unsure>>

JobStates == {"pending", "queued", "running", "succeeded", "failed", "cancelled"}

Idle == [upload |-> "none", state |-> "none"]

(* The requests a handler is at work on. *)
Active == {"parse", "copy", "insert", "cleanup"}

TypeOK ==
    /\ server \in {"serving", "draining"}
    /\ upload \in [Uploads -> {"idle", "created", "failed", "lost"} \cup Active]
    /\ objects \subseteq Uploads
    /\ bytes \in [Uploads -> 0..MaxSize]
    /\ job \in [Uploads -> JobStates \cup {"none"}]
    /\ seen \in [Workers -> {Idle} \cup [upload : Uploads, state : JobStates]]
    /\ granted \subseteq Uploads \X JobStates \X JobStates
    /\ repeated \subseteq granted
    /\ unsure \subseteq Uploads

Init ==
    /\ server = "serving"
    /\ upload = [u \in Uploads |-> "idle"]
    /\ objects = {}
    /\ bytes = [u \in Uploads |-> 0]
    /\ job = [u \in Uploads |-> "none"]
    /\ seen = [w \in Workers |-> Idle]
    /\ granted = {}
    /\ repeated = {}
    /\ unsure = {}

Goto(u, label) == upload' = [upload EXCEPT ![u] = label]

--------------------------------------------------------------------------------
(* Upload and LocalObjectStore *)

(* Mutants: no limited reader; one that stops a byte early. *)
CopiedUnlimited(n) == n
CopiedShort(n) == IF n < MaxSize THEN n ELSE MaxSize - 1

(* An io.LimitedReader of MaxSize bytes ends the copy at MaxSize, so what  *)
(* is left of its N is never negative.                                     *)
Copied(n) == IF n <= MaxSize THEN n ELSE MaxSize
Remaining(n) == MaxSize - Copied(n)

(* A request comes in; its form has yet to be read. *)
AcceptRequest(u) ==
    /\ server = "serving"
    /\ upload[u] = "idle"
    /\ Goto(u, "parse")
    /\ UNCHANGED <<server, objects, bytes, job, seen, granted, repeated, unsure>>

(* The form breaks off or lacks a field, and the request is refused. *)
RefuseRequest(u) ==
    /\ "client" \in Faults
    /\ upload[u] = "parse"
    /\ Goto(u, "failed")
    /\ UNCHANGED <<server, objects, bytes, job, seen, granted, repeated, unsure>>

(* Mutant: the row is created before the video is stored. *)
CreateRowFirst(u) ==
    /\ upload[u] = "parse"
    /\ job' = [job EXCEPT ![u] = "pending"]
    /\ Goto(u, "copy")
    /\ UNCHANGED <<server, objects, bytes, seen, granted, repeated, unsure>>

CreateFile(u) ==
    /\ upload[u] = "parse"
    /\ \/ /\ objects' = objects \cup {u}
          /\ Goto(u, "copy")
       \/ /\ "disk" \in Faults
          /\ Goto(u, "failed")
          /\ UNCHANGED objects
    /\ UNCHANGED <<server, bytes, job, seen, granted, repeated, unsure>>

(* A file is removed at best: the errors of os.Remove and of Delete are    *)
(* ignored.                                                                *)
RemoveObject(u) ==
    \/ objects' = objects \ {u} /\ UNCHANGED unsure
    \/ "delete" \in Faults /\ unsure' = unsure \cup {u} /\ UNCHANGED objects

(* A copy that breaks off has its file removed. *)
CopyFails(u) ==
    /\ {"client", "disk"} \cap Faults # {}
    /\ upload[u] = "copy"
    /\ RemoveObject(u)
    /\ Goto(u, "failed")
    /\ UNCHANGED <<server, bytes, job, seen, granted, repeated>>

(* Put copies the data and checks the size, as Upload does once more.      *)
Copy(u) ==
    /\ upload[u] = "copy"
    /\ bytes' = [bytes EXCEPT ![u] = Copied(Size[u])]
    /\ IF Remaining(Size[u]) < 0
         THEN RemoveObject(u) /\ Goto(u, "failed")
         ELSE UNCHANGED <<objects, unsure>> /\ Goto(u, "insert")
    /\ UNCHANGED <<server, job, seen, granted, repeated>>

(* Create inserts the row; its reply makes the upload's answer, 201.       *)
InsertJob(u) ==
    /\ upload[u] = "insert"
    /\ job' = [job EXCEPT ![u] = "pending"]
    /\ Goto(u, "created")
    /\ UNCHANGED <<server, objects, bytes, seen, granted, repeated, unsure>>

(* Mutant: no cleanup after a failed Create. *)
InsertFailsWithoutCleanup(u) ==
    /\ {"db", "client"} \cap Faults # {}
    /\ upload[u] = "insert"
    /\ Goto(u, "failed")
    /\ UNCHANGED <<server, objects, bytes, job, seen, granted, repeated, unsure>>

(* Create fails; of a statement that was cut off or whose reply was lost,  *)
(* the row is there all the same.                                          *)
InsertFails(u) ==
    /\ upload[u] = "insert"
    /\ \/ {"db", "client"} \cap Faults # {} /\ UNCHANGED <<job, unsure>>
       \/ /\ {"reply", "client"} \cap Faults # {}
          /\ job' = [job EXCEPT ![u] = "pending"]
          /\ unsure' = unsure \cup {u}
    /\ Goto(u, "cleanup")
    /\ UNCHANGED <<server, objects, bytes, seen, granted, repeated>>

(* The best-effort Delete; the upload is answered with an error. *)
Cleanup(u) ==
    /\ upload[u] = "cleanup"
    /\ RemoveObject(u)
    /\ Goto(u, "failed")
    /\ UNCHANGED <<server, bytes, job, seen, granted, repeated>>

--------------------------------------------------------------------------------
(* The process *)

(* A signal: Shutdown closes the listener and waits for the requests.      *)
Signal ==
    /\ server = "serving"
    /\ server' = "draining"
    /\ UNCHANGED <<upload, objects, bytes, job, seen, granted, repeated, unsure>>

(* The requests in progress end where they are, and are not taken up again; *)
(* INSERTs that are under way may be committed all the same.                *)
CutOff ==
    /\ upload' = [u \in Uploads |-> IF upload[u] \in Active THEN "lost" ELSE upload[u]]
    /\ \E committed \in SUBSET {u \in Uploads : upload[u] = "insert"} :
          job' = [u \in Uploads |-> IF u \in committed THEN "pending" ELSE job[u]]

(* Shutdown returns when no request is left, or after ten seconds; main    *)
(* exits in either case.  A service that is down and one that no request   *)
(* reaches are not told apart: the next start is part of the step.         *)
Exit ==
    /\ server = "draining"
    /\ server' = "serving"
    /\ CutOff
    /\ UNCHANGED <<objects, bytes, seen, granted, repeated, unsure>>

Crash ==
    /\ "crash" \in Faults
    /\ server' = "serving"
    /\ CutOff
    /\ UNCHANGED <<objects, bytes, seen, granted, repeated, unsure>>

--------------------------------------------------------------------------------
(* JobsRepository *)

(* Mutant: a job may be cancelled while it runs. *)
CanTransitionFromRunning(from, to) ==
    \/ from = "pending" /\ to = "queued"
    \/ from = "queued" /\ to \in {"running", "cancelled"}
    \/ from = "running" /\ to \in {"succeeded", "failed", "cancelled"}

CanTransition(from, to) ==
    \/ from = "pending" /\ to = "queued"
    \/ from = "queued" /\ to \in {"running", "cancelled"}
    \/ from = "running" /\ to \in {"succeeded", "failed"}

(* A worker reads a job before it decides what to do with it. *)
GetByID(w, u) ==
    /\ seen[w] = Idle
    /\ job[u] # "none"
    /\ seen' = [seen EXCEPT ![w] = [upload |-> u, state |-> job[u]]]
    /\ UNCHANGED <<server, upload, objects, bytes, job, granted, repeated, unsure>>

(* Mutant: the WHERE clause names only the job. *)
MatchesAnyState(u, current) == job[u] # "none"

(* The WHERE clause: the row is as the worker saw it. *)
Matches(u, current) == job[u] = current

(* UpdateState with the state the worker saw: a transition that is not     *)
(* allowed is refused, and one that no row matches returns an error.       *)
UpdateState(w, next) ==
    /\ seen[w] # Idle
    /\ LET u == seen[w].upload
           current == seen[w].state
           applies == CanTransition(current, next) /\ Matches(u, current)
       IN \/ /\ applies
             /\ job' = [job EXCEPT ![u] = next]
             /\ \/ /\ granted' = granted \cup {<<u, current, next>>}
                   /\ repeated' = repeated \cup (granted \cap {<<u, current, next>>})
                \/ "reply" \in Faults /\ UNCHANGED <<granted, repeated>>
          \/ /\ ~applies \/ "db" \in Faults
             /\ UNCHANGED <<job, granted, repeated>>
    /\ seen' = [seen EXCEPT ![w] = Idle]
    /\ UNCHANGED <<server, upload, objects, bytes, unsure>>

--------------------------------------------------------------------------------
Next ==
    \/ \E u \in Uploads :
          \/ AcceptRequest(u)
          \/ RefuseRequest(u)
          \/ CreateFile(u)
          \/ Copy(u)
          \/ CopyFails(u)
          \/ InsertJob(u)
          \/ InsertFails(u)
          \/ Cleanup(u)
    \/ Signal
    \/ Exit
    \/ Crash
    \/ \E w \in Workers :
          \/ \E u \in Uploads : GetByID(w, u)
          \/ \E next \in JobStates : UpdateState(w, next)

Spec == Init /\ [][Next]_vars

--------------------------------------------------------------------------------
(* Properties *)

(* Upload stores the video and the row in two places and compensates when  *)
(* the second fails: an upload that was answered has both or neither,      *)
(* unless a reply or the cleanup was lost.                                 *)
VideoIffJob ==
    \A u \in Uploads \ unsure :
        upload[u] \in {"created", "failed"} => (u \in objects <=> job[u] # "none")

(* A crash or a shutdown that cuts uploads off anywhere leaves files       *)
(* without a row at worst: a row that anyone can read has its video, as    *)
(* much of it as the limit takes.  One kind of upload does leave a row     *)
(* without a video, and no other: Create wrote the row but returned an     *)
(* error, its reply lost or its client gone, so Upload deleted the file    *)
(* and reported a failure.                                                 *)
JobHasVideo ==
    \A u \in Uploads : job[u] # "none" =>
        \/ u \in objects /\ bytes[u] = Copied(Size[u])
        \/ upload[u] = "failed" /\ u \in unsure

(* A job that was confirmed to the client has the whole video, if that     *)
(* kept to the limit.                                                      *)
ConfirmedIsWhole ==
    \A u \in Uploads :
        upload[u] = "created" /\ Size[u] <= MaxSize =>
            u \in objects /\ bytes[u] = Size[u] /\ job[u] # "none"

(* "Verify that we didn't exceed the size limit" (service.go:92): a video  *)
(* over the limit is refused.                                              *)
OversizeIsRefused ==
    \A u \in Uploads : upload[u] = "created" => Size[u] <= MaxSize

(* What the size checks come to instead: where nothing fails a video over  *)
(* the limit is not refused either, and once confirmed it is the first     *)
(* MaxSize bytes of it that are stored.                                    *)
OversizeIsCut ==
    \A u \in Uploads : Size[u] > MaxSize =>
        /\ upload[u] = "created" => u \in objects /\ bytes[u] = MaxSize
        /\ Faults = {} => upload[u] # "failed"

(* The expected state in the WHERE clause keeps a stale worker from        *)
(* repeating a transition: no two workers are told that they made the same *)
(* transition of the same job.                                             *)
GrantedOnce == repeated = {}

(* However stale the workers are, the rows follow the job lifecycle.       *)
Lifecycle == INSTANCE JobLifecycle WITH Jobs <- Uploads, state <- job

FollowsLifecycle == Lifecycle!LifecycleSpec

--------------------------------------------------------------------------------
(* Inductive invariant *)

(* What each stage of an upload says of its file and its row.              *)
Stages ==
    \A u \in Uploads :
        /\ upload[u] \in {"idle", "parse"} => u \notin objects
        /\ upload[u] \in {"copy", "insert", "cleanup"} => u \in objects
        /\ upload[u] \in {"idle", "parse", "copy", "insert"} => job[u] = "none"
        /\ upload[u] \in {"insert", "created", "cleanup"} => bytes[u] = Copied(Size[u])
        /\ upload[u] = "cleanup" /\ u \notin unsure => job[u] = "none"
        /\ upload[u] = "created" => u \in objects /\ job[u] # "none"

(* A job that has made a transition from a state is past that state, for   *)
(* the lifecycle has no cycle.                                             *)
IsPast(from, state) ==
    \/ from = "pending" /\ state \notin {"none", "pending"}
    \/ from = "queued" /\ state \notin {"none", "pending", "queued"}
    \/ from = "running" /\ state \in {"succeeded", "failed"}

Progress == \A t \in granted : IsPast(t[2], job[t[1]])

(* Without faults no upload takes a way that ends in a failure.            *)
NoneRefused == Faults = {} => \A u \in Uploads : upload[u] \notin {"cleanup", "failed"}

Inv == TypeOK /\ Stages /\ VideoIffJob /\ JobHasVideo /\ Progress /\ GrantedOnce
================================================================================

---------------------------- MODULE VideoJobsProofs ----------------------------
(***************************************************************************)
(* What TLC finds of VideoJobs on two uploads and two workers, for any of  *)
(* them, every size and limit and every fault.                             *)
(***************************************************************************)
EXTENDS VideoJobs, TLAPS

(* The limited reader copies at most the limit, and all of a video that    *)
(* keeps to it.                                                            *)
LEMMA CopiedBounds ==
    ASSUME NEW n \in Nat
    PROVE  /\ Copied(n) \in 0..MaxSize
           /\ n <= MaxSize => Copied(n) = n
BY VideoJobsAssumption DEF Copied

(* Every transition leaves its state behind for good ... *)
LEMMA TransitionLeaves ==
    ASSUME NEW from, NEW to, CanTransition(from, to)
    PROVE  IsPast(from, to) /\ ~IsPast(from, from)
BY DEF CanTransition, IsPast

(* ... whatever transition the job makes next. *)
LEMMA PastStaysPast ==
    ASSUME NEW from, NEW state, NEW to,
           IsPast(from, state), CanTransition(state, to)
    PROVE  IsPast(from, to)
BY DEF CanTransition, IsPast

(* The initial state: no files, no rows, nobody told anything. *)
LEMMA InitEstablishes == Init => Inv
<1> SUFFICES ASSUME Init PROVE Inv
  OBVIOUS
<1>1. TypeOK
  BY VideoJobsAssumption DEF Init, TypeOK
<1>2. Stages /\ VideoIffJob /\ JobHasVideo
  BY DEF Init, Stages, VideoIffJob, JobHasVideo
<1>3. Progress /\ GrantedOnce
  BY DEF Init, Progress, GrantedOnce
<1> QED
  BY <1>1, <1>2, <1>3 DEF Inv

(* Every step keeps the variables in their types: what is copied fits the  *)
(* limit.                                                                  *)
LEMMA TypeStep == TypeOK /\ [Next]_vars => TypeOK'
<1> SUFFICES ASSUME TypeOK, [Next]_vars PROVE TypeOK'
  OBVIOUS
<1> USE DEF TypeOK, Goto, Active
<1>1. ASSUME NEW u \in Uploads, AcceptRequest(u) \/ RefuseRequest(u) \/ CreateFile(u)
      PROVE  TypeOK'
  BY <1>1 DEF AcceptRequest, RefuseRequest, CreateFile
<1>2. ASSUME NEW u \in Uploads, Copy(u) PROVE TypeOK'
  <2>1. Copied(Size[u]) \in 0..MaxSize
    BY CopiedBounds, VideoJobsAssumption
  <2> QED
    BY <1>2, <2>1 DEF Copy, RemoveObject
<1>3. ASSUME NEW u \in Uploads, CopyFails(u) PROVE TypeOK'
  BY <1>3 DEF CopyFails, RemoveObject
<1>4. CASE Signal
  BY <1>4 DEF Signal
<1>5. ASSUME NEW u \in Uploads, InsertJob(u) PROVE TypeOK'
  BY <1>5 DEF InsertJob, JobStates
<1>6. ASSUME NEW u \in Uploads, InsertFails(u) PROVE TypeOK'
  BY <1>6 DEF InsertFails, JobStates
<1>7. ASSUME NEW u \in Uploads, Cleanup(u) PROVE TypeOK'
  BY <1>7 DEF Cleanup, RemoveObject
<1>8. CASE Exit \/ Crash
  <2>1. job' \in [Uploads -> JobStates \cup {"none"}]
    BY <1>8 DEF Exit, Crash, CutOff, JobStates
  <2> QED
    BY <1>8, <2>1 DEF Exit, Crash, CutOff
<1>9. ASSUME NEW w \in Workers, NEW u \in Uploads, GetByID(w, u) PROVE TypeOK'
  BY <1>9 DEF GetByID
<1>10. ASSUME NEW w \in Workers, NEW next \in JobStates, UpdateState(w, next)
       PROVE  TypeOK'
  <2> DEFINE u == seen[w].upload
             current == seen[w].state
  <2>1. u \in Uploads /\ current \in JobStates
    BY <1>10 DEF UpdateState
  <2>2. seen' \in [Workers -> {Idle} \cup [upload : Uploads, state : JobStates]]
    BY <1>10 DEF UpdateState
  <2>3. job' \in [Uploads -> JobStates \cup {"none"}]
    BY <1>10, <2>1 DEF UpdateState
  <2>4. granted' \subseteq Uploads \X JobStates \X JobStates /\ repeated' \subseteq granted'
    BY <1>10, <2>1 DEF UpdateState
  <2> QED
    BY <1>10, <2>2, <2>3, <2>4 DEF UpdateState
<1>11. CASE UNCHANGED vars
  BY <1>11 DEF vars
<1> QED
  BY <1>1, <1>2, <1>3, <1>4, <1>5, <1>6, <1>7, <1>8, <1>9, <1>10, <1>11 DEF Next

(* Whatever a worker does, the row it touches exists before and after.     *)
LEMMA UpdateKeepsRows ==
    ASSUME TypeOK, NEW w \in Workers, NEW next \in JobStates, UpdateState(w, next)
    PROVE  /\ \A u \in Uploads : job'[u] = "none" <=> job[u] = "none"
           /\ \A u \in Uploads : job'[u] # job[u] => CanTransition(job[u], job'[u])
<1> DEFINE u == seen[w].upload
           current == seen[w].state
<1>1. u \in Uploads /\ current \in JobStates
  BY DEF UpdateState, TypeOK
<1>2. CASE job' = job
  BY <1>2
<1>3. CASE /\ CanTransition(current, next) /\ Matches(u, current)
           /\ job' = [job EXCEPT ![u] = next]
  BY <1>1, <1>3 DEF Matches, TypeOK, JobStates
<1> QED
  BY <1>2, <1>3 DEF UpdateState

(* What ties file and row together. *)
Ties == VideoIffJob /\ JobHasVideo

(* The uploads' stages survive every step, and with them the tie of file   *)
(* and row.                                                                *)
LEMMA StagesStep ==
    TypeOK /\ Stages /\ Ties /\ [Next]_vars => Stages' /\ Ties'
<1> SUFFICES ASSUME TypeOK, Stages, Ties, [Next]_vars
             PROVE  Stages' /\ Ties'
  OBVIOUS
<1> USE DEF TypeOK, Stages, Ties, VideoIffJob, JobHasVideo, Goto, Active
<1>1. ASSUME NEW u \in Uploads, AcceptRequest(u) \/ RefuseRequest(u) \/ CreateFile(u)
      PROVE  Stages' /\ Ties'
  BY <1>1 DEF AcceptRequest, RefuseRequest, CreateFile
<1>2. ASSUME NEW u \in Uploads, Copy(u) PROVE Stages' /\ Ties'
  BY <1>2 DEF Copy, RemoveObject
<1>3. ASSUME NEW u \in Uploads, CopyFails(u) PROVE Stages' /\ Ties'
  BY <1>3 DEF CopyFails, RemoveObject
<1>4. CASE Signal
  BY <1>4 DEF Signal
<1>5. ASSUME NEW u \in Uploads, InsertJob(u) PROVE Stages' /\ Ties'
  BY <1>5 DEF InsertJob
<1>6. ASSUME NEW u \in Uploads, InsertFails(u) PROVE Stages' /\ Ties'
  BY <1>6 DEF InsertFails
<1>7. ASSUME NEW u \in Uploads, Cleanup(u) PROVE Stages' /\ Ties'
  BY <1>7 DEF Cleanup, RemoveObject
<1>8. CASE Exit \/ Crash
  BY <1>8 DEF Exit, Crash, CutOff
<1>9. ASSUME NEW w \in Workers, NEW u \in Uploads, GetByID(w, u)
      PROVE  Stages' /\ Ties'
  BY <1>9 DEF GetByID
<1>10. ASSUME NEW w \in Workers, NEW next \in JobStates, UpdateState(w, next)
       PROVE  Stages' /\ Ties'
  <2>1. \A u \in Uploads : job'[u] = "none" <=> job[u] = "none"
    BY <1>10, UpdateKeepsRows
  <2>2. UNCHANGED <<upload, objects, bytes, unsure>>
    BY <1>10 DEF UpdateState
  <2> QED
    BY <2>1, <2>2
<1>11. CASE UNCHANGED vars
  BY <1>11 DEF vars
<1> QED
  BY <1>1, <1>2, <1>3, <1>4, <1>5, <1>6, <1>7, <1>8, <1>9, <1>10, <1>11 DEF Next

(* A job never comes back to a state it left, so the WHERE clause matches  *)
(* for one of the workers that saw it only.                                *)
LEMMA ProgressStep ==
    TypeOK /\ Stages /\ Progress /\ GrantedOnce /\ [Next]_vars
        => Progress' /\ GrantedOnce'
<1> SUFFICES ASSUME TypeOK, Stages, Progress, GrantedOnce, [Next]_vars
             PROVE  Progress' /\ GrantedOnce'
  OBVIOUS
<1> DEFINE NoWorker == UNCHANGED <<granted, repeated>>
           JobKept == \A u \in Uploads : job'[u] # job[u] => job[u] = "none"
<1>1. NoWorker /\ JobKept => Progress' /\ GrantedOnce'
  <2> SUFFICES ASSUME NoWorker, JobKept, NEW t \in granted
               PROVE  IsPast(t[2], job'[t[1]])
    BY DEF Progress, GrantedOnce
  <2>1. t[1] \in Uploads
    BY DEF TypeOK
  <2>2. IsPast(t[2], job[t[1]])
    BY DEF Progress
  <2>3. job[t[1]] # "none"
    BY <2>2 DEF IsPast
  <2> QED
    BY <2>1, <2>2, <2>3
<1>2. ASSUME NEW u \in Uploads,
             \/ AcceptRequest(u) \/ RefuseRequest(u) \/ CreateFile(u) \/ Copy(u)
             \/ CopyFails(u) \/ InsertJob(u) \/ InsertFails(u) \/ Cleanup(u)
      PROVE  Progress' /\ GrantedOnce'
  <2>1. CASE InsertJob(u) \/ InsertFails(u)
    <3>1. job[u] = "none" /\ (job' = job \/ job' = [job EXCEPT ![u] = "pending"])
      BY <2>1 DEF InsertJob, InsertFails, Stages
    <3>2. JobKept
      BY <3>1 DEF TypeOK
    <3> QED
      BY <2>1, <3>2, <1>1 DEF InsertJob, InsertFails
  <2>2. CASE \/ AcceptRequest(u) \/ RefuseRequest(u) \/ CreateFile(u)
             \/ Copy(u) \/ CopyFails(u) \/ Cleanup(u)
    BY <2>2, <1>1 DEF AcceptRequest, RefuseRequest, CreateFile, Copy, CopyFails, Cleanup
  <2> QED
    BY <1>2, <2>1, <2>2
<1>3. ASSUME Signal \/ (\E w \in Workers, u \in Uploads : GetByID(w, u)) \/ UNCHANGED vars
      PROVE  Progress' /\ GrantedOnce'
  BY <1>3, <1>1 DEF Signal, GetByID, vars
<1>4. CASE Exit \/ Crash
  <2>1. JobKept
    BY <1>4 DEF Exit, Crash, CutOff, Stages, TypeOK
  <2> QED
    BY <1>4, <2>1, <1>1 DEF Exit, Crash
<1>5. ASSUME NEW w \in Workers, NEW next \in JobStates, UpdateState(w, next)
      PROVE  Progress' /\ GrantedOnce'
  <2> DEFINE u == seen[w].upload
             current == seen[w].state
  <2>1. u \in Uploads /\ current \in JobStates
    BY <1>5 DEF UpdateState, TypeOK
  <2>2. ASSUME NEW t \in granted PROVE IsPast(t[2], job'[t[1]])
    <3>1. t[1] \in Uploads /\ IsPast(t[2], job[t[1]])
      BY DEF TypeOK, Progress
    <3>2. job'[t[1]] = job[t[1]] \/ CanTransition(job[t[1]], job'[t[1]])
      BY <1>5, <3>1, UpdateKeepsRows
    <3> QED
      BY <3>1, <3>2, PastStaysPast
  <2>3. CASE UNCHANGED <<granted, repeated>>
    BY <2>2, <2>3 DEF Progress, GrantedOnce
  <2>4. CASE /\ CanTransition(current, next) /\ Matches(u, current)
             /\ job' = [job EXCEPT ![u] = next]
             /\ granted' = granted \cup {<<u, current, next>>}
             /\ repeated' = repeated \cup (granted \cap {<<u, current, next>>})
    <3>1. IsPast(current, next) /\ ~IsPast(current, current)
      BY <2>4, TransitionLeaves
    <3>2. <<u, current, next>> \notin granted
      BY <2>4, <3>1 DEF Progress, Matches
    <3>3. job'[u] = next
      BY <2>1, <2>4 DEF TypeOK
    <3> QED
      BY <2>2, <2>4, <3>1, <3>2, <3>3 DEF Progress, GrantedOnce
  <2> QED
    BY <1>5, <2>3, <2>4 DEF UpdateState
<1> QED
  BY <1>2, <1>3, <1>4, <1>5 DEF Next

(* The invariant holds in every state that the service can reach. *)
THEOREM Invariance == Spec => []Inv
<1>1. Inv /\ [Next]_vars => Inv'
  BY TypeStep, StagesStep, ProgressStep DEF Inv, Ties
<1> QED
  BY InitEstablishes, <1>1, PTL DEF Spec

(* Type correctness; no file outgrows the limit. *)
THEOREM TypeCorrect == Spec => []TypeOK
<1>1. Inv => TypeOK
  BY DEF Inv
<1> QED
  BY Invariance, <1>1, PTL

(* The compensation in Upload works: an upload that was answered has left  *)
(* both file and row or neither, unless a reply or the cleanup was lost.   *)
THEOREM FileAndRow == Spec => []VideoIffJob
<1>1. Inv => VideoIffJob
  BY DEF Inv
<1> QED
  BY Invariance, <1>1, PTL

(* No crash and no shutdown leaves a row without its video; only an upload *)
(* that failed after its row was written does.                             *)
THEOREM RowsHaveVideos == Spec => []JobHasVideo
<1>1. Inv => JobHasVideo
  BY DEF Inv
<1> QED
  BY Invariance, <1>1, PTL

(* A confirmed video within the limit is stored whole, the last byte of it *)
(* included, and has its job.                                              *)
THEOREM WholeWhenConfirmed == Spec => []ConfirmedIsWhole
<1>1. Inv => ConfirmedIsWhole
  BY CopiedBounds, VideoJobsAssumption DEF Inv, TypeOK, Stages, ConfirmedIsWhole
<1> QED
  BY Invariance, <1>1, PTL

(* The check of the remainder never fails: it needs a fault, or the end of *)
(* the process, for an upload not to be confirmed.                         *)
LEMMA NoneRefusedStep == TypeOK /\ NoneRefused /\ [Next]_vars => NoneRefused'
<1> SUFFICES ASSUME TypeOK, NoneRefused, [Next]_vars, Faults = {}
             PROVE  \A u \in Uploads : upload'[u] \notin {"cleanup", "failed"}
  BY DEF NoneRefused
<1> USE DEF TypeOK, NoneRefused, Goto
<1>1. ASSUME NEW u \in Uploads, Copy(u)
      PROVE  \A v \in Uploads : upload'[v] \notin {"cleanup", "failed"}
  <2>1. ~(Remaining(Size[u]) < 0)
    BY CopiedBounds, VideoJobsAssumption DEF Remaining
  <2>2. upload' = [upload EXCEPT ![u] = "insert"]
    BY <1>1, <2>1 DEF Copy
  <2> QED
    BY <2>2
<1>2. ASSUME NEW u \in Uploads,
             \/ AcceptRequest(u) \/ RefuseRequest(u) \/ CreateFile(u)
             \/ CopyFails(u) \/ InsertJob(u) \/ InsertFails(u) \/ Cleanup(u)
      PROVE  \A v \in Uploads : upload'[v] \notin {"cleanup", "failed"}
  BY <1>2 DEF AcceptRequest, RefuseRequest, CreateFile, CopyFails, InsertJob,
              InsertFails, Cleanup
<1>3. CASE Signal \/ Exit \/ Crash
  BY <1>3 DEF Signal, Exit, Crash, CutOff
<1>4. ASSUME NEW w \in Workers,
             \/ \E u \in Uploads : GetByID(w, u)
             \/ \E next \in JobStates : UpdateState(w, next)
      PROVE  \A v \in Uploads : upload'[v] \notin {"cleanup", "failed"}
  BY <1>4 DEF GetByID, UpdateState
<1>5. CASE UNCHANGED vars
  BY <1>5 DEF vars
<1> QED
  BY <1>1, <1>2, <1>3, <1>4, <1>5 DEF Next

(* Whatever the limit and the sizes, a video over the limit is cut at the  *)
(* limit and confirmed: no check of the code ever refuses it.              *)
THEOREM LimitOnlyCuts == Spec => []OversizeIsCut
<1>1. Init => NoneRefused
  BY DEF Init, NoneRefused
<1>2. Inv /\ NoneRefused => OversizeIsCut
  <2> SUFFICES ASSUME Inv, NoneRefused, NEW u \in Uploads, Size[u] > MaxSize
               PROVE  /\ upload[u] = "created" => u \in objects /\ bytes[u] = MaxSize
                      /\ Faults = {} => upload[u] # "failed"
    BY DEF OversizeIsCut
  <2>1. Copied(Size[u]) = MaxSize
    BY VideoJobsAssumption DEF Copied
  <2> QED
    BY <2>1 DEF Inv, Stages, NoneRefused
<1>3. Inv => TypeOK
  BY DEF Inv
<1> QED
  BY Invariance, <1>1, NoneRefusedStep, <1>2, <1>3, PTL DEF Spec

(* However many workers act on the same stale row, each transition of a    *)
(* job is reported to one of them.                                         *)
THEOREM OneWorkerPerTransition == Spec => []GrantedOnce
<1>1. Inv => GrantedOnce
  BY DEF Inv
<1> QED
  BY Invariance, <1>1, PTL

(* A step of the service moves every job as the lifecycle allows, or       *)
(* leaves it.                                                              *)
LEMMA StepFollows == Inv /\ [Next]_vars => [Lifecycle!LifecycleNext]_job
<1> SUFFICES ASSUME Inv, Next PROVE Lifecycle!LifecycleNext
  BY DEF vars
<1> USE DEF Inv
<1> DEFINE Follows == \A u \in Uploads : job'[u] = job[u] \/ Lifecycle!Moves(job[u], job'[u])
           Submits == \A u \in Uploads :
                         job'[u] = job[u] \/ (job[u] = "none" /\ job'[u] = "pending")
<1>1. job' = [u \in Uploads |-> job'[u]]
  <2>1. TypeOK'
    BY TypeStep
  <2> QED
    BY <2>1 DEF TypeOK
<1>2. Submits => Follows
  BY DEF Lifecycle!Moves, Lifecycle!Submit
<1>3. ASSUME NEW u \in Uploads, InsertJob(u) \/ InsertFails(u) PROVE Submits
  <2>1. job[u] = "none" /\ (job' = job \/ job' = [job EXCEPT ![u] = "pending"])
    BY <1>3 DEF InsertJob, InsertFails, Stages
  <2> QED
    BY <2>1 DEF TypeOK
<1>4. ASSUME NEW u \in Uploads,
             \/ AcceptRequest(u) \/ RefuseRequest(u) \/ CreateFile(u)
             \/ Copy(u) \/ CopyFails(u) \/ Cleanup(u)
      PROVE  Submits
  BY <1>4 DEF AcceptRequest, RefuseRequest, CreateFile, Copy, CopyFails, Cleanup
<1>5. ASSUME Signal \/ (\E w \in Workers, u \in Uploads : GetByID(w, u))
      PROVE  Submits
  BY <1>5 DEF Signal, GetByID
<1>6. ASSUME Exit \/ Crash PROVE Submits
  <2>1. PICK committed \in SUBSET {u \in Uploads : upload[u] = "insert"} :
           job' = [u \in Uploads |-> IF u \in committed THEN "pending" ELSE job[u]]
    BY <1>6 DEF Exit, Crash, CutOff
  <2> QED
    BY <2>1 DEF Stages
<1>7. ASSUME NEW w \in Workers, NEW next \in JobStates, UpdateState(w, next)
      PROVE  Follows
  <2> SUFFICES ASSUME NEW u \in Uploads, job'[u] # job[u]
               PROVE  Lifecycle!Moves(job[u], job'[u])
    OBVIOUS
  <2>1. CanTransition(job[u], job'[u])
    BY <1>7, UpdateKeepsRows
  <2> QED
    BY <2>1 DEF CanTransition, Lifecycle!Moves, Lifecycle!Enqueue, Lifecycle!Begin,
                Lifecycle!CancelJob, Lifecycle!Finish
<1>8. Follows
  <2> HIDE DEF Follows, Submits
  <2> QED
    BY <1>2, <1>3, <1>4, <1>5, <1>6, <1>7 DEF Next
<1> QED
  BY <1>1, <1>8 DEF Lifecycle!LifecycleNext

(* The jobs table implements the lifecycle, whoever updates it and however *)
(* stale what the updaters read.                                           *)
THEOREM ImplementsLifecycle == Spec => FollowsLifecycle
<1>1. Init => Lifecycle!LifecycleInit
  BY DEF Init, Lifecycle!LifecycleInit
<1> QED
  BY Invariance, StepFollows, <1>1, PTL DEF Spec, FollowsLifecycle, Lifecycle!LifecycleSpec
================================================================================

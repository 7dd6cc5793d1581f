------------------------------ MODULE JobLifecycle -----------------------------
(***************************************************************************)
(* What the jobs table promises about every job, whoever updates it: it is *)
(* created pending, is queued, and either is cancelled before it runs or   *)
(* runs to an end that is final.                                           *)
(***************************************************************************)
CONSTANT Jobs

VARIABLE state

LifecycleInit == state = [j \in Jobs |-> "none"]

(* A new job, and the transitions of one that exists. *)
Submit(from, to) == from = "none" /\ to = "pending"
Enqueue(from, to) == from = "pending" /\ to = "queued"
Begin(from, to) == from = "queued" /\ to = "running"
CancelJob(from, to) == from = "queued" /\ to = "cancelled"
Finish(from, to) == from = "running" /\ to \in {"succeeded", "failed"}

Moves(from, to) ==
    \/ Submit(from, to)
    \/ Enqueue(from, to)
    \/ Begin(from, to)
    \/ CancelJob(from, to)
    \/ Finish(from, to)

(* Several jobs may move at once. *)
LifecycleNext ==
    /\ state' = [j \in Jobs |-> state'[j]]
    /\ \A j \in Jobs : state'[j] = state[j] \/ Moves(state[j], state'[j])

LifecycleSpec == LifecycleInit /\ [][LifecycleNext]_state
================================================================================

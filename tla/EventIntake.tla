------------------------------ MODULE EventIntake ------------------------------
(***************************************************************************)
(* What the Activity service promises about the events of the stream: an   *)
(* event is recorded in a place of record (the activity table or the       *)
(* dead-letter stream) and only then released, after which JetStream       *)
(* never hands it out again.  Nothing recorded or released is taken back.  *)
(***************************************************************************)
CONSTANT Events

VARIABLES accepted,  \* events JetStream has stored in the activity stream
          kept,      \* events with a copy in a place of record
          released   \* events the consumer has acknowledged

intakeVars == <<accepted, kept, released>>

IntakeInit ==
    /\ accepted = {}
    /\ kept = {}
    /\ released = {}

Accept(e) ==
    /\ e \notin accepted
    /\ accepted' = accepted \cup {e}
    /\ UNCHANGED <<kept, released>>

Keep(e) ==
    /\ e \in accepted
    /\ kept' = kept \cup {e}
    /\ UNCHANGED <<accepted, released>>

Release(e) ==
    /\ e \in kept \ released
    /\ released' = released \cup {e}
    /\ UNCHANGED <<accepted, kept>>

IntakeNext == \E e \in Events : Accept(e) \/ Keep(e) \/ Release(e)

IntakeSpec == IntakeInit /\ [][IntakeNext]_intakeVars
================================================================================

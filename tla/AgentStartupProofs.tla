-------------------------- MODULE AgentStartupProofs --------------------------
(***************************************************************************)
(* What TLC finds of AgentStartup with two users and two expiries, for any *)
(* set of users, any number of expiries and every fault.                   *)
(***************************************************************************)
EXTENDS AgentStartup, TLAPS

(* No agent runs and no file exists. *)
LEMMA InitEstablishes == Init => Inv
BY AgentStartupAssumption DEF Init, Inv, TypeOK, NoStaleUser, Absent

(* Reading a file makes main's user the stored one, or leaves none. *)
LEMMA LoadReads ==
    ASSUME TypeOK
    PROVE  /\ LoadedUser \in Users \cup {NoUser}
           /\ LoadedUser # NoUser => file.state = "valid" /\ LoadedUser = file.user
BY DEF TypeOK, LoadedUser, Absent, Torn, Stored

(* The record of a stored user has that user in it. *)
LEMMA StoredUser == \A s, u : Stored(s, u).user = u /\ Stored(s, u).state = s
BY DEF Stored

(* Every step of main, every fault and an expiry keep the invariant; no    *)
(* step but Load gives main a user, and then the file has it.              *)
LEMMA InvStep == Inv /\ [Next]_vars => Inv'
<1> SUFFICES ASSUME Inv, [Next]_vars PROVE Inv'
  OBVIOUS
<1> USE AgentStartupAssumption DEF Inv, TypeOK, NoStaleUser
<1>1. CASE Launch
  BY <1>1 DEF Launch
<1>2. CASE Load
  <2>1. /\ LoadedUser \in Users \cup {NoUser}
        /\ LoadedUser # NoUser => file.state = "valid" /\ LoadedUser = file.user
    BY LoadReads
  <2> QED
    BY <1>2, <2>1 DEF Load
<1>3. CASE Login
  BY <1>3 DEF Login
<1>4. CASE Truncate
  <2>1. file' = Torn /\ Torn.user = NoUser /\ Torn.state # "valid"
    BY <1>4 DEF Truncate, Torn
  <2> QED
    BY <1>4, <2>1 DEF Truncate
<1>5. CASE Write
  <2>1. file'.user = approved /\ approved \in Users
    BY <1>5, StoredUser DEF Write
  <2> QED
    BY <1>5, <2>1 DEF Write
<1>6. CASE Connect \/ OpenSources \/ ConnectOrOpenFails \/ Stop \/ Crash
  BY <1>6 DEF Connect, OpenSources, ConnectOrOpenFails, Stop, Crash
<1>7. CASE PublishEvent
  BY <1>7 DEF PublishEvent
<1>8. CASE LoadFails \/ LoginFails \/ SaveFails
  BY <1>8 DEF LoadFails, LoginFails, SaveFails
<1>9. CASE Expire
  <2>1. file.user \in Users
    BY <1>9 DEF Expire, Absent, Torn, Stored
  <2>2. file'.user = file.user /\ file'.state = "expired"
    BY <1>9, StoredUser DEF Expire
  <2> QED
    BY <1>9, <2>1, <2>2 DEF Expire
<1>10. CASE UNCHANGED vars
  BY <1>10 DEF vars
<1> QED
  BY <1>1, <1>2, <1>3, <1>4, <1>5, <1>6, <1>7, <1>8, <1>9, <1>10 DEF Next, MainStep

(* Whatever runs came before, and wherever they broke off, an agent streams *)
(* only as the user whose credentials are stored.                           *)
THEOREM StoredUserStreams == Spec => []NoStaleUser
<1>1. Inv => NoStaleUser
  BY DEF Inv
<1> QED
  BY InitEstablishes, InvStep, <1>1, PTL DEF Spec

(* Every variable keeps its type through any sequence of runs. *)
THEOREM TypeCorrect == Spec => []TypeOK
<1>1. Inv => TypeOK
  BY DEF Inv
<1> QED
  BY InitEstablishes, InvStep, <1>1, PTL DEF Spec

(* Valid credentials are safe from every run that follows: main reaches    *)
(* SaveTo, which truncates the file, only if it found none in it.          *)
THEOREM ValidIsSafe == Spec => ValidCredentialsSurvive
<1>1. Inv /\ [Next]_vars
         => [file.state = "valid" => file' \in {file, Stored("expired", file.user)}]_vars
  <2> SUFFICES ASSUME Inv, Next, file.state = "valid"
               PROVE  file' \in {file, Stored("expired", file.user)}
    OBVIOUS
  <2>1. CASE Expire
    BY <2>1 DEF Expire
  <2>2. CASE Truncate \/ Write
    BY <2>2 DEF Truncate, Write, Inv
  <2>3. CASE \/ Launch \/ Load \/ Login \/ Connect \/ OpenSources \/ PublishEvent
             \/ LoadFails \/ LoginFails \/ SaveFails \/ ConnectOrOpenFails
             \/ Stop \/ Crash
    BY <2>3 DEF Launch, Load, Login, Connect, OpenSources, PublishEvent, LoadFails,
                LoginFails, SaveFails, ConnectOrOpenFails, Stop, Crash
  <2> QED
    BY <2>1, <2>2, <2>3 DEF Next, MainStep
<1> QED
  BY InitEstablishes, InvStep, <1>1, PTL DEF Spec, ValidCredentialsSurvive

(* Only Load gives main's variable a user, and it comes before any login.  *)
LEMMA UnusedStep == Inv /\ LoginUnused /\ [Next]_vars => LoginUnused'
<1> SUFFICES ASSUME Inv, LoginUnused, [Next]_vars PROVE LoginUnused'
  OBVIOUS
<1> USE DEF LoginUnused
<1>1. CASE Launch \/ Load \/ LoadFails
  BY <1>1 DEF Launch, Load, LoadFails
<1>2. CASE Login
  BY <1>2 DEF Login, Inv
<1>3. CASE \/ Truncate \/ Write \/ Connect \/ OpenSources \/ PublishEvent
           \/ LoginFails \/ SaveFails \/ ConnectOrOpenFails \/ Stop \/ Crash
           \/ Expire \/ UNCHANGED vars
  BY <1>3 DEF Truncate, Write, Connect, OpenSources, PublishEvent, LoginFails,
              SaveFails, ConnectOrOpenFails, Stop, Crash, Expire, vars
<1> QED
  BY <1>1, <1>2, <1>3 DEF Next, MainStep

(* The run that logs in publishes nothing, in whatever way it goes on: the *)
(* shadowed variable costs every such run its events, not an unlucky one.  *)
THEOREM LoginRunPublishesNothing == Spec => []LoginUnused /\ LoginRunIsMute
<1>1. Init => LoginUnused
  BY DEF Init, LoginUnused
<1>2. LoginUnused /\ [Next]_vars => [approved # NoUser => streamed' = streamed]_vars
  <2> SUFFICES ASSUME LoginUnused, Next, approved # NoUser
               PROVE  streamed' = streamed
    OBVIOUS
  <2>1. CASE Launch \/ Load \/ Login \/ Truncate \/ Write \/ Connect \/ OpenSources
    BY <2>1 DEF Launch, Load, Login, Truncate, Write, Connect, OpenSources
  <2>2. CASE PublishEvent
    BY <2>2 DEF PublishEvent, LoginUnused
  <2>3. CASE \/ LoadFails \/ LoginFails \/ SaveFails \/ ConnectOrOpenFails
             \/ Stop \/ Crash \/ Expire
    BY <2>3 DEF LoadFails, LoginFails, SaveFails, ConnectOrOpenFails, Stop, Crash, Expire
  <2> QED
    BY <2>1, <2>2, <2>3 DEF Next, MainStep
<1> QED
  BY InitEstablishes, InvStep, <1>1, UnusedStep, <1>2, PTL DEF Spec, LoginRunIsMute
================================================================================

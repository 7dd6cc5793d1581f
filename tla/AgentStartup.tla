------------------------------ MODULE AgentStartup -----------------------------
(***************************************************************************)
(* Successive runs of the agent's main (cmd/agent/main.go): it loads the   *)
(* credentials file, logs in if it has to, saves what it got, connects,    *)
(* opens its hardware sources and publishes events under the user it       *)
(* knows, with the file operations of internal/auth/credentials.go.        *)
(*                                                                         *)
(* Only the file survives a run.  It is truncated and written in two       *)
(* calls.  A login here is what DeviceLogin describes in detail, and a     *)
(* streaming agent what AgentRuntime does.                                 *)
(***************************************************************************)
EXTENDS Naturals

CONSTANTS Users,     \* users who may approve a login
          MaxExpiry, \* how often stored credentials may expire: a bound
          Faults     \* subset of {"crash", "disk", "gateway", "nats", "device"}

ASSUME AgentStartupAssumption ==
    /\ MaxExpiry \in Nat
    /\ Faults \subseteq {"crash", "disk", "gateway", "nats", "device"}

VARIABLES file,      \* what is at the credentials path
          user,      \* the UserID of main's credentials
          approved,  \* the user of this run's device login
          streamed,  \* users under whom an event was accepted
          expiries,  \* how often credentials have expired
          pc         \* where main is; "off" when no agent runs

vars == <<file, user, approved, streamed, expiries, pc>>

NoUser == "nobody"

Absent == [state |-> "absent", user |-> NoUser]
Torn == [state |-> "torn", user |-> NoUser]
Stored(state, u) == [state |-> state, user |-> u]

TypeOK ==
    /\ file \in {Absent, Torn} \cup {Stored(s, u) : s \in {"valid", "expired"}, u \in Users}
    /\ user \in Users \cup {NoUser}
    /\ approved \in Users \cup {NoUser}
    /\ streamed \subseteq Users
    /\ expiries \in 0..MaxExpiry
    /\ pc \in {"off", "load", "login", "truncate", "write", "connect", "open",
               "run"}

Init ==
    /\ file = Absent
    /\ user = NoUser
    /\ approved = NoUser
    /\ streamed = {}
    /\ expiries = 0
    /\ pc = "off"

--------------------------------------------------------------------------------
Launch ==
    /\ pc = "off"
    /\ pc' = "load"
    /\ user' = NoUser
    /\ approved' = NoUser
    /\ UNCHANGED <<file, streamed, expiries>>

(* Mutant: LoadFrom hands out credentials that do not validate. *)
LoadedUserUnchecked == file.user

(* LoadFrom returns empty credentials with every error. *)
LoadedUser == IF file.state = "valid" THEN file.user ELSE NoUser

(* Only a missing file or credentials that do not validate lead to a login; *)
(* a file that cannot be decoded does not, nor does one that cannot be read. *)
Load ==
    /\ pc = "load"
    /\ user' = LoadedUser
    /\ pc' = IF file.state \in {"absent", "expired"} THEN "login" ELSE "connect"
    /\ UNCHANGED <<file, approved, streamed, expiries>>

(* Mutant: every error of LoadFrom leads to a login. *)
LoadFailsIntoLogin ==
    /\ "disk" \in Faults
    /\ pc = "load"
    /\ pc' = "login"
    /\ UNCHANGED <<file, user, approved, streamed, expiries>>

LoadFails ==
    /\ "disk" \in Faults
    /\ pc = "load"
    /\ pc' = "connect"
    /\ UNCHANGED <<file, user, approved, streamed, expiries>>

Login ==
    /\ pc = "login"
    /\ \E u \in Users : approved' = u
    /\ pc' = "truncate"
    /\ UNCHANGED <<file, user, streamed, expiries>>

LoginFails ==
    /\ "gateway" \in Faults
    /\ pc = "login"
    /\ pc' = "connect"
    /\ UNCHANGED <<file, user, approved, streamed, expiries>>

(* SaveTo opens the file with O_TRUNC ... *)
Truncate ==
    /\ pc = "truncate"
    /\ file' = Torn
    /\ pc' = "write"
    /\ UNCHANGED <<user, approved, streamed, expiries>>

(* Mutants: the credentials that are saved are main's own; none are.       *)
WriteOuterCredentials ==
    /\ pc = "write"
    /\ file' = Stored("valid", user)
    /\ pc' = "connect"
    /\ UNCHANGED <<user, approved, streamed, expiries>>
WriteNothing ==
    /\ pc = "write"
    /\ file' = Absent
    /\ pc' = "connect"
    /\ UNCHANGED <<user, approved, streamed, expiries>>

(* ... and writes it.  main declares a second variable credentials for the *)
(* login's result, so the one the listeners are given keeps its empty      *)
(* UserID.                                                                 *)
Write ==
    /\ pc = "write"
    /\ file' = Stored("valid", approved)
    /\ pc' = "connect"
    /\ UNCHANGED <<user, approved, streamed, expiries>>

(* A save that fails leaves the file as it is by then; main goes on.       *)
SaveFails ==
    /\ "disk" \in Faults
    /\ pc \in {"truncate", "write"}
    /\ pc' = "connect"
    /\ UNCHANGED <<file, user, approved, streamed, expiries>>

Connect ==
    /\ pc = "connect"
    /\ pc' = "open"
    /\ UNCHANGED <<file, user, approved, streamed, expiries>>

OpenSources ==
    /\ pc = "open"
    /\ pc' = "run"
    /\ UNCHANGED <<file, user, approved, streamed, expiries>>

(* Without NATS, or without the microphone or the input hook, main returns. *)
ConnectOrOpenFails ==
    /\ \/ "nats" \in Faults /\ pc = "connect"
       \/ "device" \in Faults /\ pc = "open"
    /\ pc' = "off"
    /\ UNCHANGED <<file, user, approved, streamed, expiries>>

(* PublishActivity refuses an envelope without a user, and its error stops *)
(* the listeners and the agent.                                            *)
PublishEvent ==
    /\ pc = "run"
    /\ IF user = NoUser
         THEN pc' = "off" /\ UNCHANGED streamed
         ELSE streamed' = streamed \cup {user} /\ UNCHANGED pc
    /\ UNCHANGED <<file, user, approved, expiries>>

Stop ==
    /\ pc = "run"
    /\ pc' = "off"
    /\ UNCHANGED <<file, user, approved, streamed, expiries>>

Crash ==
    /\ "crash" \in Faults
    /\ pc # "off"
    /\ pc' = "off"
    /\ UNCHANGED <<file, user, approved, streamed, expiries>>

Expire ==
    /\ file.state = "valid"
    /\ expiries < MaxExpiry
    /\ expiries' = expiries + 1
    /\ file' = Stored("expired", file.user)
    /\ UNCHANGED <<user, approved, streamed, pc>>

MainStep ==
    \/ Launch
    \/ Load
    \/ Login
    \/ Truncate
    \/ Write
    \/ Connect
    \/ OpenSources
    \/ PublishEvent

Next ==
    \/ MainStep
    \/ LoadFails
    \/ LoginFails
    \/ SaveFails
    \/ ConnectOrOpenFails
    \/ Stop
    \/ Crash
    \/ Expire

Spec == Init /\ [][Next]_vars

(* Main goes on, users log in and produce input, and somebody starts the   *)
(* agent again whenever it is off.                                         *)
FairSpec == Spec /\ WF_vars(MainStep)

--------------------------------------------------------------------------------
(* Properties *)

(* A run never publishes under anyone but the user whose credentials are   *)
(* stored: expired credentials of another user are not used again, neither *)
(* before nor after the login that replaces them, nor when it fails.       *)
NoStaleUser ==
    pc \in {"connect", "open", "run"} /\ user # NoUser => file.user = user

(* Credentials that are valid stay in the file until they expire: no run,  *)
(* wherever it fails or dies, truncates or replaces them, although SaveTo  *)
(* truncates the file before it writes it.                                 *)
ValidCredentialsSurvive ==
    [][file.state = "valid" => file' \in {file, Stored("expired", file.user)}]_vars

(* "Every mic event and keyboard/mouse event is timestamped and streamed"  *)
(* (README.md:32): an agent that has logged in and saved its credentials   *)
(* streams as that user.                                                   *)
LoginIsUsed ==
    pc = "run" /\ approved # NoUser /\ file = Stored("valid", approved)
        => user = approved

(* An agent that is started again and again streams in the end, once       *)
(* nothing fails or stops it any more and whatever has failed before, unless *)
(* a save was cut short: a torn file is never replaced, because main asks  *)
(* for a login only when the file is missing or does not validate.         *)
StreamsInTheEnd ==
    <>[][MainStep]_vars /\ [](file = Torn => pc = "write") => <>(streamed # {})

--------------------------------------------------------------------------------
(* Inductive invariant: main knows a user only from a valid file, and goes *)
(* to the login, the one place that replaces the file, only without one;   *)
(* what it saves is the user who approved.                                 *)
Inv ==
    /\ TypeOK
    /\ NoStaleUser
    /\ pc \in {"load", "login", "truncate", "write"} => user = NoUser
    /\ pc \in {"truncate", "write"} => approved \in Users
    /\ pc \in {"login", "truncate", "write"} => file.state # "valid"

(* What becomes of a login in the run that performs it, whatever its saving *)
(* and the connection come to: main's own variable never has its user, and *)
(* no event of that run is published.                                      *)
LoginUnused ==
    /\ pc = "load" => approved = NoUser
    /\ approved # NoUser => user = NoUser

LoginRunIsMute == [][approved # NoUser => streamed' = streamed]_vars
================================================================================

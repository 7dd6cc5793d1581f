------------------------------ MODULE DeviceLogin ------------------------------
(***************************************************************************)
(* One device login: the agent's DeviceLoginClient (internal/auth/         *)
(* device.go), the gateway's device handlers (internal/gateway/            *)
(* device_handlers.go, run by cmd/gateway) and DeviceLoginService over its *)
(* Redis key (internal/auth/device_login.go), with the users who approve   *)
(* it.  The key is all the gateway's process keeps of a login.             *)
(*                                                                         *)
(* Every login has a key of its own, so one is enough.  A value of the key *)
(* is the sequence of parts that splitColon makes of it.  Time passes in   *)
(* ticks; an approval is two Redis calls, a GET and a SET, between which   *)
(* other approvals, polls and ticks come.                                  *)
(***************************************************************************)
EXTENDS Naturals, Sequences

CONSTANTS Requests,      \* calls of the approve endpoint; each makes a token
          UserParts,     \* UserParts[r]: its user_id, split at the colons
          PendingTTL,    \* lifetime of a pending key, 10 minutes in the code
          ApprovedTTL,   \* lifetime of an approved key, 5 minutes
          ExpiresIn,     \* expires_in of the start response, 600 seconds
          Interval,      \* its poll interval, 5 seconds
          Environments   \* what a login may have to deal with, see below

(* An environment has the answers to a poll before the approval, each an   *)
(* HTTP code and the status field of its body, if it has one.  The gateway *)
(* answers with 400 and no status (DeviceTokenHandler), the client's tests *)
(* with 200 and a status.  An environment may be prompt, the agent's steps *)
(* taking no time; and it has these faults:                                *)
(* hang:   a request for the token is never answered                       *)
(* net:    a request of the agent fails or its answer is lost              *)
(* redis:  a GET or a SET fails                                            *)
(* stop:   the gateway's process ends, and may be started again            *)
(* cancel: the agent is told to stop while it waits for the login          *)
PendingAnswers ==
    [code : {200, 400}, status : {"none", "pending", "expired", "denied"}]

ASSUME DeviceLoginAssumption ==
    /\ \A r \in Requests : UserParts[r] \in Seq(STRING) /\ UserParts[r] # <<>>
    /\ PendingTTL \in Nat \ {0}
    /\ ApprovedTTL \in Nat \ {0}
    /\ ExpiresIn \in Nat \ {0}
    /\ Interval \in Nat \ {0}
    /\ \A e \in Environments :
          /\ e.pending \subseteq PendingAnswers /\ e.pending # {}
          /\ e.prompt \in BOOLEAN
          /\ e.faults \subseteq {"hang", "net", "redis", "stop", "cancel"}

VARIABLES env,      \* the environment of this login
          gateway,  \* the gateway's process is up or down
          login,    \* parts of the key's value; <<>> when there is no key
          ttl,      \* ticks until the key expires
          request,  \* how far each approval is
          agent,    \* where the agent is in Start and Poll
          reply,    \* the answer to its last poll
          left,     \* ticks until the deadline of Poll
          phase,    \* ticks until the ticker fires
          ticked    \* the ticker's channel holds a tick

pollVars == <<left, phase, ticked>>
vars == <<env, gateway, login, ttl, request, agent, reply, left, phase, ticked>>

AnswersWhilePending == env.pending
Prompt == env.prompt
Faults == env.faults

UserCode == "usercode"

(* What a poll is answered: besides the HTTP code and the status, when     *)
(* approved, the user and the token.                                       *)
Unanswered == [code |-> 0, status |-> "none"]
Refused == [code |-> 400, status |-> "none"]
Approved(user, token) ==
    [code |-> 200, status |-> "approved", user |-> user, token |-> token]

(* The answer on which Poll goes on. *)
AskAgain == [code |-> 200, status |-> "pending"]

Ended == {"approved", "expired", "failed"}

Init ==
    /\ env \in Environments
    /\ gateway = "down"
    /\ login = <<>>
    /\ ttl = 0
    /\ request = [r \in Requests |-> "idle"]
    /\ agent = "idle"
    /\ reply = Unanswered
    /\ left = 0
    /\ phase = 0
    /\ ticked = FALSE

--------------------------------------------------------------------------------
(* DeviceLoginService and its handlers *)

(* main of cmd/gateway: a process that starts knows of no request, and of  *)
(* a login only what the key holds.                                        *)
GatewayStarts ==
    /\ gateway = "down"
    /\ gateway' = "up"
    /\ UNCHANGED <<env, login, ttl, request, agent, reply, left, phase, ticked>>

(* The end of main, after a signal: Stop does nothing and closes nothing,  *)
(* so an approval that has passed its check is cut off before its SET.     *)
GatewayStops ==
    /\ "stop" \in Faults
    /\ gateway = "up"
    /\ gateway' = "down"
    /\ request' = [r \in Requests |-> IF request[r] = "checked" THEN "refused" ELSE request[r]]
    /\ UNCHANGED <<env, login, ttl, agent, reply, left, phase, ticked>>

(* The start endpoint: the pending key is written before the agent has the *)
(* device code.                                                            *)
StartLogin ==
    /\ agent = "idle"
    /\ \/ /\ gateway = "up"
          /\ login' = <<UserCode, "pending">>
          /\ ttl' = PendingTTL
          /\ agent' = "started"
       \/ /\ gateway = "down" \/ "redis" \in Faults
          /\ agent' = "failed"
          /\ UNCHANGED <<login, ttl>>
    /\ UNCHANGED <<env, gateway, request, reply, left, phase, ticked>>

(* Mutant: Approve does not look at the status. *)
IsPendingUnchecked(value) == Len(value) >= 2

IsPending(value) == Len(value) >= 2 /\ value[2] = "pending"

(* Approve, its GET: a missing, expired or approved key is refused, and so *)
(* is any if the GET fails.  Users learn of the login from the agent, once *)
(* it has the code.                                                        *)
CheckPending(r) ==
    /\ gateway = "up"
    /\ agent \notin {"idle", "started"}
    /\ request[r] = "idle"
    /\ \/ /\ IsPending(login)
          /\ request' = [request EXCEPT ![r] = "checked"]
       \/ /\ ~IsPending(login) \/ "redis" \in Faults
          /\ request' = [request EXCEPT ![r] = "refused"]
    /\ UNCHANGED <<env, gateway, login, ttl, agent, reply, left, phase, ticked>>

ApprovedValue(r) == <<UserCode, "approved">> \o UserParts[r] \o <<r>>

(* Mutant: the SET gives the key no lifetime of its own. *)
SetApprovedKeepTTL(r) ==
    /\ request[r] = "checked"
    /\ login' = ApprovedValue(r)
    /\ request' = [request EXCEPT ![r] = "granted"]
    /\ UNCHANGED <<env, gateway, ttl, agent, reply, left, phase, ticked>>

(* Approve, its SET: it writes over whatever the key holds by now, and     *)
(* makes the key again if it has expired.  An approval is granted when its *)
(* SET takes effect, whatever the user is told: the reply of the SET, or   *)
(* the gateway itself, may be gone by then.                                *)
SetApproved(r) ==
    /\ request[r] = "checked"
    /\ \/ /\ login' = ApprovedValue(r)
          /\ ttl' = ApprovedTTL
          /\ request' = [request EXCEPT ![r] = "granted"]
       \/ /\ "redis" \in Faults
          /\ request' = [request EXCEPT ![r] = "refused"]
          /\ UNCHANGED <<login, ttl>>
    /\ UNCHANGED <<env, gateway, agent, reply, left, phase, ticked>>

(* Mutants: the user is read for the token; a part too many is asked for.  *)
TokenReplyShifted(value, pending) ==
    IF value = <<>> THEN Refused
    ELSE IF value[2] # "approved" \/ Len(value) < 4 THEN pending
    ELSE Approved(value[2], value[3])
TokenReplyOffByOne(value, pending) ==
    IF value = <<>> THEN Refused
    ELSE IF value[2] # "approved" \/ Len(value) <= 4 THEN pending
    ELSE Approved(value[3], value[4])

(* Token takes the third part for the user and the fourth for the token;   *)
(* its errors are answered with 400, whatever that is for a pending login. *)
TokenReply(value, pending) ==
    IF value = <<>> THEN Refused
    ELSE IF value[2] # "approved" \/ Len(value) < 4 THEN pending
    ELSE Approved(value[3], value[4])

AnswerPoll ==
    /\ gateway = "up"
    /\ agent = "poll"
    /\ \/ \E pending \in AnswersWhilePending : reply' = TokenReply(login, pending)
       \/ "redis" \in Faults /\ reply' = Refused
    /\ agent' = "answered"
    /\ UNCHANGED <<env, gateway, login, ttl, request, left, phase, ticked>>

--------------------------------------------------------------------------------
(* DeviceLoginClient *)

(* Poll starts its deadline and its ticker, and asks at once. *)
BeginPoll ==
    /\ agent = "started"
    /\ agent' = "poll"
    /\ left' = ExpiresIn
    /\ phase' = Interval
    /\ ticked' = FALSE
    /\ UNCHANGED <<env, gateway, login, ttl, request, reply>>

(* A token is blank when it is read from a user_id that ends in a colon.   *)
Blank(answer) == "token" \in DOMAIN answer /\ answer.token = ""

(* pollOnce returns an error for a code that is not 2xx, and Poll hands it *)
(* on.  Otherwise the status field decides: Poll goes on with "pending"    *)
(* alone, and ends on a denied login, an unknown status and none.          *)
AfterReply(answer) ==
    CASE answer.code # 200 -> "failed"
      [] answer.code = 200 /\ answer.status = "pending" -> "wait"
      [] answer.code = 200 /\ answer.status = "expired" -> "expired"
      [] answer.code = 200 /\ answer.status = "approved" ->
            IF Blank(answer) THEN "failed" ELSE "approved"
      [] OTHER -> "failed"

Receive ==
    /\ agent = "answered"
    /\ agent' = AfterReply(reply)
    /\ UNCHANGED <<env, gateway, login, ttl, request, reply, left, phase, ticked>>

PollAgain ==
    /\ agent = "wait"
    /\ ticked
    /\ agent' = "poll"
    /\ ticked' = FALSE
    /\ UNCHANGED <<env, gateway, login, ttl, request, reply, left, phase>>

(* Mutant: pollOnce is called with ctx instead of pollContext. *)
PollExpiresOnlyWaiting ==
    /\ agent = "wait"
    /\ left = 0
    /\ agent' = "expired"
    /\ UNCHANGED <<env, gateway, login, ttl, request, reply, left, phase, ticked>>

(* The deadline ends the wait, and through pollContext a request too.      *)
PollExpires ==
    /\ agent \in {"poll", "answered", "wait"}
    /\ left = 0
    /\ agent' = "expired"
    /\ UNCHANGED <<env, gateway, login, ttl, request, reply, left, phase, ticked>>

(* A request that is lost, refused or cut off.  Poll does not try again.   *)
RequestFails ==
    /\ "net" \in Faults \/ gateway = "down"
    /\ agent \in {"started", "poll", "answered"}
    /\ agent' = "failed"
    /\ UNCHANGED <<env, gateway, login, ttl, request, reply, left, phase, ticked>>

Cancelled ==
    /\ "cancel" \in Faults
    /\ agent \in {"started", "poll", "answered", "wait"}
    /\ agent' = "failed"
    /\ UNCHANGED <<env, gateway, login, ttl, request, reply, left, phase, ticked>>

--------------------------------------------------------------------------------
(* Time *)

AgentIsDue ==
    \/ agent \in {"started", "poll", "answered"}
    \/ agent = "wait" /\ (ticked \/ left = 0)

Polling == agent \in {"poll", "answered", "wait"}

(* The timers of Poll.  A tick that nobody takes stays in the channel; the *)
(* next one is dropped.                                                    *)
CountDown ==
    IF Polling
      THEN /\ left' = IF left > 0 THEN left - 1 ELSE 0
           /\ phase' = IF phase > 1 THEN phase - 1 ELSE Interval
           /\ ticked' = (ticked \/ phase = 1)
      ELSE UNCHANGED pollVars

Tick ==
    /\ ttl > 0 \/ Polling
    /\ Prompt => ~AgentIsDue
    /\ ttl' = IF ttl > 0 THEN ttl - 1 ELSE 0
    /\ login' = IF ttl > 1 THEN login ELSE <<>>
    /\ CountDown
    /\ UNCHANGED <<env, gateway, request, agent, reply>>

--------------------------------------------------------------------------------
Next ==
    \/ GatewayStarts
    \/ GatewayStops
    \/ StartLogin
    \/ \E r \in Requests : CheckPending(r) \/ SetApproved(r)
    \/ AnswerPoll
    \/ BeginPoll
    \/ Receive
    \/ PollAgain
    \/ PollExpires
    \/ RequestFails
    \/ Cancelled
    \/ Tick

Spec == Init /\ [][Next]_vars

(* The agent's own steps and the clock do not stop; the gateway answers    *)
(* unless requests may hang.  Nobody has to approve.                       *)
FairSpec ==
    /\ Spec
    /\ WF_vars(BeginPoll \/ PollAgain \/ PollExpires)
    /\ WF_vars(Tick)
    /\ WF_vars("hang" \notin Faults /\ AnswerPoll)
    /\ WF_vars("hang" \notin Faults /\ Receive)

--------------------------------------------------------------------------------
(* Properties *)

Longest == IF PendingTTL > ApprovedTTL THEN PendingTTL ELSE ApprovedTTL

TypeOK ==
    /\ env \in Environments
    /\ gateway \in {"up", "down"}
    /\ login = <<>> <=> ttl = 0
    /\ ttl \in 0..Longest
    /\ request \in [Requests -> {"idle", "checked", "granted", "refused"}]
    /\ agent \in {"idle", "started", "poll", "answered", "wait"} \cup Ended
    /\ reply.code \in {0, 200, 400}
    /\ left \in 0..ExpiresIn
    /\ phase \in 0..Interval
    /\ ticked \in BOOLEAN

(* The agent logs in only with the user and the token of one approval that *)
(* was granted, whichever approvals raced for the key and whenever the     *)
(* gateway stopped and came back.  A user_id that contains a colon shifts  *)
(* the parts Token reads, so it is left out.                               *)
TokenIsIssued ==
    agent = "approved" =>
        \E r \in Requests :
            /\ request[r] = "granted"
            /\ Len(UserParts[r]) = 1 =>
                  reply.user = UserParts[r][1] /\ reply.token = r

(* Approving is a GET and a SET, so two approvals that overlap may both be *)
(* granted.  Two that do not overlap never are: once one is granted, every *)
(* approval that begins later is refused, also after the key expired.      *)
LaterApprovalsRefused ==
    [][\A r, s \in Requests :
          request[r] = "granted" /\ request[s] = "idle" => request'[s] # "checked"]_vars

(* A code that was approved is not approved again by someone else: "Only   *)
(* proceed if status is pending" (device_login.go:105).                    *)
ApprovalIsFinal ==
    [][\A r, s \in Requests :
          request[r] = "granted" /\ request'[s] = "granted" => request[s] = "granted"]_vars

(* "Poll waits for device approval" (device.go:90): with no fault it does  *)
(* not give up while the code is pending and its deadline has not passed.  *)
PollWaitsForApproval ==
    Faults = {} => ~(agent = "failed" /\ IsPending(login) /\ left > 0)

(* Once it polls, the login ends, even when the gateway stops answering in *)
(* the middle: the agent's start-up does not hang on Poll.  The request of *)
(* Start, before it, has no deadline.                                      *)
LoginEnds == agent = "poll" ~> agent \in Ended

(* An approval waits for the agent: with an agent that polls on time and   *)
(* no fault, the approved key, which lives half as long as the login it    *)
(* answers, does not expire before a poll has read it.                     *)
ApprovalAwaitsPoll ==
    ApprovedTTL > Interval /\ Prompt /\ Faults = {} =>
        \A r \in Requests :
            request[r] = "granted" /\ Polling /\ "token" \notin DOMAIN reply
                => login # <<>>

(* With a gateway that reports pending logins as the client expects and an *)
(* agent that polls on time, an approval granted while there is still an   *)
(* interval to go before the deadline logs the agent in: the approved key  *)
(* outlives the interval between two polls.  Only a blank token does not.  *)
ApprovalLogsIn ==
    ApprovedTTL > Interval =>
        \A r \in Requests :
            (/\ Prompt /\ AnswersWhilePending = {AskAgain} /\ Faults = {}
             /\ request[r] = "granted" /\ agent = "wait" /\ left > Interval)
                ~> agent = "approved" \/ (agent = "failed" /\ Blank(reply))

--------------------------------------------------------------------------------
(* Inductive invariants *)

(* The key holds a pending login or the value of a granted approval, and   *)
(* never a pending one again after the first grant.                        *)
KeyOK ==
    /\ \/ login \in {<<>>, <<UserCode, "pending">>}
       \/ \E r \in Requests : request[r] = "granted" /\ login = ApprovedValue(r)
    /\ agent \in {"idle", "started"} => \A r \in Requests : request[r] = "idle"
    /\ (\E r \in Requests : request[r] = "granted") => ~IsPending(login)

(* A reply with a token was read from such a value.                        *)
ReplyOK ==
    /\ "token" \in DOMAIN reply =>
          \E r \in Requests :
              /\ request[r] = "granted"
              /\ reply = Approved(ApprovedValue(r)[3], ApprovedValue(r)[4])
    /\ reply.status = "approved" => "token" \in DOMAIN reply
    /\ agent = "approved" => "token" \in DOMAIN reply

Inv == TypeOK /\ KeyOK /\ ReplyOK

(* A token in the reply is about to be received or has been.  With a prompt *)
(* agent, no tick comes while a request is under way, and an approved key  *)
(* that the agent has not read lives past the next tick of its ticker.     *)
Unread == Polling /\ "token" \notin DOMAIN reply /\ \E r \in Requests : request[r] = "granted"

InTime ==
    /\ Polling => phase \in 1..Interval
    /\ agent \in {"poll", "answered"} => ~ticked
    /\ Unread => ttl > 0
    /\ Unread /\ agent \in {"answered", "wait"} /\ ~ticked => ttl > phase

TimeOK ==
    /\ "token" \in DOMAIN reply => agent \in {"answered"} \cup Ended
    /\ ApprovedTTL > Interval /\ Prompt /\ Faults = {} => InTime

(* With no fault the gateway stays up, and then the agent gives up only on *)
(* an answer that it takes for an end: of a key that is gone, and of a     *)
(* pending one unless that is AskAgain.                                    *)
PatientOK ==
    AnswersWhilePending = {AskAgain} /\ Faults = {} =>
        /\ agent = "idle" => login = <<>>
        /\ agent \in {"started", "poll", "answered", "wait"} => gateway = "up"
        /\ agent = "answered" /\ reply # AskAgain => ~IsPending(login)
        /\ agent = "failed" => ~IsPending(login)

(* And without that answer it never waits. *)
NeverWaits == agent # "wait" /\ ~(reply.code = 200 /\ reply.status = "pending")

ImpatientOK == AskAgain \notin AnswersWhilePending => NeverWaits

LoginInv == Inv /\ TimeOK /\ PatientOK /\ ImpatientOK

(* Approvals that come one at a time: none passes its check while another  *)
(* one is between its GET and its SET.                                     *)
OneAtATime ==
    \A r, s \in Requests : request[r] = "checked" /\ request[s] = "checked" => r = s

(* Then, once one is granted, no other is on its way to the SET.           *)
NoneOverlaps ==
    (\E r \in Requests : request[r] = "granted")
        => \A s \in Requests : request[s] # "checked"
================================================================================

--------------------------- MODULE DeviceLoginProofs ---------------------------
(***************************************************************************)
(* What TLC finds of DeviceLogin with three approvals, for any number of   *)
(* them, every lifetime, deadline and interval, and every fault.           *)
(***************************************************************************)
EXTENDS DeviceLogin, TLAPS

(* A sequence over a set is one over any larger set. *)
LEMMA LargerSet ==
    ASSUME NEW T, NEW S, T \subseteq S, NEW u \in Seq(T)
    PROVE  u \in Seq(S)
OBVIOUS

(* Where the parts of a value come to lie. *)
LEMMA Joined ==
    ASSUME NEW S, NEW c \in S, NEW r \in S, NEW u \in Seq(S), "approved" \in S
    PROVE  /\ (<<c, "approved">> \o u \o <<r>>)[2] = "approved"
           /\ Len(<<c, "approved">> \o u \o <<r>>) = Len(u) + 3
           /\ u # <<>> => (<<c, "approved">> \o u \o <<r>>)[3] = u[1]
           /\ (<<c, "approved">> \o u \o <<r>>)[Len(u) + 3] = r
<1>1. (<<c, "approved">> \o u \o <<r>>)[2] = "approved"
  OBVIOUS
<1>2. Len(<<c, "approved">> \o u \o <<r>>) = Len(u) + 3
  OBVIOUS
<1>3. ASSUME u # <<>> PROVE (<<c, "approved">> \o u \o <<r>>)[3] = u[1]
  <2>1. 1 \in 1..Len(u)
    BY <1>3
  <2> QED
    BY <2>1
<1>4. (<<c, "approved">> \o u \o <<r>>)[Len(u) + 3] = r
  OBVIOUS
<1> QED
  BY <1>1, <1>2, <1>3, <1>4

(* The value of an approval is an approved one, of four parts at least; with *)
(* a user_id that is one part, the third is the user and the fourth the      *)
(* token.                                                                    *)
LEMMA ApprovedParts ==
    ASSUME NEW r \in Requests
    PROVE  /\ ApprovedValue(r) # <<>>
           /\ ApprovedValue(r)[2] = "approved"
           /\ Len(ApprovedValue(r)) \in Nat /\ Len(ApprovedValue(r)) >= 4
           /\ Len(UserParts[r]) = 1 =>
                 ApprovedValue(r)[3] = UserParts[r][1] /\ ApprovedValue(r)[4] = r
<1> DEFINE S == Requests \cup STRING \cup {UserCode, "approved"}
           u == UserParts[r]
           v == <<UserCode, "approved">> \o u \o <<r>>
<1>1. u \in Seq(STRING) /\ u # <<>>
  BY DeviceLoginAssumption
<1>2. u \in Seq(S)
  BY <1>1, LargerSet
<1>3. UserCode \in S /\ "approved" \in S /\ r \in S
  OBVIOUS
<1> HIDE DEF S, u
<1>4. v[2] = "approved" /\ Len(v) = Len(u) + 3 /\ v[3] = u[1] /\ v[Len(u) + 3] = r
  BY <1>1, <1>2, <1>3, Joined
<1>5. Len(u) \in Nat \ {0}
  BY <1>1
<1> HIDE DEF v
<1>6. v # <<>>
  BY <1>4, <1>5
<1>7. Len(u) = 1 => v[3] = u[1] /\ v[4] = r
  BY <1>4
<1>8. ApprovedValue(r) = v
  BY DEF ApprovedValue, v, u
<1> QED
  BY <1>4, <1>5, <1>6, <1>7, <1>8 DEF u

(* Only a pending value passes the check of Approve. *)
LEMMA PendingValues ==
    /\ ~IsPending(<<>>)
    /\ \A r \in Requests : ~IsPending(ApprovedValue(r))
BY ApprovedParts DEF IsPending

(* What DeviceTokenHandler and the client's tests answer while pending. *)
LEMMA PendingReplies ==
    ASSUME TypeOK, NEW a \in AnswersWhilePending
    PROVE  /\ a.code \in {200, 400}
           /\ a.status # "approved"
           /\ "token" \notin DOMAIN a
           /\ a.code = 200 /\ a.status = "pending" => a = AskAgain
<1>1. a \in PendingAnswers
  BY DeviceLoginAssumption DEF TypeOK, AnswersWhilePending
<1> QED
  BY <1>1 DEF PendingAnswers, AskAgain

(* An answer of Token is the one of a refusal, one of a pending login, or  *)
(* has a token; that only if the key held the value of an approval.        *)
LEMMA RepliesOfToken ==
    ASSUME KeyOK, NEW a
    PROVE  \/ TokenReply(login, a) = Refused /\ login = <<>>
           \/ TokenReply(login, a) = a
           \/ \E r \in Requests :
                 /\ request[r] = "granted"
                 /\ TokenReply(login, a)
                        = Approved(ApprovedValue(r)[3], ApprovedValue(r)[4])
<1> USE DEF TokenReply
<1>1. CASE login = <<>>
  BY <1>1
<1>2. CASE login = <<UserCode, "pending">>
  BY <1>2
<1>3. ASSUME NEW r \in Requests, request[r] = "granted", login = ApprovedValue(r)
      PROVE  TokenReply(login, a) = Approved(login[3], login[4])
  BY <1>3, ApprovedParts
<1> QED
  BY <1>1, <1>2, <1>3 DEF KeyOK

(* So the agent's next answer is one of three kinds. *)
LEMMA NextReply ==
    ASSUME TypeOK, KeyOK, AnswerPoll
    PROVE  /\ UNCHANGED <<login, request, gateway>> /\ agent' = "answered"
           /\ \/ reply' = Refused /\ (login = <<>> \/ Faults # {})
              \/ reply' \in AnswersWhilePending
              \/ \E r \in Requests :
                    /\ request[r] = "granted"
                    /\ reply' = Approved(ApprovedValue(r)[3], ApprovedValue(r)[4])
<1>1. UNCHANGED <<login, request, gateway>> /\ agent' = "answered"
  BY DEF AnswerPoll
<1>2. CASE "redis" \in Faults /\ reply' = Refused
  BY <1>1, <1>2
<1>3. ASSUME NEW a \in AnswersWhilePending, reply' = TokenReply(login, a)
      PROVE  \/ reply' = Refused /\ (login = <<>> \/ Faults # {})
             \/ reply' \in AnswersWhilePending
             \/ \E r \in Requests :
                   /\ request[r] = "granted"
                   /\ reply' = Approved(ApprovedValue(r)[3], ApprovedValue(r)[4])
  BY <1>3, RepliesOfToken
<1> QED
  BY <1>1, <1>2, <1>3 DEF AnswerPoll

(* Poll goes on after one answer alone, and logs in with a token only. *)
LEMMA AfterReplies ==
    ASSUME NEW a
    PROVE  /\ AfterReply(a) \in {"wait"} \cup Ended
           /\ AfterReply(a) = "wait" <=> a.code = 200 /\ a.status = "pending"
           /\ AfterReply(a) = "approved" => a.status = "approved"
BY DEF AfterReply, Ended

(* No key, no approval, nothing asked yet. *)
LEMMA InitEstablishes == Init => Inv
<1> SUFFICES ASSUME Init PROVE Inv
  OBVIOUS
<1>1. TypeOK
  <2>1. 0 \in 0..Longest /\ 0 \in 0..ExpiresIn /\ 0 \in 0..Interval
    BY DeviceLoginAssumption DEF Longest
  <2>2. reply.code = 0 /\ ticked \in BOOLEAN
    BY DEF Init, Unanswered
  <2> QED
    BY <2>1, <2>2 DEF Init, TypeOK
<1>2. KeyOK
  BY DEF Init, KeyOK
<1>3. ReplyOK
  BY DEF Init, ReplyOK, Unanswered
<1> QED
  BY <1>1, <1>2, <1>3 DEF Inv

(* Every step keeps the variables in their types, and the key's lifetime   *)
(* runs out exactly when the key goes.                                     *)
LEMMA TypeStep == TypeOK /\ KeyOK /\ [Next]_vars => TypeOK'
<1> SUFFICES ASSUME TypeOK, KeyOK, [Next]_vars PROVE TypeOK'
  OBVIOUS
<1> USE DEF TypeOK, Ended
<1>0. Longest \in Nat /\ PendingTTL \in 1..Longest /\ ApprovedTTL \in 1..Longest
  BY DeviceLoginAssumption DEF Longest
<1>1. CASE StartLogin
  <2>1. \/ login' = login /\ ttl' = ttl
        \/ login' = <<UserCode, "pending">> /\ ttl' = PendingTTL
    BY <1>1 DEF StartLogin
  <2>2. <<UserCode, "pending">> # <<>> /\ PendingTTL # 0
    BY <1>0
  <2>3. agent' \in {"started", "failed"}
    BY <1>1 DEF StartLogin
  <2>4. UNCHANGED <<env, gateway, request, reply, left, phase, ticked>>
    BY <1>1 DEF StartLogin
  <2>5. (login' = <<>> <=> ttl' = 0) /\ ttl' \in 0..Longest
    <3>1. CASE login' = login /\ ttl' = ttl
      BY <3>1
    <3>2. CASE login' = <<UserCode, "pending">> /\ ttl' = PendingTTL
      BY <1>0, <2>2, <3>2
    <3> QED
      BY <2>1, <3>1, <3>2
  <2> QED
    BY <2>3, <2>4, <2>5
<1>2. ASSUME NEW r \in Requests, CheckPending(r) PROVE TypeOK'
  BY <1>2 DEF CheckPending
<1>3. ASSUME NEW r \in Requests, SetApproved(r) PROVE TypeOK'
  <2>1. (login' = <<>> <=> ttl' = 0) /\ ttl' \in 0..Longest
    BY <1>0, <1>3, ApprovedParts DEF SetApproved
  <2>2. request' \in [Requests -> {"idle", "checked", "granted", "refused"}]
    BY <1>3 DEF SetApproved
  <2>3. UNCHANGED <<env, gateway, agent, reply, left, phase, ticked>>
    BY <1>3 DEF SetApproved
  <2> QED
    BY <2>1, <2>2, <2>3
<1>4. CASE AnswerPoll
  <2>1. reply'.code \in {200, 400}
    BY <1>4, NextReply, PendingReplies DEF Refused, Approved
  <2> QED
    BY <1>4, <2>1 DEF AnswerPoll
<1>5. CASE BeginPoll
  <2>1. ExpiresIn \in 0..ExpiresIn /\ Interval \in 0..Interval
    BY DeviceLoginAssumption
  <2> QED
    BY <1>5, <2>1 DEF BeginPoll
<1>6. CASE Receive
  BY <1>6, AfterReplies DEF Receive
<1>7. CASE PollAgain
  BY <1>7 DEF PollAgain
<1>8. CASE GatewayStarts \/ GatewayStops \/ PollExpires \/ RequestFails \/ Cancelled
  BY <1>8 DEF GatewayStarts, GatewayStops, PollExpires, RequestFails, Cancelled
<1>9. CASE Tick
  <2>1. ttl \in Nat /\ (ttl > 1 => login # <<>>)
    BY <1>0 DEF Longest
  <2>2. /\ ttl' = IF ttl > 0 THEN ttl - 1 ELSE 0
        /\ login' = IF ttl > 1 THEN login ELSE <<>>
    BY <1>9 DEF Tick
  <2>3. (login' = <<>> <=> ttl' = 0) /\ ttl' \in 0..Longest
    <3>1. CASE ttl > 1
      BY <1>0, <2>1, <2>2, <3>1
    <3>2. CASE ttl \in {0, 1}
      BY <1>0, <2>2, <3>2
    <3> QED
      BY <2>1, <3>1, <3>2
  <2>4. left' \in 0..ExpiresIn
    BY <1>9, DeviceLoginAssumption DEF Tick, CountDown, pollVars
  <2>5. phase' \in 0..Interval
    BY <1>9, DeviceLoginAssumption DEF Tick, CountDown, pollVars
  <2>6. ticked' \in BOOLEAN
    BY <1>9 DEF Tick, CountDown, pollVars
  <2>7. UNCHANGED <<env, gateway, request, agent, reply>>
    BY <1>9 DEF Tick
  <2> QED
    BY <2>4, <2>5, <2>6, <2>7, <2>3
<1>10. CASE UNCHANGED vars
  BY <1>10 DEF vars
<1> QED
  BY <1>1, <1>2, <1>3, <1>4, <1>5, <1>6, <1>7, <1>8, <1>9, <1>10 DEF Next

(* A pending login is written only while there is no approval yet. *)
LEMMA KeyStep == TypeOK /\ KeyOK /\ [Next]_vars => KeyOK'
<1> SUFFICES ASSUME TypeOK, KeyOK, [Next]_vars PROVE KeyOK'
  OBVIOUS
<1> USE DEF TypeOK, KeyOK, Ended
<1>1. CASE StartLogin
  BY <1>1 DEF StartLogin
<1>2. ASSUME NEW r \in Requests, CheckPending(r) PROVE KeyOK'
  BY <1>2 DEF CheckPending
<1>3. ASSUME NEW r \in Requests, SetApproved(r) PROVE KeyOK'
  BY <1>3, PendingValues DEF SetApproved
<1>4. CASE \/ GatewayStarts \/ GatewayStops \/ AnswerPoll \/ BeginPoll \/ PollAgain
           \/ PollExpires \/ RequestFails \/ Cancelled
  BY <1>4 DEF GatewayStarts, GatewayStops, AnswerPoll, BeginPoll, PollAgain, PollExpires,
              RequestFails, Cancelled
<1>5. CASE Receive
  BY <1>5, AfterReplies DEF Receive
<1>6. CASE Tick
  BY <1>6, PendingValues DEF Tick
<1>7. CASE UNCHANGED vars
  BY <1>7 DEF vars
<1> QED
  BY <1>1, <1>2, <1>3, <1>4, <1>5, <1>6, <1>7 DEF Next

(* What was read with a token stays the value of a granted approval. *)
LEMMA ReplyStep == TypeOK /\ KeyOK /\ ReplyOK /\ [Next]_vars => ReplyOK'
<1> SUFFICES ASSUME TypeOK, KeyOK, ReplyOK, [Next]_vars PROVE ReplyOK'
  OBVIOUS
<1> USE DEF TypeOK, ReplyOK, Ended
<1>1. CASE StartLogin
  BY <1>1 DEF StartLogin
<1>2. ASSUME NEW r \in Requests, CheckPending(r) \/ SetApproved(r) PROVE ReplyOK'
  BY <1>2 DEF CheckPending, SetApproved
<1>3. CASE AnswerPoll
  <2>1. "token" \in DOMAIN reply' =>
           \E r \in Requests :
               /\ request[r] = "granted"
               /\ reply' = Approved(ApprovedValue(r)[3], ApprovedValue(r)[4])
    BY <1>3, NextReply, PendingReplies DEF Refused
  <2>2. reply'.status = "approved" => "token" \in DOMAIN reply'
    BY <1>3, NextReply, PendingReplies DEF Refused, Approved
  <2>3. agent' = "answered" /\ request' = request
    BY <1>3 DEF AnswerPoll
  <2> QED
    BY <2>1, <2>2, <2>3
<1>4. CASE \/ GatewayStarts \/ GatewayStops \/ BeginPoll \/ PollAgain
           \/ PollExpires \/ RequestFails \/ Cancelled
  BY <1>4 DEF GatewayStarts, GatewayStops, BeginPoll, PollAgain, PollExpires, RequestFails,
              Cancelled
<1>5. CASE Receive
  BY <1>5, AfterReplies DEF Receive
<1>6. CASE Tick
  BY <1>6 DEF Tick
<1>7. CASE UNCHANGED vars
  BY <1>7 DEF vars
<1> QED
  BY <1>1, <1>2, <1>3, <1>4, <1>5, <1>6, <1>7 DEF Next

(* The invariant holds in every state of a login. *)
THEOREM Invariance == Spec => []Inv
<1>1. Inv /\ [Next]_vars => Inv'
  BY TypeStep, KeyStep, ReplyStep DEF Inv
<1> QED
  BY InitEstablishes, <1>1, PTL DEF Spec

(* A key that holds an approval is read as one, with its token. *)
LEMMA ApprovedIsRead ==
    ASSUME KeyOK, login # <<>>, NEW r \in Requests, request[r] = "granted", NEW a
    PROVE  "token" \in DOMAIN TokenReply(login, a)
<1>1. login # <<UserCode, "pending">>
  BY DEF KeyOK, IsPending
<1>2. PICK q \in Requests : login = ApprovedValue(q)
  BY <1>1 DEF KeyOK
<1>3. TokenReply(login, a) = Approved(login[3], login[4])
  BY <1>2, ApprovedParts DEF TokenReply
<1> QED
  BY <1>3 DEF Approved

(* A reply with a token does not keep Poll waiting. *)
LEMMA TokenIsFinal ==
    ASSUME ReplyOK, "token" \in DOMAIN reply PROVE AfterReply(reply) # "wait"
BY AfterReplies DEF ReplyOK, Approved

(* The agent that is answered with a token is done. *)
LEMMA TokenEnds ==
    Inv /\ TimeOK /\ [Next]_vars
        => ("token" \in DOMAIN reply' => agent' \in {"answered"} \cup Ended)
<1> SUFFICES ASSUME Inv, TimeOK, [Next]_vars, "token" \in DOMAIN reply'
             PROVE  agent' \in {"answered"} \cup Ended
  OBVIOUS
<1> USE DEF TimeOK, Ended
<1>1. CASE AnswerPoll
  BY <1>1 DEF AnswerPoll
<1>2. CASE Receive
  BY <1>2, AfterReplies, TokenIsFinal DEF Receive, Inv
<1>3. CASE StartLogin \/ BeginPoll \/ PollAgain
  BY <1>3 DEF StartLogin, BeginPoll, PollAgain
<1>4. CASE PollExpires \/ RequestFails \/ Cancelled
  BY <1>4 DEF PollExpires, RequestFails, Cancelled
<1>5. CASE \/ \E r \in Requests : CheckPending(r) \/ SetApproved(r)
           \/ GatewayStarts \/ GatewayStops \/ Tick \/ UNCHANGED vars
  BY <1>5 DEF CheckPending, SetApproved, GatewayStarts, GatewayStops, Tick, vars
<1> QED
  BY <1>1, <1>2, <1>3, <1>4, <1>5 DEF Next

(* A prompt agent's next poll comes before the approved key expires: the   *)
(* approval gives the key more than an interval, and every tick that the   *)
(* key loses brings the ticker nearer.                                     *)
LEMMA InTimeStep ==
    ASSUME Inv, TimeOK, [Next]_vars, ApprovedTTL > Interval, Prompt, Faults = {}, InTime
    PROVE  InTime'
<1> USE DEF Inv, TypeOK, InTime, Unread, Polling, Ended
<1>0. /\ Interval \in Nat \ {0} /\ ApprovedTTL \in Nat /\ Longest \in Nat
      /\ ttl \in Nat /\ phase \in Nat
  BY DeviceLoginAssumption DEF Longest
<1>1. CASE GatewayStarts \/ GatewayStops \/ StartLogin
  BY <1>1 DEF GatewayStarts, GatewayStops, StartLogin
<1>2. ASSUME NEW r \in Requests, CheckPending(r) PROVE InTime'
  <2>1. \A q \in Requests : request'[q] = "granted" => request[q] = "granted"
    BY <1>2 DEF CheckPending
  <2>2. UNCHANGED <<ttl, agent, reply, phase, ticked>>
    BY <1>2 DEF CheckPending
  <2> QED
    BY <2>1, <2>2
<1>3. ASSUME NEW r \in Requests, SetApproved(r) PROVE InTime'
  <2>1. ttl' = ApprovedTTL /\ UNCHANGED <<agent, reply, phase, ticked>>
    BY <1>3 DEF SetApproved
  <2>2. Polling => ApprovedTTL > phase
    BY <1>0
  <2> QED
    BY <1>0, <2>1, <2>2
<1>4. CASE AnswerPoll
  <2>1. agent = "poll" /\ agent' = "answered" /\ UNCHANGED <<ttl, login, request, phase, ticked>>
    BY <1>4 DEF AnswerPoll
  <2>2. ASSUME NEW r \in Requests, request[r] = "granted" PROVE "token" \in DOMAIN reply'
    <3>1. login # <<>>
      BY <1>0, <2>1, <2>2 DEF TimeOK
    <3> QED
      BY <1>4, <2>2, <3>1, ApprovedIsRead DEF AnswerPoll
  <2> QED
    BY <2>1, <2>2
<1>5. CASE BeginPoll
  <2>1. agent = "started" /\ phase' = Interval /\ ticked' = FALSE /\ agent' = "poll"
    BY <1>5 DEF BeginPoll
  <2>2. \A q \in Requests : request[q] # "granted"
    BY <2>1 DEF KeyOK
  <2>3. request' = request
    BY <1>5 DEF BeginPoll
  <2> QED
    BY <1>0, <2>1, <2>2, <2>3
<1>6. CASE Receive
  BY <1>6, AfterReplies DEF Receive
<1>7. CASE PollAgain
  BY <1>7 DEF PollAgain
<1>8. CASE PollExpires \/ RequestFails \/ Cancelled
  BY <1>8 DEF PollExpires, RequestFails, Cancelled
<1>9. CASE Tick
  <2>1. UNCHANGED <<request, agent, reply>> /\ ttl' = IF ttl > 0 THEN ttl - 1 ELSE 0
    BY <1>9 DEF Tick
  <2>2. CASE ~Polling
    BY <2>1, <2>2
  <2>3. CASE Polling
    <3>1. agent = "wait" /\ ~ticked
      BY <1>9, <2>3 DEF Tick, AgentIsDue
    <3>2. /\ phase' = IF phase > 1 THEN phase - 1 ELSE Interval
          /\ ticked' = (ticked \/ phase = 1)
      BY <1>9, <2>3 DEF Tick, CountDown
    <3>3. phase' \in 1..Interval
      BY <1>0, <2>3, <3>2
    <3>4. Unread => ttl' > 0 /\ (~ticked' => ttl' > phase')
      <4> SUFFICES ASSUME Unread PROVE ttl' > 0 /\ (~ticked' => ttl' > phase')
        OBVIOUS
      <4>1. ttl > phase /\ phase \in 1..Interval
        BY <2>3, <3>1
      <4>2. ttl' = ttl - 1
        BY <1>0, <2>1, <4>1
      <4>3. CASE phase = 1
        <5>1. ticked'
          BY <3>2, <4>3
        <5>2. ttl' > 0
          BY <1>0, <4>1, <4>2, <4>3
        <5> QED
          BY <5>1, <5>2
      <4>4. CASE phase > 1
        BY <1>0, <3>1, <3>2, <4>1, <4>2, <4>4
      <4> QED
        BY <1>0, <4>1, <4>3, <4>4
    <3>5. Unread' => Unread
      BY <2>1
    <3> QED
      BY <2>1, <3>1, <3>3, <3>4, <3>5
  <2> QED
    BY <2>2, <2>3
<1>10. CASE UNCHANGED vars
  BY <1>10 DEF vars
<1> QED
  BY <1>1, <1>2, <1>3, <1>4, <1>5, <1>6, <1>7, <1>8, <1>9, <1>10 DEF Next

(* So TimeOK holds in every state. *)
LEMMA TimeStep == Inv /\ TimeOK /\ [Next]_vars => TimeOK'
<1> SUFFICES ASSUME Inv, TimeOK, [Next]_vars PROVE TimeOK'
  OBVIOUS
<1>1. env' = env
  BY DEF Next, GatewayStarts, GatewayStops, StartLogin, CheckPending, SetApproved,
         AnswerPoll, BeginPoll, Receive, PollAgain, PollExpires, RequestFails,
         Cancelled, Tick, vars
<1>2. ASSUME ApprovedTTL > Interval, Prompt', Faults' = {} PROVE InTime'
  <2>1. Prompt /\ Faults = {}
    BY <1>1, <1>2 DEF Prompt, Faults
  <2>2. InTime
    BY <1>2, <2>1 DEF TimeOK
  <2> QED
    BY <1>2, <2>1, <2>2, InTimeStep
<1>3. "token" \in DOMAIN reply' => agent' \in {"answered"} \cup Ended
  BY TokenEnds
<1> QED
  BY <1>2, <1>3 DEF TimeOK

(* Without faults the agent fails on the answer to a poll alone; if a      *)
(* pending poll is answered with AskAgain, that leaves the answer of a key *)
(* that is gone, and a login that is not pending never is again.           *)
LEMMA PatientStep == Inv /\ PatientOK /\ [Next]_vars => PatientOK'
<1> SUFFICES ASSUME Inv, PatientOK, [Next]_vars PROVE PatientOK'
  OBVIOUS
<1> USE DEF Inv, TypeOK, Ended
<1>1. env' = env
  BY DEF Next, GatewayStarts, GatewayStops, StartLogin, CheckPending, SetApproved,
         AnswerPoll, BeginPoll, Receive, PollAgain, PollExpires, RequestFails,
         Cancelled, Tick, vars
<1> SUFFICES ASSUME AnswersWhilePending = {AskAgain}, Faults = {}
             PROVE  /\ agent' = "idle" => login' = <<>>
                    /\ agent' \in {"started", "poll", "answered", "wait"} => gateway' = "up"
                    /\ agent' = "answered" /\ reply' # AskAgain => ~IsPending(login')
                    /\ agent' = "failed" => ~IsPending(login')
  BY <1>1 DEF PatientOK, AnswersWhilePending, Faults
<1>0. /\ agent = "idle" => login = <<>>
      /\ agent \in {"started", "poll", "answered", "wait"} => gateway = "up"
      /\ agent = "answered" /\ reply # AskAgain => ~IsPending(login)
      /\ agent = "failed" => ~IsPending(login)
  BY DEF PatientOK
<1>2. CASE StartLogin
  <2>1. CASE agent' = "started"
    BY <1>2, <2>1 DEF StartLogin
  <2>2. CASE agent' = "failed"
    BY <1>0, <1>2, <2>2, PendingValues DEF StartLogin
  <2> QED
    BY <1>2, <2>1, <2>2 DEF StartLogin
<1>3. ASSUME NEW r \in Requests, CheckPending(r) PROVE PatientOK'
  BY <1>0, <1>3 DEF CheckPending, PatientOK
<1>4. ASSUME NEW r \in Requests, SetApproved(r) PROVE PatientOK'
  <2>1. agent # "idle" /\ UNCHANGED <<agent, gateway, reply>>
    BY <1>4 DEF SetApproved, KeyOK
  <2>2. login' = login \/ ~IsPending(login')
    BY <1>4, PendingValues DEF SetApproved
  <2> QED
    BY <1>0, <2>1, <2>2 DEF PatientOK
<1>5. CASE AnswerPoll
  <2>1. agent = "poll" /\ agent' = "answered" /\ UNCHANGED <<login, gateway>>
    BY <1>5 DEF AnswerPoll
  <2>2. reply' # AskAgain => ~IsPending(login)
    BY <1>5, NextReply, PendingValues DEF KeyOK
  <2> QED
    BY <1>0, <2>1, <2>2
<1>6. CASE BeginPoll \/ PollAgain \/ PollExpires
  BY <1>0, <1>6 DEF BeginPoll, PollAgain, PollExpires
<1>7. CASE Receive
  <2>1. agent = "answered" /\ agent' = AfterReply(reply) /\ UNCHANGED <<login, gateway, reply>>
    BY <1>7 DEF Receive
  <2>2. reply = AskAgain => agent' = "wait"
    BY <2>1, AfterReplies DEF AskAgain
  <2> QED
    BY <1>0, <2>1, <2>2, AfterReplies
<1>8. CASE RequestFails \/ Cancelled \/ GatewayStops
  BY <1>0, <1>8 DEF RequestFails, Cancelled, GatewayStops
<1>9. CASE GatewayStarts
  BY <1>0, <1>9 DEF GatewayStarts
<1>10. CASE Tick
  <2>1. UNCHANGED <<agent, gateway, reply>> /\ login' \in {login, <<>>}
    BY <1>10 DEF Tick
  <2> QED
    BY <1>0, <2>1, PendingValues
<1>11. CASE UNCHANGED vars
  BY <1>0, <1>11 DEF vars
<1>12. PatientOK' => /\ agent' = "idle" => login' = <<>>
                     /\ agent' \in {"started", "poll", "answered", "wait"} => gateway' = "up"
                     /\ agent' = "answered" /\ reply' # AskAgain => ~IsPending(login')
                     /\ agent' = "failed" => ~IsPending(login')
  BY <1>1 DEF PatientOK, AnswersWhilePending, Faults
<1> QED
  BY <1>2, <1>3, <1>4, <1>5, <1>6, <1>7, <1>8, <1>9, <1>10, <1>11, <1>12 DEF Next

(* Nothing but AskAgain brings the agent to wait. *)
LEMMA ImpatientStep == Inv /\ ImpatientOK /\ [Next]_vars => ImpatientOK'
<1> SUFFICES ASSUME Inv, ImpatientOK, [Next]_vars, (AskAgain \notin AnswersWhilePending)'
             PROVE  NeverWaits'
  BY DEF ImpatientOK
<1> USE DEF NeverWaits
<1>1. env' = env
  BY DEF Next, GatewayStarts, GatewayStops, StartLogin, CheckPending, SetApproved,
         AnswerPoll, BeginPoll, Receive, PollAgain, PollExpires, RequestFails,
         Cancelled, Tick, vars
<1>2. AskAgain \notin AnswersWhilePending /\ NeverWaits
  BY <1>1 DEF AnswersWhilePending, ImpatientOK
<1>3. CASE AnswerPoll
  <2>1. ~(reply'.code = 200 /\ reply'.status = "pending")
    BY <1>2, <1>3, NextReply, PendingReplies DEF Inv, Refused, Approved
  <2> QED
    BY <1>3, <2>1 DEF AnswerPoll
<1>4. CASE Receive
  BY <1>2, <1>4, AfterReplies DEF Receive
<1>5. CASE StartLogin \/ BeginPoll \/ PollAgain \/ PollExpires \/ RequestFails \/ Cancelled
  BY <1>2, <1>5 DEF StartLogin, BeginPoll, PollAgain, PollExpires, RequestFails, Cancelled
<1>6. CASE \/ \E r \in Requests : CheckPending(r) \/ SetApproved(r)
           \/ GatewayStarts \/ GatewayStops \/ Tick \/ UNCHANGED vars
  BY <1>2, <1>6 DEF CheckPending, SetApproved, GatewayStarts, GatewayStops, Tick, vars
<1> QED
  BY <1>3, <1>4, <1>5, <1>6 DEF Next

(* The timing and the patience of a login. *)
THEOREM TimingInvariance == Spec => []LoginInv
<1>1. Init => TimeOK /\ PatientOK /\ ImpatientOK
  BY DEF Init, TimeOK, InTime, Unread, Polling, PatientOK, ImpatientOK, NeverWaits,
         Unanswered, Ended
<1>2. LoginInv /\ [Next]_vars => LoginInv'
  BY TypeStep, KeyStep, ReplyStep, TimeStep, PatientStep, ImpatientStep DEF LoginInv, Inv
<1> QED
  BY InitEstablishes, <1>1, <1>2, PTL DEF Spec, LoginInv

(* An approval is never lost on an agent that polls on time: for every     *)
(* lifetime longer than the interval, the key is there when it asks.       *)
THEOREM ApprovalIsRead == Spec => []ApprovalAwaitsPoll
<1>1. LoginInv => ApprovalAwaitsPoll
  <2> SUFFICES ASSUME LoginInv, ApprovedTTL > Interval, Prompt, Faults = {},
                      NEW r \in Requests, request[r] = "granted", Polling,
                      "token" \notin DOMAIN reply
               PROVE  login # <<>>
    BY DEF ApprovalAwaitsPoll
  <2>1. ttl > 0
    BY DEF LoginInv, TimeOK, InTime, Unread
  <2> QED
    BY <2>1 DEF LoginInv, Inv, TypeOK
<1> QED
  BY TimingInvariance, <1>1, PTL

(* With a gateway that answers the poll of a pending login with the code   *)
(* 200 and the status "pending", and with no fault, Poll waits as it says. *)
THEOREM PatientWithPending ==
    Spec => [](AnswersWhilePending = {AskAgain} => PollWaitsForApproval)
<1>1. LoginInv => (AnswersWhilePending = {AskAgain} => PollWaitsForApproval)
  BY DEF LoginInv, PatientOK, PollWaitsForApproval
<1> QED
  BY TimingInvariance, <1>1, PTL

(* No other answer will do: while a gateway never gives that one, the agent *)
(* never comes to wait, under any faults, so that its first answer ends the *)
(* login.  Neither half of what the gateway answers, the code 400 and the  *)
(* missing status, could stay.                                             *)
THEOREM NothingElseWaits ==
    Spec => [](AskAgain \notin AnswersWhilePending => agent # "wait")
<1>1. LoginInv => (AskAgain \notin AnswersWhilePending => agent # "wait")
  BY DEF LoginInv, ImpatientOK, NeverWaits
<1> QED
  BY TimingInvariance, <1>1, PTL

(* Type correctness, and the key is gone exactly when its time is up. *)
THEOREM TypeCorrect == Spec => []TypeOK
<1>1. Inv => TypeOK
  BY DEF Inv
<1> QED
  BY Invariance, <1>1, PTL

(* Whatever races for the key, the agent logs in with the user and the     *)
(* token of one granted approval.                                          *)
THEOREM GenuineToken == Spec => []TokenIsIssued
<1>1. Inv => TokenIsIssued
  <2> SUFFICES ASSUME Inv, agent = "approved" PROVE TokenIsIssued
    BY DEF TokenIsIssued
  <2>1. PICK r \in Requests :
           /\ request[r] = "granted"
           /\ reply = Approved(ApprovedValue(r)[3], ApprovedValue(r)[4])
    BY DEF Inv, ReplyOK
  <2>2. reply.user = ApprovedValue(r)[3] /\ reply.token = ApprovedValue(r)[4]
    BY <2>1 DEF Approved
  <2> QED
    BY <2>1, <2>2, ApprovedParts DEF TokenIsIssued
<1> QED
  BY Invariance, <1>1, PTL

(* After the first grant no approval that begins passes its check, however *)
(* long ago it was.                                                        *)
THEOREM GrantsOnce == Spec => LaterApprovalsRefused
<1>1. Inv /\ [Next]_vars =>
         [\A r, s \in Requests :
            request[r] = "granted" /\ request[s] = "idle" => request'[s] # "checked"]_vars
  <2> SUFFICES ASSUME Inv, Next, NEW r \in Requests, NEW s \in Requests,
                      request[r] = "granted", request[s] = "idle"
               PROVE  request'[s] # "checked"
    OBVIOUS
  <2>1. ~IsPending(login)
    BY DEF Inv, KeyOK
  <2>2. ASSUME NEW q \in Requests, CheckPending(q) PROVE request'[s] # "checked"
    BY <2>1, <2>2 DEF CheckPending, Inv, TypeOK
  <2>3. ASSUME NEW q \in Requests, SetApproved(q) PROVE request'[s] # "checked"
    BY <2>3 DEF SetApproved, Inv, TypeOK
  <2>4. CASE GatewayStops
    BY <2>4 DEF GatewayStops, Inv, TypeOK
  <2>5. ASSUME \/ GatewayStarts \/ StartLogin \/ AnswerPoll \/ BeginPoll \/ Receive
               \/ PollAgain \/ PollExpires \/ RequestFails \/ Cancelled \/ Tick
        PROVE  request'[s] # "checked"
    BY <2>5 DEF GatewayStarts, StartLogin, AnswerPoll, BeginPoll, Receive, PollAgain,
                PollExpires, RequestFails, Cancelled, Tick
  <2> QED
    BY <2>2, <2>3, <2>4, <2>5 DEF Next
<1> QED
  BY Invariance, <1>1, PTL DEF Spec, LaterApprovalsRefused

(* A step grants at most the approval that was checked, and passes none    *)
(* once the login is no longer pending.                                    *)
LEMMA RequestSteps ==
    ASSUME TypeOK, [Next]_vars
    PROVE  /\ \A r \in Requests :
                 request'[r] = "granted" => request[r] \in {"granted", "checked"}
           /\ \A r \in Requests :
                 request'[r] = "checked" => request[r] = "checked" \/ IsPending(login)
           /\ \A r, s \in Requests :
                 request[r] = "checked" /\ request'[r] = "granted" /\ request'[s] = "checked"
                     => request[s] = "checked" /\ r # s
<1> USE DEF TypeOK
<1>1. ASSUME NEW q \in Requests, CheckPending(q)
      PROVE  /\ request[q] = "idle"
             /\ \/ IsPending(login) /\ request' = [request EXCEPT ![q] = "checked"]
                \/ request' = [request EXCEPT ![q] = "refused"]
  BY <1>1 DEF CheckPending
<1>2. ASSUME NEW q \in Requests, SetApproved(q)
      PROVE  /\ request[q] = "checked"
             /\ \/ request' = [request EXCEPT ![q] = "granted"]
                \/ request' = [request EXCEPT ![q] = "refused"]
  BY <1>2 DEF SetApproved
<1>3. CASE GatewayStops
  BY <1>3 DEF GatewayStops
<1>4. CASE \/ GatewayStarts \/ StartLogin \/ AnswerPoll \/ BeginPoll \/ Receive
           \/ PollAgain \/ PollExpires \/ RequestFails \/ Cancelled \/ Tick
           \/ UNCHANGED vars
  <2>1. request' = request
    BY <1>4 DEF GatewayStarts, StartLogin, AnswerPoll, BeginPoll, Receive, PollAgain,
                PollExpires, RequestFails, Cancelled, Tick, vars
  <2> QED
    BY <2>1
<1>5. CASE \E q \in Requests : CheckPending(q)
  BY <1>1, <1>5
<1>6. CASE \E q \in Requests : SetApproved(q)
  BY <1>2, <1>6
<1> QED
  BY <1>3, <1>4, <1>5, <1>6 DEF Next

(* Approvals that overlap are all that takes an approval away from the     *)
(* user it was granted to: where they come one at a time, with whatever    *)
(* faults and expiries between them, an approval is final.                 *)
THEOREM FinalOneAtATime == Spec /\ []OneAtATime => ApprovalIsFinal
<1>1. Init => NoneOverlaps
  BY DEF Init, NoneOverlaps
<1>2. Inv /\ OneAtATime /\ NoneOverlaps /\ [Next]_vars => NoneOverlaps'
  <2> SUFFICES ASSUME Inv, OneAtATime, NoneOverlaps, [Next]_vars,
                      NEW r \in Requests, request'[r] = "granted",
                      NEW s \in Requests, request'[s] = "checked"
               PROVE  FALSE
    BY DEF NoneOverlaps
  <2>1. TypeOK /\ KeyOK
    BY DEF Inv
  <2>2. CASE request[r] = "granted"
    BY <2>1, <2>2, RequestSteps DEF NoneOverlaps, KeyOK
  <2>3. CASE request[r] = "checked"
    <3>1. request[s] = "checked" /\ r # s
      BY <2>1, <2>3, RequestSteps
    <3> QED
      BY <2>3, <3>1 DEF OneAtATime
  <2> QED
    BY <2>1, <2>2, <2>3, RequestSteps
<1>3. Inv /\ NoneOverlaps /\ [Next]_vars
         => [\A r, s \in Requests :
               request[r] = "granted" /\ request'[s] = "granted" => request[s] = "granted"]_vars
  BY RequestSteps DEF Inv, NoneOverlaps
<1> QED
  BY <1>1, <1>2, <1>3, Invariance, PTL DEF Spec, ApprovalIsFinal
================================================================================

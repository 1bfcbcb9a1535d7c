----------------------------- MODULE PullRequests -----------------------------
(***************************************************************************)
(* Log pulls.  A game server asks for the log of a player, a session, a    *)
(* match or a server (request_player_logs); the ingest server lists the    *)
(* open requests in its answer to a heartbeat; the client that one of them *)
(* targets posts a fulfilment, and uploads its session log to the place    *)
(* the answer to that grants (handle_heartbeat_ack, Worker::process).      *)
(*                                                                         *)
(* The answers are texts, scanned as the client scans them, and may arrive *)
(* cut.  The game threads change the identity, the match and the consent   *)
(* at any time; the user and the match context are read under two locks.   *)
(* The ingest server and the network are external.  Whether the delay of a *)
(* job is over is open, as time is not modelled.                           *)
(***************************************************************************)
EXTENDS JsonText, Retry, FiniteSets

CONSTANTS
    Requests,       \* records: requestId, targetType, targetValue, fulfillNonce, nonceExpiry
    Listed,         \* those open from the start; the others are asked for
    Order,          \* the requests as the server lists them
    Styles,         \* how the server writes JSON: "plain", "spaced" or "ascii"
    Grants,         \* what it grants for a log: method, url and fields, or none
    RetryHeaders,   \* Retry-After headers: text, and the seconds it asks for
    Users, Matches, Servers, SessionId, Provisional,
    MaxAttempts,    \* max_attempts of the worker
    MaxNonce,       \* limits::pull_nonce
    Budgets         \* what may happen how often: calls, beats, cuts and failures

None == <<>>

\* The server lists requests; one it has no nonce for has no expiry either; a log has one
\* grant or none, and a PUT has no form.
ASSUME PullRequestsAssumption ==
    /\ Listed \subseteq Requests /\ Order \in Seq(Requests)
    /\ \A r \in Requests : r.fulfillNonce = None => r.nonceExpiry = 0
    /\ \A grant \in Grants : grant = None \/ grant = <<grant[1]>>
    /\ \A grant \in Grants : grant # None /\ grant[1].method = "PUT" => grant[1].fields = None
    /\ \A header \in RetryHeaders : header.seconds \in Int
    /\ MaxRequests \in Nat /\ MaxAttempts \in 1 .. 6 /\ MaxNonce \in Nat

VARIABLES
    user, ctx,      \* user_id_; match_id_ and server_id_
    consent,
    queue,          \* the worker's queue
    worker,         \* the job in the worker's hand and how far it is
    open,           \* the requests the ingest server lists
    granted,        \* history: what was granted
    hadUsers, hadCtx,   \* history: the identities and contexts the client has had
    left            \* what may still happen

game    == <<user, ctx, consent, hadUsers, hadCtx>>
outside == <<open, granted>>
vars == <<game, queue, worker, outside, left>>

Spend(kind) == left[kind] > 0 /\ left' = [left EXCEPT ![kind] = @ - 1]

Idle == [at |-> "idle"]

Init ==
    /\ user = None
    /\ ctx = [match |-> None, server |-> None]
    /\ consent = TRUE
    /\ queue = <<>>
    /\ worker = Idle
    /\ open = Listed
    /\ granted = {}
    /\ hadUsers = {Provisional}
    /\ hadCtx = {[match |-> None, server |-> None]}
    /\ left \in Budgets

-----------------------------------------------------------------------------
(* The game *)

\* current_user_id: the provisional id stands in for an unset one.
CurrentUserId(id) == IF id = None THEN Provisional ELSE id

SetUser(id) ==
    /\ Spend("call")
    /\ user' = id
    /\ hadUsers' = hadUsers \cup {CurrentUserId(id)}
    /\ UNCHANGED <<ctx, consent, hadCtx, queue, worker, outside>>

PutContext(c) ==
    /\ Spend("call")
    /\ ctx' = c
    /\ hadCtx' = hadCtx \cup {c}
    /\ UNCHANGED <<user, consent, hadUsers, queue, worker, outside>>

SetMatchContext(server, match) == PutContext([match |-> match, server |-> server])
StartMatch(match) == PutContext([ctx EXCEPT !.match = match])
EndMatch == PutContext([ctx EXCEPT !.match = None])
MarkDedicatedServer(server) == PutContext([ctx EXCEPT !.server = IF server = None THEN @ ELSE server])

SetConsent(granting) ==
    /\ Spend("call")
    /\ consent' = granting
    /\ UNCHANGED <<user, ctx, hadUsers, hadCtx, queue, worker, outside>>

Job(kind, of) == [kind |-> kind, of |-> of, attempt |-> 0, delay |-> 0, asked |-> -1]

\* request_player_logs: not gated by the consent; every field is required.
RequestPlayerLogs(r) ==
    /\ Spend("ask")
    /\ r.targetValue # None /\ r \notin Listed
    /\ queue' = Append(queue, Job("ask", r))
    /\ UNCHANGED <<game, worker, outside>>

\* heartbeat_loop: what a beat carries is in the Heartbeat module.
Beat ==
    /\ consent
    /\ Spend("beat")
    /\ queue' = Append(queue, Job("beat", None))
    /\ UNCHANGED <<game, worker, outside>>

\* The elements of a list that are wanted, in their order.
Those(list, wanted) ==
    LET those[n \in 0 .. Len(list)] ==
            IF n = 0 THEN <<>>
            ELSE IF list[n] \in wanted THEN Append(those[n - 1], list[n]) ELSE those[n - 1]
    IN  those[Len(list)]

-----------------------------------------------------------------------------
(* The texts of the ingest server *)

\* A value with the surrogate pairs it has in \u escapes.
Halved(value) ==
    FlattenSeq([i \in DOMAIN value |->
        IF value[i] \in DOMAIN Halves THEN Halves[value[i]] ELSE <<value[i]>>])

ServerString(style, value) ==
    LET halves == Halved(value)
    IN  IF style = "ascii"
        THEN <<Quote>> \o FlattenSeq([i \in DOMAIN halves |->
                            IF halves[i] \in DOMAIN CodeOf THEN <<Slash, "u">> \o Hex4(CodeOf[halves[i]])
                            ELSE <<halves[i]>>]) \o <<Quote>>
        ELSE StringText(value)

Gap(style) == IF style = "spaced" THEN <<" ", Newline>> ELSE <<>>

ServerMember(style, name, value) ==
    Gap(style) \o StringText(<<name>>) \o Gap(style) \o <<":">> \o Gap(style) \o value \o Gap(style)

RequestText(style, r) ==
    ObjectText(
        << ServerMember(style, "requestId", ServerString(style, r.requestId)),
           ServerMember(style, "targetType", ServerString(style, r.targetType)),
           ServerMember(style, "targetValue", ServerString(style, r.targetValue)) >>
        \o IF r.fulfillNonce = None THEN <<>>
           ELSE << ServerMember(style, "fulfillNonce", ServerString(style, r.fulfillNonce)),
                   ServerMember(style, "nonceExpiry", IntText(r.nonceExpiry)) >>)

\* The answer to a beat and the places where the requests it lists end.
AckHead(style) == <<"{">> \o ServerMember(style, "accepted", <<"true">>) \o <<",">>
               \o StringText(<<"pendingRequests">>) \o <<":", "[">>

AckText(style, list) ==
    AckHead(style) \o Elements([i \in DOMAIN list |-> RequestText(style, list[i])]) \o <<"]", "}">>

RequestEnds(style, list) ==
    {Len(AckHead(style) \o Elements([i \in 1 .. n |-> RequestText(style, list[i])])) : n \in DOMAIN list}

\* The answer to a fulfilment.
GrantText(style, grant) ==
    IF grant = None THEN ObjectText(<<ServerMember(style, "fulfilled", <<"true">>)>>)
    ELSE ObjectText(<<ServerMember(style, "logUpload", ObjectText(
            << ServerMember(style, "url", ServerString(style, grant[1].url)),
               ServerMember(style, "method", ServerString(style, <<grant[1].method>>)) >>
            \o IF grant[1].fields = None THEN <<>>
               ELSE << ServerMember(style, "fields", ObjectText([i \in DOMAIN grant[1].fields |->
                        ServerMember(style, grant[1].fields[i][1][1],
                                     ServerString(style, grant[1].fields[i][2]))])) >>))>>)

\* A text arrives whole, or cut if a cut is left.
Arrives(text, cut) ==
    \/ cut = Len(text) /\ UNCHANGED left
    \/ cut < Len(text) /\ Spend("cut")

-----------------------------------------------------------------------------
(* The worker: taking and posting a job *)

\* take_ready_job: the first job whose delay is over.
Take(i) ==
    /\ worker.at = "idle"
    /\ i \in DOMAIN queue /\ \A j \in 1 .. i - 1 : queue[j].delay # 0
    /\ queue' = RemoveAt(queue, i)
    /\ worker' = [at |-> "post", job |-> queue[i], allowed |-> consent]
    /\ UNCHANGED <<game, outside, left>>

Posting(kind) == worker.at = "post" /\ worker.job.kind = kind

\* retry_or_give_up; nothing of a pull is kept for the next launch.
RetryOrGiveUp(job, hint, asked) ==
    IF job.attempt + 1 < MaxAttempts
    THEN queue' = Append(queue, [job EXCEPT !.attempt = @ + 1, !.asked = asked,
                                             !.delay = RetryDelay(job.attempt + 1, hint)])
    ELSE UNCHANGED queue

\* A transient failure: of the network, before or after the server has handled the
\* job, or the server's own, with its status and header.  A lost beat is not sent again.
PostFails ==
    /\ worker.at = "post"
    /\ Spend("fail")
    /\ worker' = Idle
    /\ \/ Posting("fulfill") /\ open' = {r \in open : r.requestId # worker.job.of.requestId}
       \/ Posting("ask") /\ open' = open \cup {worker.job.of}
       \/ UNCHANGED open
    /\ IF Posting("beat") THEN UNCHANGED queue
       ELSE \/ RetryOrGiveUp(worker.job, -1, -1)
            \/ \E status \in {429, 500, 503}, header \in RetryHeaders :
                  RetryOrGiveUp(worker.job, RetryAfterHint(status, header.text),
                                IF status = 500 THEN -1 ELSE header.seconds)
    /\ UNCHANGED <<game, granted>>

\* The server refuses a job for good.
PostIsRejected ==
    /\ worker.at = "post"
    /\ Spend("fail")
    /\ worker' = Idle
    /\ UNCHANGED <<game, queue, outside>>

AskIsPosted ==
    /\ Posting("ask")
    /\ open' = open \cup {worker.job.of}
    /\ worker' = Idle
    /\ UNCHANGED <<game, queue, granted, left>>

BeatIsPosted ==
    /\ Posting("beat")
    /\ \E style \in Styles, n \in 0 .. Len(Order) :
          LET list == Those(SubSeq(Order, 1, n), open)
              text == AckText(style, list)
              ends == RequestEnds(style, list)
          IN  \E cut \in 0 .. Len(text) :
                 /\ Arrives(text, cut)
                 /\ worker' = [ at |-> "ack", text |-> SubSeq(text, 1, cut), style |-> style,
                                whole |-> SubSeq(list, 1, Cardinality({e \in ends : e <= cut})) ]
    /\ UNCHANGED <<game, queue, outside>>

FulfillIsPosted ==
    /\ Posting("fulfill")
    /\ open' = {r \in open : r.requestId # worker.job.of.requestId}
    /\ \E style \in Styles, grant \in Grants :
          LET text == GrantText(style, grant)
          IN  \E cut \in 0 .. Len(text) :
                 /\ Arrives(text, cut)
                 /\ worker' = [ at |-> "answer", text |-> SubSeq(text, 1, cut),
                                grant |-> IF cut + 1 + Len(Gap(style)) < Len(text) THEN None ELSE grant ]
                 /\ granted' = granted \cup Range(grant)
    /\ UNCHANGED <<game, queue>>

LogIsPosted ==
    /\ Posting("log")
    /\ worker' = Idle
    /\ UNCHANGED <<game, queue, outside, left>>

-----------------------------------------------------------------------------
(* The worker: the answers *)

TargetsClientMutant(r, uid, context) ==
    CASE r.targetType = <<"userId">>    -> uid = r.targetValue
      [] r.targetType = <<"sessionId">> -> SessionId = r.targetValue
      [] r.targetType = <<"matchId">>   -> context.match = r.targetValue
      [] r.targetType = <<"server">>    -> context.server = r.targetValue
      [] OTHER -> FALSE

\* pull_request_targets_client.
TargetsClient(r, uid, context) ==
    /\ r.targetValue # None
    /\ CASE r.targetType = <<"userId">>    -> uid = r.targetValue
         [] r.targetType = <<"sessionId">> -> SessionId = r.targetValue
         [] r.targetType = <<"matchId">>   -> context.match = r.targetValue
         [] r.targetType = <<"server">>    -> context.server = r.targetValue
         [] OTHER -> FALSE

\* handle_heartbeat_ack up to its first lock: nothing without consent, and
\* nothing from an answer that lists nothing.
ScanAck ==
    /\ worker.at = "ack"
    /\ LET pending == FindPending(worker.text)
       IN  worker' = IF consent /\ pending # <<>>
                     THEN [at |-> "fulfil", pending |-> pending, user |-> CurrentUserId(user)]
                     ELSE Idle
    /\ UNCHANGED <<game, queue, outside, left>>

Clamped(nonce) == IF Len(nonce) > MaxNonce THEN SubSeq(nonce, 1, MaxNonce) ELSE nonce

\* build_pull_fulfill_json: the nonce, clamped, and its expiry as a pair, or neither.
FulfillBody(r, uid, context) ==
    [ userId |-> uid, sessionId |-> SessionId,
      matchId |-> context.match, server |-> context.server, nonce |-> Clamped(r.fulfillNonce),
      expiry |-> IF r.fulfillNonce = None THEN 0 ELSE r.nonceExpiry ]

\* ... and from its second: a fulfilment for every request that targets the client.
Fulfill ==
    /\ worker.at = "fulfil"
    /\ LET targets == Those(worker.pending, {r \in Range(worker.pending) :
                          r.requestId # None /\ TargetsClient(r, worker.user, ctx)})
       IN  queue' = queue \o [i \in DOMAIN targets |->
              Job("fulfill", [ requestId |-> targets[i].requestId,
                               body |-> FulfillBody(targets[i], worker.user, ctx) ])]
    /\ worker' = Idle
    /\ UNCHANGED <<game, outside, left>>

\* schedule_log_upload, with a session log that is not empty.
ScheduleLogUpload ==
    /\ worker.at = "answer"
    /\ LET upload == FindLogUpload(worker.text)
       IN  queue' = IF upload = None THEN queue
                    ELSE Append(queue, Job("log", upload[1]))
    /\ worker' = Idle
    /\ UNCHANGED <<game, outside, left>>

-----------------------------------------------------------------------------

\* Nothing more to do and nothing more allowed.
Rest ==
    /\ worker.at = "idle" /\ queue = <<>> /\ left["call"] = 0 /\ left["ask"] = 0
    /\ consent => left["beat"] = 0
    /\ UNCHANGED vars

Next ==
    \/ \E id \in Users \cup {None} : SetUser(id)
    \/ \E server \in Servers \cup {None}, match \in Matches \cup {None} : SetMatchContext(server, match)
    \/ \E match \in Matches : StartMatch(match)
    \/ EndMatch
    \/ \E server \in Servers \cup {None} : MarkDedicatedServer(server)
    \/ \E granting \in BOOLEAN : SetConsent(granting)
    \/ \E r \in Requests : RequestPlayerLogs(r)
    \/ Beat
    \/ \E i \in DOMAIN queue : Take(i)
    \/ PostFails
    \/ PostIsRejected
    \/ AskIsPosted
    \/ BeatIsPosted
    \/ FulfillIsPosted
    \/ LogIsPosted
    \/ ScanAck
    \/ Fulfill
    \/ ScheduleLogUpload
    \/ Rest

Spec == Init /\ [][Next]_vars

-----------------------------------------------------------------------------
(* Properties *)

\* A request as the client reads it: a surrogate pair of escapes is two characters.
ReadAs(style, r) ==
    LET read(value) == IF style = "ascii" THEN Halved(value) ELSE value
    IN  [ requestId |-> read(r.requestId), targetType |-> read(r.targetType),
          targetValue |-> read(r.targetValue), fulfillNonce |-> read(r.fulfillNonce),
          nonceExpiry |-> r.nonceExpiry ]

ReadRequests == {ReadAs(style, r) : style \in Styles, r \in Requests}

\* Of a list of requests those are read that arrived whole, up to max_requests of them.
ListIsRead ==
    worker.at = "ack" =>
        FindPending(worker.text) = [i \in 1 .. Min({MaxRequests, Len(worker.whole)}) |->
                                        ReadAs(worker.style, worker.whole[i])]

\* No part of a grant is read as something else: a url, a method or a form that is read is
\* the one the server wrote.
PartsAreRead ==
    worker.at = "answer" =>
        LET object == FindObject(worker.text, "logUpload")
            url    == FindString(object[1], "url")
            method == FindString(object[1], "method")
            form   == FindObject(object[1], "fields")
        IN  object # None =>
              /\ worker.grant # None
              /\ url \in {None, <<worker.grant[1].url>>}
              /\ method \in {None, << <<worker.grant[1].method>> >>}
              /\ form # None => FindFields(form[1]) \in {None, worker.grant[1].fields}

\* What find_log_upload takes of a form whose names it takes.
Acceptable(fields) ==
    /\ Len(fields) \in 1 .. MaxFields
    /\ \A i \in DOMAIN fields : Len(fields[i][2]) <= MaxFieldValue

\* What the client reads out of an answer is what the server has written, whatever quotes,
\* brackets, escapes and white space the values and the text around them have, and wherever
\* it is cut: whole requests and no half of one, and of a grant all or nothing.  (A list
\* that is cut yields the requests before the cut, where json_scan.h:62-64 has it that a
\* malformed array yields none.)
ScanIsFaithful ==
    /\ ListIsRead /\ PartsAreRead
    /\ worker.at = "answer" =>
          (FindLogUpload(worker.text) # None <=>
             /\ worker.grant # None
             /\ worker.grant[1].method = "PUT" \/ Acceptable(worker.grant[1].fields))

Jobs == Range(queue) \cup (IF worker.at = "post" THEN {worker.job} ELSE {})

\* A fulfilment is of a request somebody made, as the client reads it, bears the nonce and
\* expiry of that very request, asserts the value it is for, and asserts a match and a
\* server the client was in at the same time.
FulfilMatches ==
    \A job \in {j \in Jobs : j.kind = "fulfill"} :
        /\ \E r \in ReadRequests :
              /\ job.of.requestId = r.requestId /\ r.targetValue # None
              /\ job.of.body.nonce = Clamped(r.fulfillNonce)
              /\ job.of.body.expiry = IF r.fulfillNonce = None THEN 0 ELSE r.nonceExpiry
              /\ \/ r.targetType = <<"userId">> /\ job.of.body.userId = r.targetValue
                 \/ r.targetType = <<"sessionId">> /\ job.of.body.sessionId = r.targetValue
                 \/ r.targetType = <<"matchId">> /\ job.of.body.matchId = r.targetValue
                 \/ r.targetType = <<"server">> /\ job.of.body.server = r.targetValue
        /\ job.of.body.userId \in hadUsers
        /\ [match |-> job.of.body.matchId, server |-> job.of.body.server] \in hadCtx

\* A log goes only where the server has granted it, and with all of the grant's
\* fields: a signed form is never sent as a bare PUT.
UploadsAsGranted ==
    \A job \in {j \in Jobs : j.kind = "log"} : \E grant \in granted :
        /\ job.of = [url |-> grant.url, fields |-> grant.fields]
        /\ grant.method = "POST" => job.of.fields # None

\* The seconds of a Retry-After the parser reads: more than nine digits are taken for none
\* (retry_after.cpp:22-26).
Readable(seconds) == seconds <= 999999999

\* The parser reads what each header asks for, as far as it can be read.
HeadersAreRead ==
    \A header \in RetryHeaders :
        LET read == ParseRetryAfterSeconds(header.text)
        IN  read \in Int /\ (Readable(header.seconds) => read = header.seconds)

\* "Raised to a server-provided Retry-After when that is larger ... and capped"
\* (retry_after.h): a job that failed waits for the backoff of its attempt and for what the
\* answer to that attempt asked for, up to the cap and never longer; what an earlier answer
\* asked for is forgotten, and so is a header too long to be read.
RetryIsPolite ==
    \A job \in {j \in Jobs : j.attempt > 0} :
        /\ job.delay <= MaxRetryAfterSeconds /\ job.delay >= 2 ^ job.attempt
        /\ Readable(job.asked) => job.delay >= job.asked \/ job.delay = MaxRetryAfterSeconds

\* "a non-targeted or non-consented client uploads nothing" (client.cpp:535-537).
NothingWithoutConsent ==
    worker.at = "post" /\ worker.job.kind \in {"fulfill", "log"} => worker.allowed
=============================================================================

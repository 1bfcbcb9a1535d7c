-------------------------- MODULE PullRequestsProofs --------------------------
(***************************************************************************)
(* Log pulls, for every set of requests, grants and identities and every   *)
(* number of calls, losses and cuts: what the client fulfils, what it      *)
(* uploads and how long it waits.  What the scanner makes of a list, of    *)
(* the parts of a grant (its url, method and form, each by itself) and of  *)
(* a retry header are hypotheses here, ListIsRead, PartsAreRead and        *)
(* HeadersAreRead: TLC checks them on texts, symbol by symbol.             *)
(***************************************************************************)
EXTENDS PullRequests, SequenceTheorems, DataInduction

\* A value is a sequence.
IsSequence(s) == s \in Seq(Range(s))

\* A job has the fields of UploadJob the model keeps.
IsJob(job) ==
    /\ job = [ kind |-> job.kind, of |-> job.of, attempt |-> job.attempt,
               delay |-> job.delay, asked |-> job.asked ]
    /\ job.attempt \in Nat

-----------------------------------------------------------------------------
(* What the properties say of one job *)

\* A fulfilment is of a request, with its nonce, and asserts an identity the client has had.
Matching(job) ==
    /\ \E r \in ReadRequests :
          /\ job.of.requestId = r.requestId /\ r.targetValue # None
          /\ job.of.body.nonce = Clamped(r.fulfillNonce)
          /\ job.of.body.expiry = IF r.fulfillNonce = None THEN 0 ELSE r.nonceExpiry
          /\ \/ r.targetType = <<"userId">> /\ job.of.body.userId = r.targetValue
             \/ r.targetType = <<"sessionId">> /\ job.of.body.sessionId = r.targetValue
             \/ r.targetType = <<"matchId">> /\ job.of.body.matchId = r.targetValue
             \/ r.targetType = <<"server">> /\ job.of.body.server = r.targetValue
    /\ job.of.body.userId \in hadUsers
    /\ [match |-> job.of.body.matchId, server |-> job.of.body.server] \in hadCtx

\* A log goes where it was granted, with the grant's fields.
AsGranted(job) ==
    \E grant \in granted :
        /\ job.of = [url |-> grant.url, fields |-> grant.fields]
        /\ grant.method = "POST" => job.of.fields # None

\* A job that failed waits long enough, and no longer than the cap.
Polite(job) ==
    /\ job.delay <= MaxRetryAfterSeconds /\ job.delay >= 2 ^ job.attempt
    /\ Readable(job.asked) => job.delay >= job.asked \/ job.delay = MaxRetryAfterSeconds

-----------------------------------------------------------------------------
(* The inductive invariants *)

\* The queue is a sequence of jobs, and the worker posts a job.
QueueOK == IsSequence(queue) /\ \A job \in Jobs : IsJob(job)

\* What the worker knows of an answer it is at: the requests it lists, those it has read and
\* the identity it has read them under, the grant it holds.
Answers ==
    /\ worker.at = "ack" => worker.whole \in Seq(Requests) /\ worker.style \in Styles
    /\ worker.at = "fulfil" => worker.pending \in Seq(ReadRequests) /\ worker.user \in hadUsers
    /\ worker.at = "answer" =>
         worker.grant = None \/ (worker.grant \in Grants /\ worker.grant[1] \in granted)

\* The identity and the context of the client are among those it has had.
Histories ==
    /\ CurrentUserId(user) \in hadUsers
    /\ ctx \in hadCtx /\ ctx = [match |-> ctx.match, server |-> ctx.server]

\* What the properties ask of each job.
Sound(job) ==
    /\ job.kind = "fulfill" => Matching(job)
    /\ job.kind = "log" => AsGranted(job)
    /\ HeadersAreRead /\ job.attempt > 0 => Polite(job)

\* The inductive invariant.
PullInv == QueueOK /\ Answers /\ Histories /\ \A job \in Jobs : Sound(job)

-----------------------------------------------------------------------------
(* Sequences and their elements *)

\* A sequence of a set is one of its own elements.
LEMMA OwnElements ==
    ASSUME NEW S, NEW s \in Seq(S)
    PROVE  /\ IsSequence(s) /\ Range(s) \subseteq S
           /\ Len(s) \in Nat /\ DOMAIN s = 1 .. Len(s)
           /\ \A i \in DOMAIN s : s[i] \in Range(s)
<1>1. Len(s) \in Nat /\ DOMAIN s = 1 .. Len(s) /\ s \in [1 .. Len(s) -> S]
  BY LenProperties
<1>2. Range(s) \subseteq S /\ \A i \in DOMAIN s : s[i] \in Range(s)
  BY <1>1 DEF Range
<1>3. s \in [1 .. Len(s) -> Range(s)]
  BY <1>1, <1>2
<1>4. s \in Seq(Range(s))
  <2> DEFINE T == Range(s)
  <2> HIDE DEF T
  <2>1. s \in [1 .. Len(s) -> T]
    BY <1>3 DEF T
  <2>2. s \in Seq(T)
    BY <1>1, <2>1
  <2>3. QED
    BY <2>2 DEF T
<1>5. QED
  BY <1>1, <1>2, <1>4 DEF IsSequence

\* One more element.
LEMMA AppendedElements ==
    ASSUME NEW q, IsSequence(q), NEW e
    PROVE  IsSequence(Append(q, e)) /\ Range(Append(q, e)) \subseteq Range(q) \cup {e}
<1> DEFINE T == Range(q) \cup {e}
           r == Append(q, e)
<1>1. q \in Seq(T) /\ e \in T
  <2>1. q \in [1 .. Len(q) -> Range(q)] /\ Len(q) \in Nat
    BY LenProperties DEF IsSequence
  <2> DEFINE R == Range(q)
  <2> HIDE DEF R
  <2>2. q \in [1 .. Len(q) -> R \cup {e}]
    BY <2>1 DEF R
  <2>3. QED
    BY <2>1, <2>2 DEF R
<1> HIDE DEF T
<1>2. r \in Seq(T)
  BY <1>1, AppendProperties
<1> HIDE DEF r
<1>3. IsSequence(r) /\ Range(r) \subseteq T
  BY <1>2, OwnElements
<1>4. QED
  BY <1>3 DEF T, r

\* More elements of a set.
LEMMA JoinedElements ==
    ASSUME NEW q, IsSequence(q), NEW S, NEW s \in Seq(S)
    PROVE  IsSequence(q \o s) /\ Range(q \o s) \subseteq Range(q) \cup S
<1> DEFINE R == Range(q)
           T == R \cup S
           r == q \o s
<1>1. q \in [1 .. Len(q) -> R] /\ Len(q) \in Nat /\ s \in [1 .. Len(s) -> S] /\ Len(s) \in Nat
  BY LenProperties DEF IsSequence
<1> HIDE DEF R
<1>2. q \in Seq(T) /\ s \in Seq(T)
  <2>1. q \in [1 .. Len(q) -> T] /\ s \in [1 .. Len(s) -> T]
    BY <1>1
  <2>2. QED
    BY <1>1, <2>1
<1> HIDE DEF T
<1>3. r \in Seq(T)
  BY <1>2, ConcatProperties
<1> HIDE DEF r
<1>4. IsSequence(r) /\ Range(r) \subseteq T
  BY <1>3, OwnElements
<1>5. QED
  BY <1>4 DEF T, R, r

\* One element fewer.
LEMMA RemainingElements ==
    ASSUME NEW q, IsSequence(q), NEW i \in DOMAIN q
    PROVE  /\ IsSequence(RemoveAt(q, i)) /\ Range(RemoveAt(q, i)) \subseteq Range(q)
           /\ q[i] \in Range(q)
<1> DEFINE T == Range(q)
           a == SubSeq(q, 1, i - 1)
           b == SubSeq(q, i + 1, Len(q))
           r == a \o b
<1>1. q \in Seq(T)
  BY DEF IsSequence
<1> HIDE DEF T
<1>2. Len(q) \in Nat /\ i \in 1 .. Len(q) /\ \A j \in 1 .. Len(q) : q[j] \in T
  BY <1>1, LenProperties, ElementOfSeq
<1>3. a \in Seq(T)
  <2>1. 1 \in Int /\ i - 1 \in Int /\ \A j \in 1 .. i - 1 : q[j] \in T
    BY <1>2
  <2>2. QED
    BY <2>1, SubSeqProperties
<1>4. b \in Seq(T)
  <2>1. i + 1 \in Int /\ Len(q) \in Int /\ \A j \in i + 1 .. Len(q) : q[j] \in T
    BY <1>2
  <2>2. QED
    BY <2>1, SubSeqProperties
<1> HIDE DEF a, b
<1>5. r \in Seq(T)
  BY <1>3, <1>4, ConcatProperties
<1>6. r = RemoveAt(q, i)
  BY DEF RemoveAt, a, b
<1> HIDE DEF r
<1>7. IsSequence(r) /\ Range(r) \subseteq T /\ q[i] \in T
  BY <1>2, <1>5, OwnElements
<1>8. QED
  BY <1>6, <1>7 DEF T

\* Those of a list that are wanted are in the list, and are wanted.
LEMMA ThoseElements ==
    ASSUME NEW S, NEW list \in Seq(S), NEW wanted
    PROVE  Those(list, wanted) \in Seq(Range(list) \cap wanted)
<1> DEFINE n == Len(list)
           W == Range(list) \cap wanted
           V == Seq(W)
           step == [x \in V \X (1 .. n) |->
                      IF list[x[2]] \in wanted THEN Append(x[1], list[x[2]]) ELSE x[1]]
           Keeps(f) == f = [i \in 0 .. n |->
                              IF i = 0 THEN <<>>
                              ELSE IF list[i] \in wanted THEN Append(f[i - 1], list[i]) ELSE f[i - 1]]
           g == CHOOSE f : Keeps(f)
<1>1. n \in Nat /\ \A i \in 1 .. n : list[i] \in wanted => list[i] \in W
  BY OwnElements
<1>2. Those(list, wanted) = g[n]
  BY DEF Those
<1> HIDE DEF n, W
<1>3. ASSUME NEW v \in V, NEW i \in 1 .. n
      PROVE  (IF list[i] \in wanted THEN Append(v, list[i]) ELSE v) \in V
  <2>1. CASE list[i] \in wanted
    <3>1. Append(v, list[i]) \in Seq(W)
      BY <1>1, <2>1, AppendProperties
    <3>2. QED
      BY <2>1, <3>1
  <2>2. QED
    BY <2>1
<1>4. step \in [V \X (1 .. n) -> V]
  BY <1>3
<1>5. \A v \in V, i \in 1 .. n :
         step[<<v, i>>] = IF list[i] \in wanted THEN Append(v, list[i]) ELSE v
  OBVIOUS
<1>6. PICK f \in [0 .. n -> V] : f[0] = <<>> /\ \A i \in 1 .. n : f[i] = step[<<f[i - 1], i>>]
  <2>1. <<>> \in V
    OBVIOUS
  <2>2. StepFunction(V, n, step)
    BY <1>1, <1>4 DEF StepFunction
  <2> HIDE DEF step, V
  <2>3. \E f : RunOf(V, <<>>, n, step, f)
    BY <2>1, <2>2, RecursionExists
  <2>4. QED
    BY <2>3 DEF RunOf
<1>7. \A i \in 1 .. n : f[i] = IF list[i] \in wanted THEN Append(f[i - 1], list[i]) ELSE f[i - 1]
  <2>1. \A i \in 1 .. n : f[i - 1] \in V
    BY <1>1
  <2> HIDE DEF step, V
  <2>2. QED
    BY <1>5, <1>6, <2>1
<1>8. Keeps(f)
  <2> HIDE DEF V
  <2>1. f = [i \in 0 .. n |-> f[i]]
    OBVIOUS
  <2>2. \A i \in 0 .. n : f[i] = IF i = 0 THEN <<>>
                                 ELSE IF list[i] \in wanted THEN Append(f[i - 1], list[i]) ELSE f[i - 1]
    BY <1>1, <1>6, <1>7
  <2>3. QED
    BY <2>1, <2>2
<1>9. Keeps(g)
  <2> HIDE DEF Keeps
  <2>1. QED
    BY <1>8
<1>10. \A i \in 0 .. n : g[i] = IF i = 0 THEN <<>>
                                ELSE IF list[i] \in wanted THEN Append(g[i - 1], list[i]) ELSE g[i - 1]
  <2> HIDE DEF g
  <2>1. QED
    BY <1>9, Zenon
<1>11. \A i \in 0 .. n : g[i] \in V
  <2> DEFINE N == {i \in Nat : i <= n => g[i] \in V}
  <2> HIDE DEF g
  <2>1. 0 \in N
    <3>1. g[0] = <<>>
      BY <1>1, <1>10
    <3>2. <<>> \in V
      OBVIOUS
    <3> HIDE DEF V
    <3>3. QED
      BY <3>1, <3>2
  <2>2. ASSUME NEW i \in Nat, i \in N PROVE i + 1 \in N
    <3>1. CASE i + 1 <= n
      <4>1. i + 1 \in 0 .. n /\ i + 1 \in 1 .. n /\ i + 1 # 0 /\ (i + 1) - 1 = i /\ g[i] \in V
        BY <1>1, <2>2, <3>1
      <4>2. g[i + 1] = IF list[i + 1] \in wanted THEN Append(g[i], list[i + 1]) ELSE g[i]
        BY <1>10, <4>1
      <4> HIDE DEF V
      <4>3. g[i + 1] \in V
        BY <1>3, <4>1, <4>2
      <4>4. QED
        BY <4>3
    <3>2. QED
      BY <3>1
  <2>3. \A i \in Nat : i \in N
    <3> HIDE DEF N
    <3>1. QED
      BY <2>1, <2>2, SetInduction
  <2>4. QED
    BY <1>1, <2>3
<1> HIDE DEF g
<1>12. g[n] \in V
  BY <1>1, <1>11
<1>13. QED
  BY <1>2, <1>12 DEF W

-----------------------------------------------------------------------------
(* What a step does to the jobs *)

\* A job the client may make of its state: asked for by the game, or answering what the worker holds.
Fresh(job) ==
    \/ \E r \in Requests : job = Job("ask", r)
    \/ job = Job("beat", None)
    \/ /\ worker.at = "fulfil"
       /\ \E r \in ReadRequests :
             /\ TargetsClient(r, worker.user, ctx)
             /\ job = Job("fulfill", [ requestId |-> r.requestId,
                                       body |-> FulfillBody(r, worker.user, ctx) ])
    \/ \E grant \in granted :
          /\ grant.method = "POST" => grant.fields # None
          /\ job = Job("log", [url |-> grant.url, fields |-> grant.fields])

\* A job that is to be sent once more.
Again(job, hint, asked) ==
    [job EXCEPT !.attempt = @ + 1, !.asked = asked, !.delay = RetryDelay(job.attempt + 1, hint)]

\* The posted job, once more after a failure.
Retried(job) ==
    /\ worker.at = "post" /\ worker.job.attempt + 1 < MaxAttempts
    /\ \/ job = Again(worker.job, -1, -1)
       \/ \E status \in {429, 500, 503}, header \in RetryHeaders :
             job = Again(worker.job, RetryAfterHint(status, header.text),
                         IF status = 500 THEN -1 ELSE header.seconds)

\* A job of the next state is one of this state, a new one or one sent again.
FollowedBy(q, w) ==
    /\ IsSequence(q)
    /\ \A job \in Range(q) : job \in Jobs \/ Fresh(job) \/ Retried(job)
    /\ w.at = "post" => w.job \in Jobs \/ Fresh(w.job) \/ Retried(w.job)

\* A queue that keeps its jobs or gets one more.
LEMMA QueueFollows ==
    ASSUME IsSequence(queue), NEW q, NEW w, w.at # "post" \/ w = worker,
           q = queue \/ \E e : (Fresh(e) \/ Retried(e)) /\ q = Append(queue, e)
    PROVE  FollowedBy(q, w)
<1>1. w.at = "post" => w.job \in Jobs
  BY DEF Jobs
<1>2. Range(queue) \subseteq Jobs
  BY DEF Jobs
<1>3. CASE q = queue
  BY <1>1, <1>2, <1>3 DEF FollowedBy
<1>4. ASSUME NEW e, Fresh(e) \/ Retried(e), q = Append(queue, e) PROVE FollowedBy(q, w)
  <2>1. IsSequence(q) /\ Range(q) \subseteq Range(queue) \cup {e}
    BY <1>4, AppendedElements
  <2>2. QED
    BY <1>1, <1>2, <1>4, <2>1 DEF FollowedBy
<1>5. QED
  BY <1>3, <1>4

\* The game, and the worker's steps at an answer that lists or grants nothing new.
LEMMA GameFollows ==
    ASSUME PullInv, UNCHANGED <<queue, worker>>
    PROVE  FollowedBy(queue', worker')
BY QueueFollows DEF PullInv, QueueOK

\* The jobs the game asks for.
LEMMA CallsFollow ==
    ASSUME PullInv, (\E r \in Requests : RequestPlayerLogs(r)) \/ Beat
    PROVE  FollowedBy(queue', worker')
<1>1. IsSequence(queue) /\ worker' = worker
  BY DEF PullInv, QueueOK, RequestPlayerLogs, Beat
<1>2. \E e : Fresh(e) /\ queue' = Append(queue, e)
  <2>1. ASSUME NEW r \in Requests, RequestPlayerLogs(r) PROVE \E e : Fresh(e) /\ queue' = Append(queue, e)
    <3>1. queue' = Append(queue, Job("ask", r)) /\ Fresh(Job("ask", r))
      BY <2>1 DEF RequestPlayerLogs, Fresh
    <3>2. QED
      BY <3>1
  <2>2. CASE Beat
    <3>1. queue' = Append(queue, Job("beat", None)) /\ Fresh(Job("beat", None))
      BY <2>2 DEF Beat, Fresh
    <3>2. QED
      BY <3>1
  <2>3. QED
    BY <2>1, <2>2
<1>3. QED
  BY <1>1, <1>2, QueueFollows

\* The worker takes a job.
LEMMA TakeFollows ==
    ASSUME PullInv, NEW i \in DOMAIN queue, Take(i)
    PROVE  FollowedBy(queue', worker')
<1>1. IsSequence(queue)
  BY DEF PullInv, QueueOK
<1>2. queue' = RemoveAt(queue, i) /\ worker'.job = queue[i]
  BY DEF Take
<1>3. /\ IsSequence(RemoveAt(queue, i)) /\ Range(RemoveAt(queue, i)) \subseteq Range(queue)
      /\ queue[i] \in Range(queue)
  BY <1>1, RemainingElements
<1>4. Range(queue) \subseteq Jobs
  BY DEF Jobs
<1>5. QED
  BY <1>2, <1>3, <1>4 DEF FollowedBy

\* A job that failed is sent again or given up.
LEMMA FailureFollows ==
    ASSUME PullInv, PostFails
    PROVE  FollowedBy(queue', worker')
<1>1. IsSequence(queue) /\ worker.at = "post" /\ worker' = Idle /\ worker'.at # "post"
  BY DEF PullInv, QueueOK, PostFails, Idle
<1>2. CASE UNCHANGED queue
  BY <1>1, <1>2, QueueFollows
<1>3. CASE RetryOrGiveUp(worker.job, -1, -1)
  <2>1. CASE worker.job.attempt + 1 < MaxAttempts
    <3> DEFINE e == Again(worker.job, -1, -1)
    <3>1. queue' = Append(queue, e) /\ Retried(e)
      BY <1>1, <1>3, <2>1 DEF RetryOrGiveUp, Again, Retried
    <3> HIDE DEF e
    <3>2. QED
      BY <1>1, <3>1, QueueFollows
  <2>2. CASE ~ (worker.job.attempt + 1 < MaxAttempts)
    BY <1>2, <1>3, <2>2 DEF RetryOrGiveUp
  <2>3. QED
    BY <2>1, <2>2
<1>4. ASSUME NEW status \in {429, 500, 503}, NEW header \in RetryHeaders,
             RetryOrGiveUp(worker.job, RetryAfterHint(status, header.text),
                           IF status = 500 THEN -1 ELSE header.seconds)
      PROVE  FollowedBy(queue', worker')
  <2>1. CASE worker.job.attempt + 1 < MaxAttempts
    <3> DEFINE hint == RetryAfterHint(status, header.text)
               asked == IF status = 500 THEN -1 ELSE header.seconds
               e == Again(worker.job, hint, asked)
    <3>1. queue' = Append(queue, e)
      <4> HIDE DEF hint, asked
      <4>1. RetryOrGiveUp(worker.job, hint, asked)
        BY <1>4 DEF hint, asked
      <4>2. QED
        BY <2>1, <4>1 DEF RetryOrGiveUp, Again
    <3>2. Retried(e)
      BY <1>1, <2>1 DEF Retried
    <3> HIDE DEF e
    <3>3. \E x : (Fresh(x) \/ Retried(x)) /\ queue' = Append(queue, x)
      BY <3>1, <3>2, Zenon
    <3> HIDE DEF hint, asked
    <3>4. IsSequence(queue) /\ (worker'.at # "post" \/ worker' = worker)
      BY <1>1
    <3>5. QED
      BY <3>3, <3>4, QueueFollows
  <2>2. CASE ~ (worker.job.attempt + 1 < MaxAttempts)
    BY <1>2, <1>4, <2>2 DEF RetryOrGiveUp
  <2>3. QED
    BY <2>1, <2>2
<1>5. \/ UNCHANGED queue
      \/ RetryOrGiveUp(worker.job, -1, -1)
      \/ \E status \in {429, 500, 503}, header \in RetryHeaders :
            RetryOrGiveUp(worker.job, RetryAfterHint(status, header.text),
                          IF status = 500 THEN -1 ELSE header.seconds)
  BY DEF PostFails
<1>6. QED
  BY <1>2, <1>3, <1>4, <1>5

\* A fulfilment is posted for those of the read requests that target the client.
LEMMA FulfillFollows ==
    ASSUME PullInv, Fulfill
    PROVE  FollowedBy(queue', worker')
<1> DEFINE wanted == {r \in Range(worker.pending) :
                        r.requestId # None /\ TargetsClient(r, worker.user, ctx)}
           targets == Those(worker.pending, wanted)
           jobOf(r) == Job("fulfill", [ requestId |-> r.requestId,
                                        body |-> FulfillBody(r, worker.user, ctx) ])
           J == {jobOf(r) : r \in {r \in ReadRequests : TargetsClient(r, worker.user, ctx)}}
           s == [i \in DOMAIN targets |-> jobOf(targets[i])]
<1>1. /\ IsSequence(queue) /\ worker.at = "fulfil" /\ worker' = Idle /\ worker'.at # "post"
      /\ worker.pending \in Seq(ReadRequests) /\ queue' = queue \o s
  BY DEF PullInv, QueueOK, Answers, Fulfill, Idle
<1>2. targets \in Seq(Range(worker.pending) \cap wanted) /\ Range(worker.pending) \subseteq ReadRequests
  <2> HIDE DEF wanted
  <2>1. QED
    BY <1>1, ThoseElements, OwnElements
<1> DEFINE W == Range(worker.pending) \cap wanted
<1>3. \A r \in W : r \in ReadRequests /\ TargetsClient(r, worker.user, ctx)
  BY <1>2
<1>4. \A r \in W : jobOf(r) \in J
  BY <1>3
<1>5. targets \in Seq(W)
  BY <1>2
<1> HIDE DEF W, J, jobOf, targets
<1>6. s \in Seq(J)
  <2>1. Len(targets) \in Nat /\ DOMAIN targets = 1 .. Len(targets)
        /\ \A i \in 1 .. Len(targets) : targets[i] \in W
    BY <1>5, LenProperties, ElementOfSeq
  <2>2. s \in [1 .. Len(targets) -> J]
    BY <1>4, <2>1
  <2> HIDE DEF s
  <2>3. QED
    BY <2>1, <2>2
<1> HIDE DEF s
<1>7. IsSequence(queue') /\ Range(queue') \subseteq Range(queue) \cup J
  BY <1>1, <1>6, JoinedElements
<1>8. \A job \in J : Fresh(job)
  BY <1>1 DEF J, jobOf, Fresh
<1>9. Range(queue) \subseteq Jobs
  BY DEF Jobs
<1>10. QED
  BY <1>1, <1>7, <1>8, <1>9 DEF FollowedBy

\* What find_log_upload makes of a url, a method and a form.
LEMMA GrantCases ==
    ASSUME NEW url, NEW method, NEW form, GrantOf(url, method, form) # None
    PROVE  /\ url # None
           /\ \/ /\ method = << <<"PUT">> >>
                 /\ GrantOf(url, method, form) = <<[url |-> url[1], fields |-> None]>>
              \/ /\ method = << <<"POST">> >> /\ form # None /\ FindFields(form[1]) # None
                 /\ GrantOf(url, method, form) = <<[url |-> url[1], fields |-> FindFields(form[1])]>>
<1> DEFINE fields == FindFields(form[1])
           post == IF fields = <<>> THEN <<>> ELSE <<[url |-> url[1], fields |-> fields]>>
           put == <<[url |-> url[1], fields |-> <<>>]>>
           g == GrantOf(url, method, form)
<1>1. << <<"PUT">> >> # << <<"POST">> >>
  OBVIOUS
<1>2. g = IF url \in {<<>>, << <<>> >>} THEN <<>>
          ELSE CASE method = << <<"PUT">> >> -> put
                 [] method = << <<"POST">> >> /\ form # <<>> -> post
                 [] OTHER -> <<>>
  BY DEF GrantOf
<1> HIDE DEF fields, put, g
<1>3. CASE url \in {<<>>, << <<>> >>}
  BY <1>2, <1>3 DEF g, None
<1>4. CASE url \notin {<<>>, << <<>> >>} /\ method = << <<"PUT">> >>
  BY <1>1, <1>2, <1>4 DEF put, g, None
<1>5. CASE url \notin {<<>>, << <<>> >>} /\ method # << <<"PUT">> >>
  <2>1. method = << <<"POST">> >> /\ form # <<>>
    BY <1>2, <1>5 DEF g, None
  <2>2. QED
    BY <1>2, <1>5, <2>1 DEF fields, g, None
<1>6. QED
  BY <1>3, <1>4, <1>5

\* An upload is scheduled for a grant whose parts have been read: a POST with its form, for
\* without it find_log_upload takes nothing, or a PUT, which has none.
LEMMA UploadFollows ==
    ASSUME PullInv, PartsAreRead, ScheduleLogUpload
    PROVE  FollowedBy(queue', worker')
<1> DEFINE upload == FindLogUpload(worker.text)
           object == FindObject(worker.text, "logUpload")
           url    == FindString(object[1], "url")
           method == FindString(object[1], "method")
           form   == FindObject(object[1], "fields")
           fields == FindFields(form[1])
           grant  == worker.grant[1]
<1>1. /\ IsSequence(queue) /\ worker.at = "answer" /\ worker' = Idle /\ worker'.at # "post"
      /\ worker.grant = None \/ (worker.grant \in Grants /\ worker.grant[1] \in granted)
      /\ queue' = IF upload = None THEN queue ELSE Append(queue, Job("log", upload[1]))
  BY DEF PullInv, QueueOK, Answers, ScheduleLogUpload, Idle
<1>2. object # None =>
        /\ worker.grant # None
        /\ url \in {None, <<grant.url>>} /\ method \in {None, << <<grant.method>> >>}
        /\ form # None => fields \in {None, grant.fields}
  BY <1>1 DEF PartsAreRead
<1>3. upload # None => object # None /\ upload = GrantOf(url, method, form)
  BY DEF FindLogUpload, UploadOf, None
<1> HIDE DEF upload, object, url, method, form
<1>4. CASE upload = None
  BY <1>1, <1>4, QueueFollows
<1>5. CASE upload # None
  <2>1. object # None /\ upload = GrantOf(url, method, form)
    BY <1>3, <1>5
  <2>2. worker.grant \in Grants /\ grant \in granted
    BY <1>1, <1>2, <2>1
  <2>3. url = <<grant.url>> /\ url[1] = grant.url
    <3>1. url # None
      BY <1>5, <2>1, GrantCases
    <3>2. QED
      BY <1>2, <2>1, <3>1
  <2>4. \/ /\ method = << <<"PUT">> >>
           /\ upload = <<[url |-> grant.url, fields |-> None]>>
        \/ /\ method = << <<"POST">> >> /\ form # None /\ fields # None
           /\ upload = <<[url |-> grant.url, fields |-> fields]>>
    BY <1>5, <2>1, <2>3, GrantCases
  <2> HIDE DEF fields
  <2>5. CASE method = << <<"PUT">> >>
    <3>1. grant.method = "PUT"
      <4>1. method = << <<grant.method>> >>
        BY <1>2, <2>1, <2>5 DEF None
      <4>2. QED
        BY <2>5, <4>1
    <3>2. grant.fields = None
      BY <1>2, <2>1, <2>2, <3>1, PullRequestsAssumption
    <3>3. upload[1] = [url |-> grant.url, fields |-> grant.fields]
      BY <2>4, <2>5, <3>2
    <3>4. Fresh(Job("log", upload[1])) /\ queue' = Append(queue, Job("log", upload[1]))
      BY <1>1, <1>5, <2>2, <3>1, <3>3 DEF Fresh
    <3>5. QED
      BY <1>1, <3>4, QueueFollows
  <2>6. CASE method # << <<"PUT">> >>
    <3>1. fields = grant.fields /\ grant.fields # None
      BY <1>2, <2>1, <2>4, <2>6
    <3>2. upload[1] = [url |-> grant.url, fields |-> grant.fields]
      BY <2>4, <2>6, <3>1
    <3>3. Fresh(Job("log", upload[1])) /\ queue' = Append(queue, Job("log", upload[1]))
      BY <1>1, <1>5, <2>2, <3>1, <3>2 DEF Fresh
    <3>4. QED
      BY <1>1, <3>3, QueueFollows
  <2>7. QED
    BY <2>5, <2>6
<1>6. QED
  BY <1>4, <1>5

\* The steps of the worker that leave the queue.
LEMMA PostsFollow ==
    ASSUME PullInv,
           PostIsRejected \/ AskIsPosted \/ BeatIsPosted \/ FulfillIsPosted \/ LogIsPosted \/ ScanAck
    PROVE  FollowedBy(queue', worker')
<1>1. IsSequence(queue) /\ queue' = queue
  BY DEF PullInv, QueueOK, PostIsRejected, AskIsPosted, BeatIsPosted, FulfillIsPosted, LogIsPosted, ScanAck
<1>2. worker'.at # "post"
  <2>1. CASE PostIsRejected \/ AskIsPosted \/ LogIsPosted
    BY <2>1 DEF PostIsRejected, AskIsPosted, LogIsPosted, Idle
  <2>2. CASE BeatIsPosted
    <3>1. worker'.at = "ack"
      BY <2>2 DEF BeatIsPosted
    <3>2. QED
      BY <3>1
  <2>3. CASE FulfillIsPosted
    <3>1. worker'.at = "answer"
      BY <2>3 DEF FulfillIsPosted
    <3>2. QED
      BY <3>1
  <2>4. CASE ScanAck
    BY <2>4 DEF ScanAck, Idle
  <2>5. QED
    BY <2>1, <2>2, <2>3, <2>4
<1>3. QED
  BY <1>1, <1>2, QueueFollows

\* A step of the client, the network or the server.
LEMMA StepFollows ==
    ASSUME PullInv, ListIsRead, PartsAreRead, [Next]_vars
    PROVE  FollowedBy(queue', worker')
<1>1. CASE UNCHANGED <<queue, worker>>
  BY <1>1, GameFollows
<1>2. ASSUME NEW i \in DOMAIN queue, Take(i) PROVE FollowedBy(queue', worker')
  BY <1>2, TakeFollows
<1>3. \/ UNCHANGED <<queue, worker>>
      \/ (\E r \in Requests : RequestPlayerLogs(r)) \/ Beat
      \/ \E i \in DOMAIN queue : Take(i)
      \/ PostFails
      \/ PostIsRejected \/ AskIsPosted \/ BeatIsPosted \/ FulfillIsPosted \/ LogIsPosted \/ ScanAck
      \/ Fulfill
      \/ ScheduleLogUpload
  BY DEF Next, vars, game, SetUser, SetMatchContext, StartMatch, EndMatch, MarkDedicatedServer,
         PutContext, SetConsent, Rest
<1>4. QED
  BY <1>1, <1>2, <1>3, CallsFollow, FailureFollows, PostsFollow, FulfillFollows, UploadFollows

-----------------------------------------------------------------------------
(* What a step does to the histories and the answers *)

\* A context is one of those set, and all that was had stays had.
LEMMA HistoriesStep ==
    ASSUME PullInv, [Next]_vars
    PROVE  /\ Histories'
           /\ hadUsers \subseteq hadUsers' /\ hadCtx \subseteq hadCtx' /\ granted \subseteq granted'
<1>1. Histories
  BY DEF PullInv
<1>2. CASE UNCHANGED <<user, ctx, hadUsers, hadCtx>> /\ (UNCHANGED granted \/ granted \subseteq granted')
  BY <1>1, <1>2 DEF Histories, CurrentUserId
<1>3. ASSUME NEW id, SetUser(id)
      PROVE  Histories' /\ hadUsers \subseteq hadUsers' /\ UNCHANGED <<hadCtx, granted>>
  BY <1>1, <1>3 DEF SetUser, Histories, CurrentUserId, outside
<1>4. ASSUME NEW c, PutContext(c), c = [match |-> c.match, server |-> c.server]
      PROVE  Histories' /\ hadCtx \subseteq hadCtx' /\ UNCHANGED <<hadUsers, granted>>
  BY <1>1, <1>4 DEF PutContext, Histories, CurrentUserId, outside
<1>5. ASSUME NEW server, NEW match, SetMatchContext(server, match)
      PROVE  Histories' /\ hadCtx \subseteq hadCtx' /\ UNCHANGED <<hadUsers, granted>>
  <2> DEFINE c == [match |-> match, server |-> server]
  <2>1. PutContext(c) /\ c = [match |-> c.match, server |-> c.server]
    BY <1>5 DEF SetMatchContext
  <2> HIDE DEF c
  <2>2. QED
    BY <1>4, <2>1
<1>6. ASSUME NEW match, PutContext([ctx EXCEPT !.match = match])
      PROVE  Histories' /\ hadCtx \subseteq hadCtx' /\ UNCHANGED <<hadUsers, granted>>
  <2> DEFINE c == [ctx EXCEPT !.match = match]
  <2>1. c = [match |-> match, server |-> ctx.server]
    BY <1>1 DEF Histories
  <2>2. c = [match |-> c.match, server |-> c.server]
    BY <2>1
  <2>3. PutContext(c)
    BY <1>6
  <2> HIDE DEF c
  <2>4. QED
    BY <1>4, <2>2, <2>3
<1>7. ASSUME NEW server, MarkDedicatedServer(server)
      PROVE  Histories' /\ hadCtx \subseteq hadCtx' /\ UNCHANGED <<hadUsers, granted>>
  <2> DEFINE s == IF server = None THEN ctx.server ELSE server
             c == [ctx EXCEPT !.server = IF server = None THEN @ ELSE server]
  <2>1. c = [match |-> ctx.match, server |-> s]
    BY <1>1 DEF Histories
  <2>2. c = [match |-> c.match, server |-> c.server]
    BY <2>1
  <2>3. PutContext(c)
    BY <1>7 DEF MarkDedicatedServer
  <2> HIDE DEF c
  <2>4. QED
    BY <1>4, <2>2, <2>3
<1>8. \/ UNCHANGED <<user, ctx, hadUsers, hadCtx>> /\ (UNCHANGED granted \/ granted \subseteq granted')
      \/ \E id \in Users \cup {None} : SetUser(id)
      \/ \E server \in Servers \cup {None}, match \in Matches \cup {None} : SetMatchContext(server, match)
      \/ \E match \in Matches : StartMatch(match)
      \/ EndMatch
      \/ \E server \in Servers \cup {None} : MarkDedicatedServer(server)
  <2>1. CASE FulfillIsPosted
    BY <2>1 DEF FulfillIsPosted, game
  <2>2. CASE ~ FulfillIsPosted
    BY <2>2 DEF Next, vars, game, outside, SetConsent, RequestPlayerLogs, Beat, Take, PostFails, PostIsRejected,
           AskIsPosted, BeatIsPosted, LogIsPosted, ScanAck, Fulfill, ScheduleLogUpload, Rest
  <2>3. QED
    BY <2>1, <2>2
<1>9. QED
  <2>1. CASE UNCHANGED <<user, ctx, hadUsers, hadCtx>> /\ (UNCHANGED granted \/ granted \subseteq granted')
    BY <1>2, <2>1
  <2>2. CASE \E id \in Users \cup {None} : SetUser(id)
    BY <1>3, <2>2
  <2>3. CASE \E server \in Servers \cup {None}, match \in Matches \cup {None} : SetMatchContext(server, match)
    BY <1>5, <2>3
  <2>4. CASE (\E match \in Matches : StartMatch(match)) \/ EndMatch
    BY <1>6, <2>4 DEF StartMatch, EndMatch
  <2>5. CASE \E server \in Servers \cup {None} : MarkDedicatedServer(server)
    BY <1>7, <2>5
  <2>6. QED
    BY <1>8, <2>1, <2>2, <2>3, <2>4, <2>5

\* The requests of an answer that is cut are those whose ends have arrived.
LEMMA WholeOfCut ==
    ASSUME NEW list \in Seq(Requests), NEW style, NEW cut
    PROVE  SubSeq(list, 1, Cardinality({e \in RequestEnds(style, list) : e <= cut})) \in Seq(Requests)
<1> DEFINE n == Len(list)
           end(i) == Len(AckHead(style) \o Elements([j \in 1 .. i |-> RequestText(style, list[j])]))
           f == [i \in 1 .. n |-> end(i)]
           ends == RequestEnds(style, list)
           seen == {e \in ends : e <= cut}
<1>1. n \in Nat /\ DOMAIN list = 1 .. n /\ \A i \in 1 .. n : list[i] \in Requests
  BY LenProperties, ElementOfSeq
<1>2. ends = {end(i) : i \in 1 .. n}
  BY <1>1 DEF RequestEnds
<1> HIDE DEF end, ends
<1>3. f \in Surjection(1 .. n, ends)
  BY <1>2 DEF Surjection
<1> HIDE DEF f, n
<1>4. IsFiniteSet(1 .. n) /\ Cardinality(1 .. n) = n
  <2>1. 1 \in Int /\ n \in Int
    BY <1>1
  <2>2. IsFiniteSet(1 .. n) /\ Cardinality(1 .. n) = IF 1 > n THEN 0 ELSE n - 1 + 1
    BY <2>1, FS_Interval
  <2>3. QED
    BY <1>1, <2>2
<1>5. IsFiniteSet(ends) /\ Cardinality(ends) <= n
  BY <1>3, <1>4, FS_Surjection
<1>6. IsFiniteSet(seen) /\ Cardinality(seen) <= Cardinality(ends)
  BY <1>5, FS_Subset
<1>7. Cardinality(seen) \in Nat /\ Cardinality(ends) \in Nat
  BY <1>5, <1>6, FS_CardinalityType
<1> DEFINE k == Cardinality(seen)
<1>8. k \in Nat /\ k <= n
  BY <1>1, <1>5, <1>6, <1>7
<1> HIDE DEF seen, k
<1>9. \A i \in 1 .. k : list[i] \in Requests
  BY <1>1, <1>8
<1>10. SubSeq(list, 1, k) \in Seq(Requests)
  BY <1>8, <1>9, SubSeqProperties
<1>11. QED
  BY <1>10 DEF k, seen, ends

\* What the worker takes from an answer.
LEMMA AnswersStep ==
    ASSUME PullInv, ListIsRead, PartsAreRead, [Next]_vars
    PROVE  Answers'
<1>1. Answers /\ CurrentUserId(user) \in hadUsers
  BY DEF PullInv, Histories
<1>2. CASE UNCHANGED worker
  BY <1>1, <1>2, HistoriesStep DEF Answers
<1>3. CASE worker'.at \in {"idle", "post"}
  BY <1>3 DEF Answers
<1>4. CASE BeatIsPosted
  <2>1. PICK style \in Styles, n \in 0 .. Len(Order) :
           \E cut \in 0 .. Len(AckText(style, Those(SubSeq(Order, 1, n), open))) :
              worker' = [ at |-> "ack",
                          text |-> SubSeq(AckText(style, Those(SubSeq(Order, 1, n), open)), 1, cut),
                          style |-> style,
                          whole |-> SubSeq(Those(SubSeq(Order, 1, n), open), 1,
                                      Cardinality({e \in RequestEnds(style, Those(SubSeq(Order, 1, n), open)) : e <= cut})) ]
    BY <1>4 DEF BeatIsPosted
  <2> DEFINE list == Those(SubSeq(Order, 1, n), open)
  <2>2. PICK cut \in 0 .. Len(AckText(style, list)) :
           worker' = [ at |-> "ack", text |-> SubSeq(AckText(style, list), 1, cut), style |-> style,
                       whole |-> SubSeq(list, 1, Cardinality({e \in RequestEnds(style, list) : e <= cut})) ]
    BY <2>1
  <2>3. list \in Seq(Requests)
    <3> DEFINE part == SubSeq(Order, 1, n)
    <3>1. Order \in Seq(Requests) /\ Len(Order) \in Nat
      BY PullRequestsAssumption, LenProperties
    <3>2. \A i \in 1 .. n : Order[i] \in Requests
      BY <3>1, ElementOfSeq
    <3>3. n \in Int
      BY <3>1
    <3>4. part \in Seq(Requests)
      BY <3>2, <3>3, SubSeqProperties
    <3> HIDE DEF part
    <3>5. Those(part, open) \in Seq(Range(part) \cap open) /\ Range(part) \subseteq Requests
      BY <3>4, ThoseElements, OwnElements
    <3> DEFINE W == Range(part) \cap open
    <3>6. W \subseteq Requests /\ Those(part, open) \in Seq(W)
      BY <3>5
    <3> HIDE DEF W
    <3>7. Those(part, open) \in Seq(Requests)
      BY <3>6
    <3>8. QED
      BY <3>7 DEF part
  <2> HIDE DEF list
  <2>4. worker'.at = "ack" /\ worker'.whole \in Seq(Requests) /\ worker'.style \in Styles
    BY <2>2, <2>3, WholeOfCut
  <2>5. QED
    BY <2>4 DEF Answers
<1>5. CASE FulfillIsPosted
  <2>1. PICK grant \in Grants :
           /\ worker'.at = "answer" /\ (worker'.grant = None \/ worker'.grant = grant)
           /\ granted' = granted \cup Range(grant)
    BY <1>5 DEF FulfillIsPosted
  <2>2. grant = None \/ grant[1] \in Range(grant)
    <3>1. CASE grant = <<grant[1]>>
      <4>1. 1 \in DOMAIN grant
        BY <3>1
      <4>2. QED
        BY <4>1 DEF Range
    <3>2. QED
      BY <3>1, PullRequestsAssumption
  <2>3. QED
    BY <2>1, <2>2 DEF Answers
<1>6. CASE ScanAck
  <2> DEFINE pending == FindPending(worker.text)
             k == Min({MaxRequests, Len(worker.whole)})
  <2>1. /\ worker.at = "ack" /\ worker.whole \in Seq(Requests) /\ worker.style \in Styles
        /\ UNCHANGED hadUsers
    BY <1>1, <1>6 DEF ScanAck, Answers, game
  <2>2. pending = [i \in 1 .. k |-> ReadAs(worker.style, worker.whole[i])]
    BY <2>1 DEF ListIsRead
  <2>3. pending \in Seq(ReadRequests)
    <3>1. Len(worker.whole) \in Nat /\ MaxRequests \in Nat
      BY <2>1, LenProperties, PullRequestsAssumption
    <3>2. k \in Nat /\ k <= Len(worker.whole)
      BY <3>1 DEF Min
    <3> HIDE DEF k
    <3>3. \A i \in 1 .. k : worker.whole[i] \in Requests
      BY <2>1, <3>1, <3>2, ElementOfSeq
    <3>4. \A i \in 1 .. k : ReadAs(worker.style, worker.whole[i]) \in ReadRequests
      BY <2>1, <3>3 DEF ReadRequests
    <3> HIDE DEF pending
    <3>5. QED
      BY <2>2, <3>2, <3>4
  <2>4. \/ worker' = Idle
        \/ worker' = [at |-> "fulfil", pending |-> pending, user |-> CurrentUserId(user)]
    BY <1>6 DEF ScanAck
  <2> HIDE DEF pending
  <2>5. QED
    BY <1>1, <2>1, <2>3, <2>4 DEF Answers, Idle
<1>7. \/ UNCHANGED worker \/ worker'.at \in {"idle", "post"}
      \/ BeatIsPosted \/ FulfillIsPosted \/ ScanAck
  BY DEF Next, vars, game, SetUser, SetMatchContext, StartMatch, EndMatch, MarkDedicatedServer,
         PutContext, SetConsent, Rest, RequestPlayerLogs, Beat, Take, PostFails, PostIsRejected,
         AskIsPosted, LogIsPosted, Fulfill, ScheduleLogUpload, Idle
<1>8. QED
  BY <1>2, <1>3, <1>4, <1>5, <1>6, <1>7

-----------------------------------------------------------------------------
(* The invariant *)

\* What a job asserts of the histories stays true as they grow.
LEMMA SoundStays ==
    ASSUME NEW job, Sound(job),
           hadUsers \subseteq hadUsers', hadCtx \subseteq hadCtx', granted \subseteq granted'
    PROVE  Sound(job)'
<1>1. job.kind = "fulfill" => Matching(job)'
  BY DEF Sound, Matching
<1>2. job.kind = "log" => AsGranted(job)'
  BY DEF Sound, AsGranted
<1>3. HeadersAreRead /\ job.attempt > 0 => Polite(job)
  BY DEF Sound
<1>4. QED
  BY <1>1, <1>2, <1>3 DEF Sound, Polite, HeadersAreRead

\* A fulfilment of a request that targets the client asserts what the request is for.
LEMMA FulfilledMatches ==
    ASSUME PullInv, worker.at = "fulfil", NEW r \in ReadRequests, TargetsClient(r, worker.user, ctx),
           NEW job, job = Job("fulfill", [ requestId |-> r.requestId,
                                           body |-> FulfillBody(r, worker.user, ctx) ])
    PROVE  Matching(job)
<1> DEFINE body == FulfillBody(r, worker.user, ctx)
<1>1. job.of.requestId = r.requestId /\ job.of.body = body
  BY DEF Job
<1>2. /\ body.userId = worker.user /\ body.sessionId = SessionId
      /\ body.matchId = ctx.match /\ body.server = ctx.server
      /\ body.nonce = Clamped(r.fulfillNonce)
      /\ body.expiry = IF r.fulfillNonce = None THEN 0 ELSE r.nonceExpiry
  BY DEF FulfillBody
<1> HIDE DEF body
<1>3. worker.user \in hadUsers /\ [match |-> ctx.match, server |-> ctx.server] \in hadCtx
  BY DEF PullInv, Answers, Histories
<1>4. /\ r.targetValue # None
      /\ \/ r.targetType = <<"userId">> /\ body.userId = r.targetValue
         \/ r.targetType = <<"sessionId">> /\ body.sessionId = r.targetValue
         \/ r.targetType = <<"matchId">> /\ body.matchId = r.targetValue
         \/ r.targetType = <<"server">> /\ body.server = r.targetValue
  BY <1>2 DEF TargetsClient
<1>5. QED
  BY <1>1, <1>2, <1>3, <1>4 DEF Matching

\* A job that is new is sound.
LEMMA FreshIsSound ==
    ASSUME PullInv, NEW job, Fresh(job)
    PROVE  IsJob(job) /\ Sound(job)
<1>1. IsJob(job) /\ job.attempt = 0
  <2>1. \E kind, of : job = Job(kind, of)
    BY DEF Fresh
  <2>2. QED
    BY <2>1 DEF Job, IsJob
<1>2. job.kind = "fulfill" => Matching(job)
  <2>1. ASSUME job.kind = "fulfill"
        PROVE  /\ worker.at = "fulfil"
               /\ \E r \in ReadRequests :
                     /\ TargetsClient(r, worker.user, ctx)
                     /\ job = Job("fulfill", [ requestId |-> r.requestId,
                                               body |-> FulfillBody(r, worker.user, ctx) ])
    BY <2>1 DEF Fresh, Job
  <2>2. QED
    BY <2>1, FulfilledMatches
<1>3. job.kind = "log" => AsGranted(job)
  <2>1. ASSUME job.kind = "log"
        PROVE  \E grant \in granted :
                  /\ grant.method = "POST" => grant.fields # None
                  /\ job = Job("log", [url |-> grant.url, fields |-> grant.fields])
    BY <2>1 DEF Fresh, Job
  <2>2. ASSUME NEW grant \in granted, grant.method = "POST" => grant.fields # None,
               job = Job("log", [url |-> grant.url, fields |-> grant.fields])
        PROVE  AsGranted(job)
    BY <2>2 DEF Job, AsGranted
  <2>3. QED
    BY <2>1, <2>2
<1>4. QED
  BY <1>1, <1>2, <1>3 DEF Sound

\* A job that waits for the ladder of its attempt, what was asked for and no more than the cap.
LEMMA DelayedJobIsPolite ==
    ASSUME NEW n \in 1 .. 5, NEW hint \in Int, NEW asked \in Int, NEW job,
           Readable(asked) => hint = asked,
           job.delay = RetryDelay(n, hint), job.attempt = n, job.asked = asked
    PROVE  Polite(job)
<1>1. 2 ^ n \in Int /\ 2 ^ n <= 32
  <2>1. n = 1 \/ n = 2 \/ n = 3 \/ n = 4 \/ n = 5
    OBVIOUS
  <2>2. 2 ^ 1 = 2 /\ 2 ^ 2 = 4 /\ 2 ^ 3 = 8 /\ 2 ^ 4 = 16 /\ 2 ^ 5 = 32
    OBVIOUS
  <2>3. 2 ^ n \in {2, 4, 8, 16, 32}
    BY <2>1, <2>2, Zenon
  <2> DEFINE p == 2 ^ n
  <2> HIDE DEF p
  <2>4. p \in Int /\ p <= 32
    BY <2>3 DEF p
  <2>5. QED
    BY <2>4 DEF p
<1> DEFINE ladder == 2 ^ n
           raised == IF hint > ladder THEN hint ELSE ladder
<1>2. RetryDelay(n, hint) = IF raised > 300 THEN 300 ELSE raised
  <2>1. (IF n < 1 THEN 1 ELSE IF n > 5 THEN 5 ELSE n) = n
    OBVIOUS
  <2>2. QED
    BY <2>1 DEF RetryDelay, MaxRetryAfterSeconds
<1> HIDE DEF ladder
<1>3. ladder \in Int /\ ladder <= 32
  BY <1>1 DEF ladder
<1>4. QED
  BY <1>2, <1>3 DEF ladder, Polite, MaxRetryAfterSeconds

\* A job that is sent again is sound.
LEMMA RetriedIsSound ==
    ASSUME PullInv, NEW job, Retried(job)
    PROVE  IsJob(job) /\ Sound(job)
<1> DEFINE old == worker.job
           n == old.attempt + 1
<1>1. IsJob(old) /\ Sound(old) /\ n < MaxAttempts
  BY DEF PullInv, QueueOK, Jobs, Retried
<1>2. n \in 1 .. 5
  BY <1>1, PullRequestsAssumption DEF IsJob
<1>3. PICK hint, asked :
         /\ job = Again(old, hint, asked)
         /\ HeadersAreRead => hint \in Int /\ asked \in Int /\ (Readable(asked) => hint = asked)
  <2>1. CASE job = Again(old, -1, -1)
    BY <2>1
  <2>2. ASSUME NEW status \in {429, 500, 503}, NEW header \in RetryHeaders,
               job = Again(old, RetryAfterHint(status, header.text),
                           IF status = 500 THEN -1 ELSE header.seconds)
        PROVE  \E hint, asked : /\ job = Again(old, hint, asked)
                                /\ HeadersAreRead => /\ hint \in Int /\ asked \in Int
                                                     /\ Readable(asked) => hint = asked
    <3> DEFINE hint == RetryAfterHint(status, header.text)
               asked == IF status = 500 THEN -1 ELSE header.seconds
    <3>1. HeadersAreRead => hint \in Int /\ (Readable(asked) => hint = asked)
      BY DEF RetryAfterHint, HeadersAreRead
    <3>2. asked \in Int
      BY PullRequestsAssumption
    <3>3. job = Again(old, hint, asked)
      BY <2>2
    <3> HIDE DEF hint, asked
    <3>4. QED
      BY <3>1, <3>2, <3>3
  <2>3. QED
    BY <2>1, <2>2 DEF Retried
<1>4. job = [ kind |-> old.kind, of |-> old.of, attempt |-> n, delay |-> RetryDelay(n, hint),
              asked |-> asked ]
  <2>1. old = [ kind |-> old.kind, of |-> old.of, attempt |-> old.attempt, delay |-> old.delay,
                asked |-> old.asked ]
    BY <1>1 DEF IsJob
  <2>2. QED
    BY <1>3, <2>1 DEF Again
<1>5. job.kind = old.kind /\ job.of = old.of /\ IsJob(job)
  BY <1>2, <1>4 DEF IsJob
<1>6. (job.kind = "fulfill" => Matching(job)) /\ (job.kind = "log" => AsGranted(job))
  BY <1>1, <1>5 DEF Sound, Matching, AsGranted
<1>7. HeadersAreRead => Polite(job)
  <2>1. HeadersAreRead => /\ job.delay = RetryDelay(n, hint) /\ job.attempt = n /\ job.asked = asked
                          /\ hint \in Int /\ asked \in Int /\ (Readable(asked) => hint = asked)
    BY <1>3, <1>4
  <2> HIDE DEF n
  <2>2. QED
    BY <1>2, <2>1, DelayedJobIsPolite
<1>8. QED
  BY <1>5, <1>6, <1>7 DEF Sound

\* The initial states.
LEMMA PullInit == Init => PullInv
<1> SUFFICES ASSUME Init PROVE PullInv
  OBVIOUS
<1>1. queue = <<>> /\ worker.at = "idle"
  BY DEF Init, Idle
<1>2. IsSequence(queue) /\ Jobs = {}
  BY <1>1 DEF IsSequence, Jobs, Range
<1>3. Answers /\ Histories
  BY <1>1 DEF Init, Answers, Histories, CurrentUserId
<1>4. QED
  BY <1>2, <1>3 DEF PullInv, QueueOK

\* The steps.
LEMMA PullStep ==
    ASSUME PullInv, ListIsRead, PartsAreRead, [Next]_vars
    PROVE  PullInv'
<1>1. /\ Histories' /\ Answers'
      /\ hadUsers \subseteq hadUsers' /\ hadCtx \subseteq hadCtx' /\ granted \subseteq granted'
  BY HistoriesStep, AnswersStep
<1>2. FollowedBy(queue', worker')
  BY StepFollows
<1>3. ASSUME NEW job \in Jobs' PROVE IsJob(job) /\ Sound(job)'
  <2>1. job \in Jobs \/ Fresh(job) \/ Retried(job)
    BY <1>2, <1>3 DEF FollowedBy, Jobs
  <2>2. IsJob(job) /\ Sound(job)
    BY <2>1, FreshIsSound, RetriedIsSound DEF PullInv, QueueOK
  <2>3. QED
    BY <1>1, <2>2, SoundStays
<1>4. QueueOK'
  BY <1>2, <1>3 DEF QueueOK, FollowedBy, IsSequence
<1>5. QED
  BY <1>1, <1>3, <1>4 DEF PullInv

-----------------------------------------------------------------------------
(* The theorems *)

\* Whatever the game changes while an answer is handled (client.cpp:535-620), a fulfilment is of
\* a request the server lists, bears that request's nonce and asserts what it is for.
THEOREM FulfilmentsMatch == Spec /\ [](ListIsRead /\ PartsAreRead) => []FulfilMatches
<1>1. PullInv => FulfilMatches
  BY DEF PullInv, Sound, FulfilMatches, Matching
<1>2. PullInv /\ ListIsRead /\ PartsAreRead /\ [Next]_vars => PullInv'
  BY PullStep
<1>3. QED
  BY <1>1, <1>2, PullInit, PTL DEF Spec

\* Whatever is lost, retried or granted again (schedule_log_upload), a log goes only where it was
\* granted, and with the fields of that grant: also when its form is missing or is refused, a POST is
\* not taken for a bare PUT, for which the parts of a grant only must not be read as others.
THEOREM LogsGoWhereGranted == Spec /\ [](ListIsRead /\ PartsAreRead) => []UploadsAsGranted
<1>1. PullInv => UploadsAsGranted
  BY DEF PullInv, Sound, UploadsAsGranted, AsGranted
<1>2. PullInv /\ ListIsRead /\ PartsAreRead /\ [Next]_vars => PullInv'
  BY PullStep
<1>3. QED
  BY <1>1, <1>2, PullInit, PTL DEF Spec

\* Whatever headers come with the failures of a job (retry_after), its delay is at least the ladder's and
\* what the last one asked for, as far as it could be read, and at most the cap.
THEOREM RetriesArePolite ==
    ASSUME HeadersAreRead
    PROVE  Spec /\ [](ListIsRead /\ PartsAreRead) => []RetryIsPolite
<1>1. PullInv => RetryIsPolite
  BY DEF PullInv, Sound, RetryIsPolite, Polite
<1>2. PullInv /\ ListIsRead /\ PartsAreRead /\ [Next]_vars => PullInv'
  BY PullStep
<1>3. QED
  BY <1>1, <1>2, PullInit, PTL DEF Spec
=============================================================================

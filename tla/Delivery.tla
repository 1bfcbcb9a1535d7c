------------------------------ MODULE Delivery ------------------------------
(***************************************************************************)
(* Delivery of outbound payloads across launches of the game: the ingest   *)
(* front end (Client::enqueue_ingest), the worker's bounded drop-oldest    *)
(* queue with its retries (Worker), the pending directory that backs       *)
(* write-ahead reports (SidecarQueue), the re-queueing of what an earlier  *)
(* launch left there (Client::drain_sidecars) and the log uploads chased   *)
(* after a delivered report.  The process may die between any two steps.   *)
(*                                                                         *)
(* Threads: any number of API callers (one per job in inHand), the init    *)
(* thread, the worker, and the environment (server, disk, clock, crash).   *)
(***************************************************************************)
EXTENDS Integers, Sequences, FiniteSets, SequencesExt

CONSTANTS
    Crashes,      \* crash reports          (Durability::write_ahead)
    BugReports,   \* bug reports            (Durability::write_ahead)
    Envelopes,    \* batch envelopes and pull-request fulfilments
                  \*   (persist_on_failure with no_persist)
    Beats,        \* heartbeats             (Durability::ephemeral)
    WantsLog,     \* the reports captured with attach_log, and the fulfilments
    MaxQueue,     \* Worker::max_queue_size
    MaxAttempts,  \* Worker::max_attempts
    MaxFiles,     \* SidecarQueue::max_files_per_kind
    MaxLaunches,  \* bound on the launches explored
    FailingWrites, \* the reports of which a sidecar write may fail, whole or in part
    RotationFails \* whether the removal or the rename of a log file may fail

Reports == Crashes \cup BugReports
Items   == Reports \cup Envelopes \cup Beats

ASSUME DeliveryAssumption ==
    /\ IsFiniteSet(Items)
    /\ Crashes \cap BugReports = {}
    /\ Reports \cap (Envelopes \cup Beats) = {}
    /\ Envelopes \cap Beats = {}
    /\ WantsLog \subseteq Reports \cup Envelopes
    /\ MaxQueue \in Nat \ {0} /\ MaxAttempts \in Nat \ {0}
    /\ MaxFiles \in Nat /\ MaxLaunches \in Nat \ {0}
    /\ FailingWrites \subseteq Reports /\ RotationFails \in BOOLEAN

\* An UploadJob.  log = {} is a JSON POST of `item`; otherwise the job is the
\* upload, granted for `item`, of a log file with lines of those launches.
\* `sidecar`: write() returned a path.  `torn`: the body is not the whole payload.
Job == [ item : Items, log : SUBSET Nat, sidecar : BOOLEAN, torn : BOOLEAN,
         fromPrevious : BOOLEAN, attempt : 0 .. MaxAttempts - 1, ready : BOOLEAN ]

Post(i, written, previous) ==
    [ item |-> i, log |-> {}, sidecar |-> written, torn |-> FALSE,
      fromPrevious |-> previous, attempt |-> 0, ready |-> TRUE ]

\* A job whose body was read back from its file.
Restored(i, torn) == [Post(i, TRUE, TRUE) EXCEPT !.torn = torn]

LogUpload(i, launches) == [Post(i, FALSE, FALSE) EXCEPT !.log = launches]

VARIABLES
    (* process *)
    process,     \* "quit" | "crashed" | "starting" | "running" | "stopping" | "persisting"
    launch,      \* how many times the game has been launched
    storage,     \* storage_available_ of this launch
    logging,     \* session_log_ is configured in this launch
    died,        \* previous_marker_: the launch it is of (0: none, or its death is
                 \*   represented by a restored crash report)
    inHand,      \* jobs API callers built (sidecar written) and have not enqueued yet
    restoring,   \* scanned reports drain_sidecars has still to enqueue
    queue,       \* Worker::queue_
    stage,       \* worker: "idle" | "log" | "post" | "settle" | "chase"
    inflight,    \* the job the worker is processing: {} or {job}
    outcome,     \* classify()'s verdict on it
    claimed,     \* previous_log_claimed_
    (* disk *)
    file,        \* pending/<kind>/<item>.json: "none" | "empty" | "partial" | "whole"
    marker,      \* the launch whose session marker is there (0: none)
    currentLog,  \* the launches whose lines session.log holds
    previousLog, \* the launches whose lines previous-session.log holds
    (* server, and history *)
    answered,    \* the items the server accepted or rejected
    submitted,   \* the items handed to the SDK
    asks,        \* the reports whose body says "log":true
    origin,      \* the launch whose events a report describes
    backed,      \* the reports whose whole body a sidecar write put on disk
    cut,         \* the reports for which write() returned the path of less than that
    concluded,   \* the items this launch got a delivered / rejected verdict for
    oldLogJobs   \* previous-session log uploads enqueued in this launch

launchVars  == <<launch, storage, logging, died, marker>>
processVars == <<process, launchVars>>
workerVars  == <<stage, inflight, outcome, claimed>>
logVars     == <<currentLog, previousLog, oldLogJobs>>
historyVars == <<submitted, asks, origin>>
vars == <<processVars, inHand, restoring, queue, workerVars, file, logVars,
          answered, historyVars, backed, cut, concluded>>

-----------------------------------------------------------------------------
(* Sidecar files *)

KindOf(r) == IF r \in Crashes THEN Crashes ELSE BugReports

\* What is in a sidecar's place.
Contents == {"none", "empty", "partial", "whole"}

\* Files count against the cap whatever they hold; scan() skips the empty ones.
FilesOfKind(r) == {q \in KindOf(r) : file[q] # "none"}

HasRoom(r) == storage /\ Cardinality(FilesOfKind(r)) < MaxFiles

\* What SidecarQueue::write may leave of r's body: no file and no path when it
\* refuses or cannot open one; otherwise a path is returned whatever the unchecked
\* write and close put behind it.
WriteResults(r) ==
    IF ~HasRoom(r) THEN {"none"}
    ELSE IF r \in FailingWrites THEN {"none", "empty", "partial", "whole"} ELSE {"whole"}

Wrote(r, content) ==
    /\ content \in WriteResults(r)
    /\ file' = [file EXCEPT ![r] = IF content = "none" THEN @ ELSE content]
    /\ backed' = IF content = "whole" THEN backed \cup {r} ELSE backed
    /\ cut' = IF content \in {"empty", "partial"} THEN cut \cup {r} ELSE cut

Restorable == {r \in Reports : file[r] \in {"partial", "whole"}}

MayPersistEnvelopes(job) == job.log = {} /\ ~job.sidecar /\ job.item \notin Beats

MayPersistBacked(job) == job.log = {} /\ job.sidecar /\ job.item \in Reports

\* Which jobs the give-up path and the quit path write a file for.
MayPersist(job) ==
    /\ job.log = {}
    /\ ~job.sidecar
    /\ job.item \notin Envelopes
    /\ job.item \notin Beats

\* The last write a job is offered before it leaves memory.
Persist(job) ==
    IF MayPersist(job)
    THEN \E content \in WriteResults(job.item) : Wrote(job.item, content)
    ELSE UNCHANGED <<file, backed, cut>>

EnqueuedMutant(job) == Append(queue, job)

\* Worker::enqueue: when the queue is full the oldest entry goes.
Enqueued(job) ==
    Append(IF Len(queue) >= MaxQueue THEN Tail(queue) ELSE queue, job)

-----------------------------------------------------------------------------
(* API callers *)

\* A report asks for a log when this launch has one: the preserved one for the
\* report of an earlier run.
Asks(r, previous) ==
    logging /\ IF previous THEN previousLog # {} ELSE r \in WantsLog

\* enqueue_ingest of a report of a run, up to and including its sidecar write.
Ingest(r, previous, run, content) ==
    /\ r \notin submitted
    /\ Wrote(r, content)
    /\ inHand' = inHand \cup {Post(r, content # "none", previous)}
    /\ submitted' = submitted \cup {r}
    /\ asks' = IF Asks(r, previous) THEN asks \cup {r} ELSE asks
    /\ origin' = [origin EXCEPT ![r] = run]
    /\ UNCHANGED <<process, launch, storage, logging, restoring, queue, workerVars,
                   logVars, answered, concluded>>

\* report_crash, report_bug.
CaptureReport(r, content) ==
    /\ process = "running"
    /\ Ingest(r, FALSE, launch, content)
    /\ UNCHANGED <<died, marker>>

\* start_session_tracking runs once a launch: at the end of init, or when consent
\* is given later.
MayTrack ==
    /\ storage /\ marker # launch
    /\ \/ process = "running"
       \/ process = "starting" /\ restoring = {}

\* The marker of this launch is written.
Track ==
    /\ MayTrack
    /\ died = 0
    /\ marker' = launch
    /\ UNCHANGED <<process, launch, storage, logging, died, inHand, restoring, queue,
                   workerVars, file, logVars, answered, historyVars, backed, cut,
                   concluded>>

\* The marker is written, and the death of the run that left its own behind is
\* captured now: a crash report of that run.
TrackAndReport(r, content) ==
    /\ MayTrack
    /\ died # 0
    /\ r \in Crashes
    /\ Ingest(r, TRUE, died, content)
    /\ marker' = launch
    /\ died' = 0

\* What is in memory is gone with the process.
Dies ==
    /\ process' = "crashed" /\ died' = 0
    /\ inHand' = {} /\ restoring' = {} /\ queue' = <<>> /\ inflight' = {}
    /\ stage' = "idle" /\ outcome' = "none" /\ claimed' = FALSE
    /\ concluded' = {} /\ oldLogJobs' = 0

\* The process dies inside SidecarQueue::write, between open and close.
CrashInWrite(r, torn) ==
    /\ \/ /\ process = "running"
          /\ origin' = [origin EXCEPT ![r] = launch]
          /\ UNCHANGED marker
       \/ /\ MayTrack /\ died # 0 /\ r \in Crashes
          /\ origin' = [origin EXCEPT ![r] = died]
          /\ marker' = launch
    /\ r \notin submitted
    /\ HasRoom(r)
    /\ file' = [file EXCEPT ![r] = torn]
    /\ submitted' = submitted \cup {r}
    /\ Dies
    /\ UNCHANGED <<launch, storage, logging, currentLog, previousLog, answered, asks,
                   backed, cut>>

\* A batch envelope, a fulfilment or a heartbeat: memory only.  Until it exits,
\* the worker itself drains batches and fulfils pull requests.
CaptureOther(i) ==
    /\ \/ process = "running" /\ i \in Envelopes \cup Beats
       \/ process = "stopping" /\ i \in Envelopes
    /\ i \notin submitted
    /\ inHand' = inHand \cup {Post(i, FALSE, FALSE)}
    /\ submitted' = submitted \cup {i}
    /\ UNCHANGED <<processVars, restoring, queue, workerVars, file, logVars,
                   answered, asks, origin, backed, cut, concluded>>

\* The rest of enqueue_ingest: worker_->enqueue.
Enqueue(job) ==
    /\ job \in inHand
    /\ inHand' = inHand \ {job}
    /\ queue' = Enqueued(job)
    /\ UNCHANGED <<processVars, restoring, workerVars, file, logVars, answered,
                   historyVars, backed, cut, concluded>>

\* The first lines this session logs reach session.log, by whichever flush (Capture
\* has them); a launch that dies before its client is published logs none.
LogLines ==
    /\ process \in {"running", "stopping"}
    /\ logging
    /\ launch \notin currentLog
    /\ currentLog' = currentLog \cup {launch}
    /\ UNCHANGED <<processVars, inHand, restoring, queue, workerVars, file, previousLog,
                   oldLogJobs, answered, historyVars, backed, cut, concluded>>

-----------------------------------------------------------------------------
(* Launch, quit and crash *)

\* What rotate_for_new_session may make of the two log files: <<previous, current>>.
\* Failures of the removal and of the rename are ignored: the lines of session.log
\* then stay where they are.
RotatedLogs ==
    {<<currentLog, {}>>} \cup
    (IF ~RotationFails THEN {}
     ELSE IF currentLog = {} THEN {<<previousLog, {}>>}
     ELSE {{}, previousLog} \X {currentLog})

RestorableCrash == Restorable \cap Crashes # {}

\* Client::init up to drain_sidecars: the log is rotated, the marker taken, the
\* pending files scanned, and the worker runs.  `logs`: the session log is enabled.
\* A crash report among the pending files stands for the death the marker tells of
\* (has_restored_crash_).
Launch(usable, logs) ==
    /\ process \in {"quit", "crashed"}
    /\ launch < MaxLaunches
    /\ process' = "starting"
    /\ launch' = launch + 1
    /\ storage' = usable
    /\ logging' = (usable /\ logs)
    /\ restoring' = IF usable THEN Restorable ELSE {}
    /\ died' = IF usable /\ ~RestorableCrash THEN marker ELSE 0
    /\ marker' = IF usable THEN 0 ELSE marker
    /\ IF logging'
       THEN \E rotated \in RotatedLogs :
               previousLog' = rotated[1] /\ currentLog' = rotated[2]
       ELSE UNCHANGED <<currentLog, previousLog>>
    /\ UNCHANGED <<inHand, queue, workerVars, oldLogJobs, file, answered,
                   historyVars, backed, cut, concluded>>

\* One iteration of drain_sidecars.
Restore(r) ==
    /\ process = "starting"
    /\ r \in restoring
    /\ restoring' = restoring \ {r}
    /\ queue' = Enqueued(Restored(r, file[r] = "partial"))
    /\ UNCHANGED <<processVars, inHand, workerVars, file, logVars, answered,
                   historyVars, backed, cut, concluded>>

\* init returns and the client is published to the API.
InitDone ==
    /\ process = "starting"
    /\ restoring = {} /\ inHand = {}
    /\ process' = "running"
    /\ UNCHANGED <<launchVars, inHand, restoring, queue, workerVars, file,
                   logVars, answered, historyVars, backed, cut, concluded>>

\* ~Client runs when no API call holds the client any more: after its bounded
\* flush it clears Worker::running_.
Quit ==
    /\ process = "running"
    /\ inHand = {}
    /\ process' = "stopping"
    /\ UNCHANGED <<launchVars, inHand, restoring, queue, workerVars, file,
                   logVars, answered, historyVars, backed, cut, concluded>>

WorkerExitsMutant ==
    /\ process = "stopping" /\ stage = "idle" /\ inHand = {} /\ queue = <<>>
    /\ process' = "persisting"
    /\ UNCHANGED <<launchVars, inHand, restoring, queue, workerVars, file,
                   logVars, answered, historyVars, backed, cut, concluded>>

\* The worker sees running_ = false and its thread ends; stop() joins it.
WorkerExits ==
    /\ process = "stopping"
    /\ stage = "idle"
    /\ inHand = {}
    /\ process' = "persisting"
    /\ UNCHANGED <<launchVars, inHand, restoring, queue, workerVars, file,
                   logVars, answered, historyVars, backed, cut, concluded>>

\* One iteration of persist_leftovers.
PersistLeftover ==
    /\ process = "persisting"
    /\ queue # <<>>
    /\ queue' = Tail(queue)
    /\ Persist(Head(queue))
    /\ UNCHANGED <<processVars, inHand, restoring, workerVars, logVars, answered,
                   historyVars, concluded>>

\* The destructor returns; a clean end removes the marker.
QuitDone ==
    /\ process = "persisting"
    /\ queue = <<>>
    /\ process' = "quit"
    /\ marker' = IF storage THEN 0 ELSE marker
    /\ died' = 0 /\ claimed' = FALSE /\ concluded' = {} /\ oldLogJobs' = 0
    /\ UNCHANGED <<launch, storage, logging, inHand, restoring, queue, stage, inflight,
                   outcome, file, currentLog, previousLog, answered, historyVars,
                   backed, cut>>

\* The process dies at any point; what is on disk stays.
Crash ==
    /\ process \notin {"quit", "crashed"}
    /\ Dies
    /\ UNCHANGED <<launch, storage, logging, marker, file, currentLog, previousLog,
                   answered, historyVars, backed, cut>>

-----------------------------------------------------------------------------
(* The worker thread *)

TakenMutant(i) == queue

\* The queue without the entry that take_ready_job moved out and erased.
Taken(i) == RemoveAt(queue, i)

\* Worker::take_ready_job takes the first entry, in order, that is not waiting
\* out a backoff.
FirstReady(i) ==
    /\ i \in 1 .. Len(queue)
    /\ queue[i].ready
    /\ \A j \in 1 .. i - 1 : ~queue[j].ready

\* The paced flush of the session log, after the test of running_ and without
\* the mutex: stop() may clear running_ meanwhile.
FlushLog ==
    /\ process \in {"starting", "running"}
    /\ stage = "idle"
    /\ stage' = "log"
    /\ UNCHANGED <<processVars, inHand, restoring, queue, inflight, outcome, claimed,
                   file, logVars, answered, historyVars, backed, cut, concluded>>

\* After the flush no entry is ready: the loop goes on.
FindNoneReady ==
    /\ stage = "log"
    /\ \A j \in DOMAIN queue : ~queue[j].ready
    /\ stage' = "idle"
    /\ UNCHANGED <<processVars, inHand, restoring, queue, inflight, outcome, claimed,
                   file, logVars, answered, historyVars, backed, cut, concluded>>

\* A quit is seen before an entry is taken, except after a flush of the log.
Take(i) ==
    /\ \/ stage = "idle" /\ process \in {"starting", "running"}
       \/ stage = "log"
    /\ FirstReady(i)
    /\ inflight' = {queue[i]}
    /\ queue' = Taken(i)
    /\ stage' = "post"
    /\ UNCHANGED <<processVars, inHand, restoring, outcome, claimed, file, logVars,
                   answered, historyVars, backed, cut, concluded>>

\* not_before passes for one waiting entry.
BackoffExpires(i) ==
    /\ process \in {"starting", "running", "stopping"}
    /\ i \in 1 .. Len(queue)
    /\ ~queue[i].ready
    /\ queue' = [queue EXCEPT ![i].ready = TRUE]
    /\ UNCHANGED <<processVars, inHand, restoring, workerVars, file, logVars,
                   answered, historyVars, backed, cut, concluded>>

\* One HTTP exchange.  The server may accept the payload and its answer be lost
\* (a transport error); a torn body is never accepted.
PostReturns(verdict, reached) ==
    /\ stage = "post"
    /\ \E job \in inflight :
          /\ job.torn => verdict # "delivered" /\ ~reached
          /\ verdict # "transient" /\ ~job.torn => reached
          /\ answered' = IF reached /\ job.log = {}
                         THEN answered \cup {job.item} ELSE answered
          /\ outcome' = verdict
    /\ stage' = "settle"
    /\ UNCHANGED <<processVars, inHand, restoring, queue, inflight, claimed, file,
                   logVars, historyVars, backed, cut, concluded>>

\* The worker's thread is done with the job.
Idle == stage' = "idle" /\ inflight' = {} /\ outcome' = "none"

\* SidecarQueue::remove is best-effort: the file may stay (gone = FALSE).
RemoveSidecar(job, gone) ==
    file' = IF job.sidecar /\ gone THEN [file EXCEPT ![job.item] = "none"] ELSE file

ConclusiveMutant(verdict) == verdict \in {"delivered", "poison", "transient"}

Conclusive(verdict) == verdict \in {"delivered", "poison"}

Chases(job) == job.log = {} /\ job.item \in asks \cup (WantsLog \cap Envelopes)

\* The verdict is final: the sidecar goes and the job is finished with, except
\* for the log a delivered report may still be granted an upload for.
SettleFinal(gone) ==
    /\ stage = "settle"
    /\ Conclusive(outcome)
    /\ \E job \in inflight :
          /\ RemoveSidecar(job, gone)
          /\ concluded' = IF job.log = {} THEN concluded \cup {job.item} ELSE concluded
          /\ IF outcome = "delivered" /\ Chases(job)
             THEN stage' = "chase" /\ UNCHANGED <<inflight, outcome>>
             ELSE Idle
    /\ UNCHANGED <<processVars, inHand, restoring, queue, claimed, logVars, answered,
                   historyVars, backed, cut>>

LogAtMutant(job) == IF ~logging THEN {} ELSE currentLog

\* The log a granted upload for this job would read.
LogAt(job) ==
    IF ~logging THEN {} ELSE IF job.fromPrevious THEN previousLog ELSE currentLog

\* schedule_log_upload: previous-session.log is claimed before it is read, and
\* an empty log uploads nothing.
ChaseLog(granted, job) ==
    LET usable == granted /\ ~(job.fromPrevious /\ claimed)
        send   == usable /\ LogAt(job) # {}
    IN  /\ claimed' = (claimed \/ (granted /\ job.fromPrevious))
        /\ queue' = IF send THEN Enqueued(LogUpload(job.item, LogAt(job))) ELSE queue
        /\ oldLogJobs' = IF send /\ job.fromPrevious THEN oldLogJobs + 1 ELSE oldLogJobs

ScheduleLogUpload(granted) ==
    /\ stage = "chase"
    /\ \E job \in inflight : ChaseLog(granted, job)
    /\ Idle
    /\ UNCHANGED <<processVars, inHand, restoring, file, currentLog, previousLog,
                   answered, historyVars, backed, cut, concluded>>

\* A missed heartbeat is stale data: dropped, never retried.
DropEphemeral ==
    /\ stage = "settle"
    /\ outcome = "transient"
    /\ \E job \in inflight : job.item \in Beats
    /\ Idle
    /\ UNCHANGED <<processVars, inHand, restoring, queue, claimed, file, logVars,
                   answered, historyVars, backed, cut, concluded>>

RequeuedMutant(job) == [job EXCEPT !.ready = FALSE]

Requeued(job) == [job EXCEPT !.attempt = @ + 1, !.ready = FALSE]

MayRetry(job) == job.attempt + 1 < MaxAttempts

\* retry_or_give_up, first half: back to the end of the queue, waiting.
Retry ==
    /\ stage = "settle"
    /\ outcome = "transient"
    /\ \E job \in inflight :
          /\ job.item \notin Beats
          /\ MayRetry(job)
          /\ queue' = Enqueued(Requeued(job))
    /\ Idle
    /\ UNCHANGED <<processVars, inHand, restoring, claimed, file, logVars, answered,
                   historyVars, backed, cut, concluded>>

\* Second half: the last attempt failed; an unbacked report is persisted now.
GiveUp ==
    /\ stage = "settle"
    /\ outcome = "transient"
    /\ \E job \in inflight :
          /\ job.item \notin Beats
          /\ ~MayRetry(job)
          /\ Persist(job)
    /\ Idle
    /\ UNCHANGED <<processVars, inHand, restoring, queue, claimed, logVars, answered,
                   historyVars, concluded>>
-----------------------------------------------------------------------------

Init ==
    /\ process = "quit" /\ launch = 0 /\ storage = FALSE /\ logging = FALSE
    /\ died = 0 /\ marker = 0
    /\ inHand = {} /\ restoring = {} /\ queue = <<>>
    /\ stage = "idle" /\ inflight = {} /\ outcome = "none" /\ claimed = FALSE
    /\ file = [i \in Items |-> "none"]
    /\ currentLog = {} /\ previousLog = {} /\ oldLogJobs = 0
    /\ answered = {} /\ submitted = {} /\ asks = {} /\ origin = [r \in Reports |-> 0]
    /\ backed = {} /\ cut = {} /\ concluded = {}

WorkerStep ==
    \/ FlushLog
    \/ FindNoneReady
    \/ \E i \in 1 .. MaxQueue : Take(i)
    \/ \E verdict \in {"delivered", "poison", "transient"}, reached \in BOOLEAN :
          PostReturns(verdict, reached)
    \/ \E gone \in BOOLEAN : SettleFinal(gone)
    \/ \E granted \in BOOLEAN : ScheduleLogUpload(granted)
    \/ DropEphemeral
    \/ Retry
    \/ GiveUp
    \/ WorkerExits

OwnerStep ==
    \/ \E r \in Reports : Restore(r)
    \/ InitDone
    \/ PersistLeftover
    \/ QuitDone

ApiStep ==
    \/ \E r \in Reports, content \in Contents :
          CaptureReport(r, content) \/ TrackAndReport(r, content)
    \/ Track
    \/ LogLines
    \/ \E i \in Items : CaptureOther(i)

\* The machine is switched off for good after the last launch explored.
Over == process \in {"quit", "crashed"} /\ launch = MaxLaunches /\ UNCHANGED vars

Next ==
    \/ \E usable, logs \in BOOLEAN : Launch(usable, logs)
    \/ OwnerStep
    \/ ApiStep
    \/ \E job \in inHand : Enqueue(job)
    \/ \E i \in 1 .. MaxQueue : BackoffExpires(i)
    \/ WorkerStep
    \/ \E r \in Reports, torn \in {"empty", "partial"} : CrashInWrite(r, torn)
    \/ Quit
    \/ Crash
    \/ Over

Spec == Init /\ [][Next]_vars

\* Every thread of a live process is scheduled, every HTTP exchange ends (each
\* has a timeout) and every backoff passes.  Nothing is assumed of the API's
\* callers, of the server's verdicts, of the disk, or of when a process ends.
Fairness ==
    /\ WF_vars(WorkerStep)
    /\ WF_vars(OwnerStep)
    /\ WF_vars(\E job \in inHand : Enqueue(job))
    /\ \A i \in 1 .. MaxQueue : WF_vars(BackoffExpires(i))

FairSpec == Spec /\ Fairness

-----------------------------------------------------------------------------
(* Properties *)

\* Types, and the shape of the worker's state between its steps.
TypeOK ==
    /\ process \in {"quit", "crashed", "starting", "running", "stopping", "persisting"}
    /\ {launch, died, marker} \subseteq Nat /\ {storage, logging} \subseteq BOOLEAN
    /\ inHand \subseteq Job /\ restoring \subseteq Reports
    /\ queue \in Seq(Job) /\ Len(queue) <= MaxQueue
    /\ stage \in {"idle", "log", "post", "settle", "chase"}
    /\ inflight \subseteq Job
    /\ outcome \in {"none", "delivered", "poison", "transient"}
    /\ claimed \in BOOLEAN
    /\ file \in [Items -> Contents]
    /\ {currentLog, previousLog} \subseteq SUBSET Nat /\ oldLogJobs \in Nat
    /\ answered \subseteq Items /\ submitted \subseteq Items /\ asks \subseteq Reports
    /\ origin \in [Reports -> Nat]
    /\ backed \subseteq Reports /\ cut \subseteq Reports /\ concluded \subseteq Items

\* enqueue_ingest, where the disk kept its word: once a report's whole body is on
\* disk it stays there until the server has answered for the report, whatever
\* crashes, queue overflows, retries and restarts come in between.  (Where write()
\* returned a path and the disk did not take the body, see PersistedCannotBeLost.)
BackedNeverLost ==
    \A r \in backed : file[r] = "whole" \/ r \in answered

\* The POST jobs for an item that are anywhere in memory: with an API caller,
\* still to be restored, queued or in flight.
PostsOf(i) ==
    {<<"hand", job>> : job \in {j \in inHand : j.item = i}}
      \cup {<<"restore", r>> : r \in restoring \cap {i}}
      \cup {<<"queue", k>> : k \in {n \in DOMAIN queue :
                                      queue[n].item = i /\ queue[n].log = {}}}
      \cup {<<"flight", job>> : job \in {j \in inflight : j.item = i /\ j.log = {}}}

InMemory(i) == PostsOf(i) # {}

\* The jobs in memory whose body is the whole payload i.
WholeJobs(i) ==
    {job \in inHand \cup ToSet(queue) \cup inflight :
        job.item = i /\ job.log = {} /\ ~job.torn}

\* A payload is never queued twice in one launch: a retry replaces the attempt
\* it repeats, and what drain_sidecars restores has no other job in this launch.
\* Once the worker has a delivered or rejected verdict for it, it is not sent again
\* in this launch, even when its sidecar could not be removed.  (From stage "chase"
\* on the in-flight job is only waiting for its log.)
OneJobPerPayload ==
    /\ \A i \in Items : Cardinality(PostsOf(i)) <= 1
    /\ \A i \in concluded :
          InMemory(i) => stage = "chase" /\ \E j \in inflight : j.item = i

\* "Batch envelopes are not single-item sidecars (the uploader posts those to
\* the non-batch endpoint)": only crash and bug reports ever reach the disk.  So an
\* event that could not be sent is lost with the process, although tombstone.h:342-343
\* ("persisted offline on final failure") and the wire protocol (pending/events) promise
\* otherwise: scan() looks for event files that nothing writes.
OnlyReportsOnDisk == \A i \in Items \ Reports : file[i] = "none"

\* A report whose whole body is in memory, and nowhere on disk when it leaves,
\* disappears unanswered only for a reason one can name: the process died, the
\* bounded queue overflowed, the disk took no file at the last moment it was offered
\* one, or write() once returned a path to less than the body: a job with a path is
\* not offered to the disk again.
NoSilentLoss ==
    [][ \A r \in Reports :
          (WholeJobs(r) # {} /\ ~InMemory(r)' /\ file'[r] # "whole" /\ r \notin answered') =>
             \/ process' = "crashed"
             \/ Len(queue) = MaxQueue
             \/ (process = "persisting" \/ GiveUp) /\ "none" \in WriteResults(r)
             \/ r \in cut' ]_vars

\* drain_sidecars: "a granted log presign must upload that run's preserved log,
\* never this session's fresh one": a report of an earlier run never uploads a line
\* of this session.  A report of this session uploads nothing that is preserved in
\* previous-session.log, and only this session's lines unless the rotation failed and
\* left older ones in session.log.  schedule_log_upload uploads previous-session.log
\* at most once a launch, however many restored reports are granted an upload.
FreshLogForFreshReports ==
    /\ \A job \in ToSet(queue) \cup inflight :
          job.log # {} /\ job.item \in Reports =>
             IF origin[job.item] = launch
             THEN /\ job.log \cap previousLog = {}
                  /\ currentLog \subseteq {launch} => job.log = {launch}
             ELSE launch \notin job.log
    /\ oldLogJobs <= 1

\* A launch's quit ends: ~Client joins the worker and persists what is left.
QuitEnds == (process = "stopping") ~> (process \in {"quit", "crashed"})

\* No payload stays in memory for ever: it is delivered, rejected, dropped or
\* handed to the disk, since retries are bounded and backoffs pass.
LeavesMemory == \A i \in Items : InMemory(i) ~> ~InMemory(i)

\* The comment above drain_sidecars: a restored report is granted the log of
\* the run it came from ("that run's preserved log").
LogOfItsOwnRun ==
    \A job \in ToSet(queue) \cup inflight :
       job.log # {} /\ job.item \in Reports => origin[job.item] \in job.log

(* The abstract custody of a report, and the claim that Delivery keeps it. *)
CustodyOf(r) ==
    IF r \in answered THEN "closed"
    ELSE IF file[r] = "whole" THEN "durable"
    ELSE IF WholeJobs(r) # {} THEN "volatile"
    ELSE IF r \in submitted THEN "lost"
    ELSE "unsent"

\* enqueue_ingest: "Persisted BEFORE the first attempt so a quit/crash cannot lose
\* it": a report for which write() returned a path is not lost.
PersistedCannotBeLost == \A r \in backed \cup cut : CustodyOf(r) # "lost"

Abstract == INSTANCE ReportCustody WITH custody <- [r \in Reports |-> CustodyOf(r)]

\* Delivery refines ReportCustody: durable custody ends only with an answer,
\* and nothing lost comes back.
RefinesCustody == Abstract!Spec
=============================================================================

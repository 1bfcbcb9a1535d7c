--------------------------- MODULE DeliveryProofs ---------------------------
(***************************************************************************)
(* Proofs about Delivery, for every set of payloads and every bound:       *)
(* first the types and what is on disk, then where the POST of a payload   *)
(* is and what follows for the custody of a report.                        *)
(***************************************************************************)
EXTENDS Delivery, SequenceTheorems, FiniteSetTheorems, TLAPS

\* What Worker::enqueue leaves in the queue: entries of the same set, and no
\* more than the queue may hold (Delivery!Enqueued, any retry or new job).
LEMMA EnqueuedKeeps ==
    ASSUME NEW S, queue \in Seq(S), Len(queue) <= MaxQueue, NEW job \in S
    PROVE  Enqueued(job) \in Seq(S) /\ Len(Enqueued(job)) <= MaxQueue
<1>1. CASE Len(queue) >= MaxQueue
  <2>1. queue # <<>>
    BY <1>1, DeliveryAssumption DEF DeliveryAssumption
  <2>2. Tail(queue) \in Seq(S) /\ Len(Tail(queue)) = Len(queue) - 1
    BY <2>1, HeadTailProperties
  <2>3. QED
    BY <1>1, <2>2, AppendProperties, DeliveryAssumption DEF Enqueued, DeliveryAssumption
<1>2. CASE ~(Len(queue) >= MaxQueue)
  BY <1>2, AppendProperties, DeliveryAssumption DEF Enqueued, DeliveryAssumption
<1>3. QED
  BY <1>1, <1>2

\* take_ready_job leaves the rest of the queue in order.
LEMMA TakenKeeps ==
    ASSUME NEW S, queue \in Seq(S), NEW i \in 1 .. Len(queue)
    PROVE  Taken(i) \in Seq(S) /\ Len(Taken(i)) = Len(queue) - 1
<1>1. /\ SubSeq(queue, 1, i - 1) \in Seq(S)
      /\ Len(SubSeq(queue, 1, i - 1)) = i - 1
  BY SubSeqProperties, LenProperties, ElementOfSeq
<1>2. /\ SubSeq(queue, i + 1, Len(queue)) \in Seq(S)
      /\ Len(SubSeq(queue, i + 1, Len(queue))) = Len(queue) - i
  BY SubSeqProperties, LenProperties, ElementOfSeq
<1>3. Len(queue) \in Nat
  BY LenProperties
<1>4. Len(Taken(i)) = (i - 1) + (Len(queue) - i) /\ Taken(i) \in Seq(S)
  <2> DEFINE front == SubSeq(queue, 1, i - 1)
             back  == SubSeq(queue, i + 1, Len(queue))
  <2>1. Taken(i) = front \o back
    BY DEF Taken, RemoveAt
  <2>2. front \in Seq(S) /\ back \in Seq(S)
    BY <1>1, <1>2
  <2>3. Len(front) = i - 1 /\ Len(back) = Len(queue) - i
    BY <1>1, <1>2
  <2> HIDE DEF front, back
  <2>4. front \o back \in Seq(S) /\ Len(front \o back) = Len(front) + Len(back)
    BY <2>2, ConcatProperties, Zenon
  <2>5. QED
    BY <2>1, <2>3, <2>4
<1>5. QED
  BY <1>3, <1>4

-----------------------------------------------------------------------------
(* The inductive invariant *)

\* A job the SDK may hold: its payload was submitted, and no sidecar backs it
\* unless it is a report's own POST.  Only what a sidecar gave back can be torn.
GoodJob == {job \in Job : /\ job.item \in submitted
                          /\ job.log # {} \/ job.item \notin Reports => job.sidecar = FALSE
                          /\ job.torn => job.sidecar}

\* All the jobs in memory are.
JobsGood ==
    /\ queue \in Seq(GoodJob)
    /\ inHand \subseteq GoodJob
    /\ inflight \subseteq GoodJob
    /\ restoring \subseteq submitted

\* The worker holds one job at a time, and none before launch or after exit.
WorkerAlone ==
    /\ \A job, other \in inflight : job = other
    /\ process \in {"quit", "crashed", "persisting"} => stage = "idle"

\* A file, or the claim that one backs a report, is of a report handed over.
FilesSubmitted ==
    /\ \A r \in Reports : file[r] # "none" => r \in submitted
    /\ backed \cup cut \subseteq submitted

\* What is on disk.
DiskInv == FilesSubmitted /\ OnlyReportsOnDisk

\* The inductive invariant.
IInv == TypeOK /\ JobsGood /\ WorkerAlone /\ DiskInv

-----------------------------------------------------------------------------
(* What the steps have in common *)

\* A report is captured: by report_crash or report_bug of the running launch, or as
\* the death of the last run when session tracking starts.
Captured(r, previous, run, content) ==
    /\ Ingest(r, previous, run, content)
    /\ content \in Contents
    /\ IF previous
       THEN run = died /\ died # 0 /\ MayTrack /\ marker' = launch /\ died' = 0
       ELSE run = launch /\ process = "running" /\ UNCHANGED <<marker, died>>

Capturing == \E r \in Reports, previous \in BOOLEAN, content \in Contents, run \in {launch, died} :
                Captured(r, previous, run, content)

\* What the callers of the API and session tracking may do.
LEMMA ApiCases ==
    ASSUME ApiStep
    PROVE  Capturing \/ Track \/ LogLines \/ \E i \in Items : CaptureOther(i)
<1>1. ASSUME NEW r \in Reports, NEW content \in Contents, CaptureReport(r, content)
      PROVE  Captured(r, FALSE, launch, content)
  BY <1>1 DEF CaptureReport, Captured
<1>2. ASSUME NEW r \in Reports, NEW content \in Contents, TrackAndReport(r, content)
      PROVE  Captured(r, TRUE, died, content)
  BY <1>2 DEF TrackAndReport, Captured
<1>3. QED
  BY <1>1, <1>2 DEF ApiStep, Capturing

\* A queue of good jobs is a queue of jobs, before a step and after it.
LEMMA GoodQueueTyped ==
    /\ \A q \in Seq(GoodJob) : q \in Seq(Job)
    /\ \A q \in Seq(GoodJob') : q \in Seq(Job)
<1>1. GoodJob \subseteq Job /\ GoodJob' \subseteq Job
  BY DEF GoodJob
<1>2. ASSUME NEW q \in Seq(GoodJob) PROVE q \in Seq(Job)
  BY <1>1, SeqMonotonic
<1>3. ASSUME NEW q \in Seq(GoodJob') PROVE q \in Seq(Job)
  BY <1>1, SeqMonotonic
<1>4. QED
  BY <1>2, <1>3

\* Payloads are only ever added to those submitted, so a good job stays good.
LEMMA GoodJobsStay ==
    ASSUME submitted \subseteq submitted'
    PROVE  /\ GoodJob \subseteq GoodJob'
           /\ \A q \in Seq(GoodJob) : q \in Seq(GoodJob')
<1>1. GoodJob \subseteq GoodJob'
  BY DEF GoodJob
<1>2. ASSUME NEW q \in Seq(GoodJob) PROVE q \in Seq(GoodJob')
  BY <1>1, SeqMonotonic
<1>3. QED
  BY <1>1, <1>2

\* A fresh POST is a job, and a good one for a payload just submitted.
LEMMA PostIsGood ==
    ASSUME NEW i \in Items, NEW ok \in BOOLEAN, NEW previous \in BOOLEAN,
           i \in Reports \/ ok = FALSE
    PROVE  /\ i \in submitted => Post(i, ok, previous) \in GoodJob
           /\ i \in submitted' => Post(i, ok, previous) \in GoodJob'
<1>1. 0 \in 0 .. MaxAttempts - 1
  BY DeliveryAssumption DEF DeliveryAssumption
<1>2. Post(i, ok, previous) \in Job
  BY <1>1 DEF Post, Job
<1>3. QED
  BY <1>2 DEF GoodJob, Post

\* A job restored from a file is one too.
LEMMA RestoredIsGood ==
    ASSUME NEW r \in Reports \cap submitted, NEW torn \in BOOLEAN
    PROVE  /\ Restored(r, torn) \in GoodJob /\ Restored(r, torn) \in Job
           /\ Restored(r, torn).item = r /\ Restored(r, torn).log = {}
           /\ Restored(r, torn).sidecar = TRUE /\ Restored(r, torn).fromPrevious = TRUE
           /\ Restored(r, torn).torn = torn
<1>1. 0 \in 0 .. MaxAttempts - 1 /\ r \in Items
  BY DeliveryAssumption DEF DeliveryAssumption, Items
<1>2. Post(r, TRUE, TRUE) \in Job
  BY <1>1 DEF Post, Job
<1>3. /\ Restored(r, torn) \in Job
      /\ Restored(r, torn).item = r /\ Restored(r, torn).log = {}
      /\ Restored(r, torn).sidecar = TRUE /\ Restored(r, torn).fromPrevious = TRUE
      /\ Restored(r, torn).torn = torn
  BY <1>2 DEF Restored, Post, Job
<1>4. QED
  BY <1>3 DEF GoodJob

\* So is the upload of a log.
LEMMA LogUploadIsGood ==
    ASSUME NEW i \in submitted \cap Items, NEW n \in SUBSET Nat
    PROVE  LogUpload(i, n) \in GoodJob
<1>1. 0 \in 0 .. MaxAttempts - 1
  BY DeliveryAssumption DEF DeliveryAssumption
<1>2. Post(i, FALSE, FALSE) \in Job
  BY <1>1 DEF Post, Job
<1>3. LogUpload(i, n) \in Job
  BY <1>2 DEF LogUpload, Job
<1>4. QED
  BY <1>3 DEF GoodJob, LogUpload, Post

\* A retry is a good job again while retry_or_give_up grants it.
LEMMA RequeuedIsGood ==
    ASSUME NEW job \in GoodJob, MayRetry(job)
    PROVE  Requeued(job) \in GoodJob
<1>1. job \in Job
  BY DEF GoodJob
<1>2. job.attempt + 1 \in 0 .. MaxAttempts - 1
  BY <1>1, DeliveryAssumption DEF DeliveryAssumption, Job, MayRetry
<1>3. \A n \in 0 .. MaxAttempts - 1 : [job EXCEPT !.attempt = n, !.ready = FALSE] \in Job
  BY <1>1 DEF Job
<1>4. Requeued(job) \in Job
  BY <1>2, <1>3, Zenon DEF Requeued
<1>5. /\ Requeued(job).item = job.item /\ Requeued(job).log = job.log
      /\ Requeued(job).sidecar = job.sidecar /\ Requeued(job).torn = job.torn
  BY <1>1 DEF Requeued, Job
<1>6. QED
  BY <1>4, <1>5 DEF GoodJob

\* A job whose backoff has passed is the same job.
LEMMA ReadyIsGood ==
    ASSUME NEW job \in GoodJob
    PROVE  [job EXCEPT !.ready = TRUE] \in GoodJob
<1>1. job \in Job /\ [job EXCEPT !.ready = TRUE] \in Job
  BY DEF GoodJob, Job
<1>2. /\ [job EXCEPT !.ready = TRUE].item = job.item
      /\ [job EXCEPT !.ready = TRUE].log = job.log
      /\ [job EXCEPT !.ready = TRUE].sidecar = job.sidecar
      /\ [job EXCEPT !.ready = TRUE].torn = job.torn
  BY <1>1 DEF Job
<1>3. QED
  BY <1>1, <1>2 DEF GoodJob

\* What SidecarQueue::write may do to the disk: nothing, or it puts some of r's body
\* in r's place and says in `backed` or `cut` which.
LEMMA WroteCases ==
    ASSUME TypeOK, NEW r \in Reports, NEW content \in Contents, Wrote(r, content)
    PROVE  /\ content = "none" => UNCHANGED <<file, backed, cut>>
           /\ content # "none" =>
                 /\ file' = [file EXCEPT ![r] = content]
                 /\ backed' \cup cut' = (backed \cup cut) \cup {r}
           /\ content = "whole" => backed' = backed \cup {r} /\ cut' = cut
           /\ content # "whole" => backed' = backed
           /\ content \in {"empty", "partial"} => r \in cut'
           /\ cut \subseteq cut'
           /\ file' \in [Items -> Contents] /\ backed' \subseteq Reports /\ cut' \subseteq Reports
           /\ \A q \in Items : q # r => file'[q] = file[q]
<1>1. /\ file \in [Items -> Contents] /\ r \in Items
      /\ backed \subseteq Reports /\ cut \subseteq Reports
  BY DEF TypeOK, Items
<1>2. /\ file' = [file EXCEPT ![r] = IF content = "none" THEN file[r] ELSE content]
      /\ backed' = IF content = "whole" THEN backed \cup {r} ELSE backed
      /\ cut' = IF content \in {"empty", "partial"} THEN cut \cup {r} ELSE cut
  BY DEF Wrote
<1>3. content \in {"none", "empty", "partial", "whole"}
  BY DEF Contents
<1>4. content = "none" => file' = file
  BY <1>1, <1>2
<1>5. file' \in [Items -> Contents] /\ \A q \in Items : q # r => file'[q] = file[q]
  BY <1>1, <1>2
<1>6. QED
  BY <1>1, <1>2, <1>3, <1>4, <1>5

\* The last write a job is offered is one of a report no file backs.
LEMMA PersistCases ==
    ASSUME NEW job \in Job, Persist(job)
    PROVE  \/ UNCHANGED <<file, backed, cut>> /\ ~ MayPersist(job)
           \/ /\ job.item \in Reports /\ job.log = {} /\ ~ job.sidecar
              /\ \E content \in WriteResults(job.item) \cap Contents : Wrote(job.item, content)
<1>1. CASE MayPersist(job)
  <2>1. job.item \in Reports /\ job.log = {} /\ ~ job.sidecar
    BY <1>1 DEF MayPersist, Job, Items
  <2>2. WriteResults(job.item) \subseteq Contents
    BY DEF WriteResults, Contents
  <2>3. QED
    BY <1>1, <2>1, <2>2 DEF Persist
<1>2. CASE ~ MayPersist(job)
  BY <1>2 DEF Persist
<1>3. QED
  BY <1>1, <1>2

\* A step that leaves the files alone keeps the disk part of the invariant.
LEMMA DiskFrame ==
    ASSUME DiskInv, UNCHANGED <<file, backed, cut>>, submitted \subseteq submitted'
    PROVE  DiskInv'
BY DEF DiskInv, FilesSubmitted, OnlyReportsOnDisk

\* So does a write of a report that is, or becomes, one handed over.
LEMMA WroteKeepsDisk ==
    ASSUME TypeOK, DiskInv, NEW r \in Reports, NEW content \in Contents, Wrote(r, content),
           r \in submitted', submitted \subseteq submitted'
    PROVE  DiskInv'
<1>1. /\ file' = file \/ \A q \in Items : q # r => file'[q] = file[q]
      /\ backed' \cup cut' \subseteq (backed \cup cut) \cup {r}
  BY WroteCases
<1>2. Reports \subseteq Items
  BY DEF Items
<1>3. QED
  BY <1>1, <1>2 DEF DiskInv, FilesSubmitted, OnlyReportsOnDisk

\* The last write a job is offered (Delivery!Persist) keeps it too.
LEMMA PersistKeepsDisk ==
    ASSUME TypeOK, DiskInv, NEW job \in GoodJob, Persist(job), UNCHANGED submitted
    PROVE  /\ DiskInv'
           /\ file' \in [Items -> Contents]
           /\ backed' \subseteq Reports /\ cut' \subseteq Reports
<1>1. job \in Job /\ job.item \in submitted
  BY DEF GoodJob
<1>2. CASE UNCHANGED <<file, backed, cut>>
  BY <1>2, DiskFrame DEF TypeOK
<1>3. CASE job.item \in Reports /\ \E content \in Contents : Wrote(job.item, content)
  BY <1>1, <1>3, WroteCases, WroteKeepsDisk
<1>4. QED
  BY <1>1, <1>2, <1>3, PersistCases

-----------------------------------------------------------------------------
(* The jobs: every step *)

\* One step keeps every job in memory good and the queue within its bound.
LEMMA JobsStep ==
    ASSUME TypeOK, JobsGood, FilesSubmitted, Next
    PROVE  JobsGood' /\ Len(queue') <= MaxQueue
<1> USE DEF JobsGood
<1>a. Len(queue) <= MaxQueue
  BY DEF TypeOK
<1>b. \A job \in GoodJob : Enqueued(job) \in Seq(GoodJob) /\ Len(Enqueued(job)) <= MaxQueue
  BY <1>a, EnqueuedKeeps
<1>c. GoodJob' = GoodJob \/ submitted' # submitted
  BY DEF GoodJob
<1>d. <<>> \in Seq(GoodJob') /\ Len(<<>>) <= MaxQueue
  BY EmptySeq, DeliveryAssumption DEF DeliveryAssumption
<1>1. ASSUME NEW usable \in BOOLEAN, NEW logs \in BOOLEAN, Launch(usable, logs)
      PROVE  JobsGood' /\ Len(queue') <= MaxQueue
  <2>1. Restorable \subseteq submitted
    BY DEF Restorable, FilesSubmitted
  <2>2. QED
    BY <1>1, <1>a, <1>c, <2>1 DEF Launch, workerVars, historyVars
<1>2. ASSUME NEW r \in Reports, Restore(r)
      PROVE  JobsGood' /\ Len(queue') <= MaxQueue
  <2>1. r \in submitted \cap Items
    BY <1>2 DEF Restore, Items
  <2>2. Restored(r, file[r] = "partial") \in GoodJob
    BY <2>1, RestoredIsGood
  <2>3. QED
    BY <1>2, <1>b, <1>c, <2>2 DEF Restore, workerVars, historyVars
<1>3. ASSUME InitDone \/ QuitDone \/ Quit \/ WorkerExits \/ Over \/ Track \/ LogLines
      PROVE  JobsGood' /\ Len(queue') <= MaxQueue
  BY <1>3, <1>a, <1>c
     DEF InitDone, QuitDone, Quit, WorkerExits, Over, Track, LogLines, vars, workerVars,
         historyVars
<1>4. ASSUME PersistLeftover
      PROVE  JobsGood' /\ Len(queue') <= MaxQueue
  <2>1. Tail(queue) \in Seq(GoodJob) /\ Len(Tail(queue)) = Len(queue) - 1
    BY <1>4, HeadTailProperties DEF PersistLeftover
  <2>2. QED
    BY <1>4, <1>a, <1>c, <2>1, LenProperties, DeliveryAssumption
       DEF PersistLeftover, workerVars, historyVars, DeliveryAssumption
<1>5. ASSUME NEW r \in Reports, NEW previous \in BOOLEAN, NEW content \in Contents,
             NEW run, Captured(r, previous, run, content)
      PROVE  JobsGood' /\ Len(queue') <= MaxQueue
  <2>1. submitted \subseteq submitted' /\ r \in submitted' /\ r \in Items
    BY <1>5 DEF Captured, Ingest, Items
  <2>2. Post(r, content # "none", previous) \in GoodJob'
    BY <2>1, PostIsGood
  <2>3. QED
    BY <1>5, <1>a, <2>1, <2>2, GoodJobsStay DEF Captured, Ingest, workerVars
<1>6. ASSUME NEW i \in Items, CaptureOther(i)
      PROVE  JobsGood' /\ Len(queue') <= MaxQueue
  <2>1. submitted \subseteq submitted' /\ i \in submitted'
    BY <1>6 DEF CaptureOther
  <2>2. Post(i, FALSE, FALSE) \in GoodJob'
    BY <2>1, PostIsGood
  <2>3. QED
    BY <1>6, <1>a, <2>1, <2>2, GoodJobsStay DEF CaptureOther, workerVars
<1>7. ASSUME NEW job \in inHand, Enqueue(job)
      PROVE  JobsGood' /\ Len(queue') <= MaxQueue
  BY <1>7, <1>b, <1>c DEF Enqueue, workerVars, historyVars
<1>8. ASSUME NEW i \in 1 .. MaxQueue, BackoffExpires(i)
      PROVE  JobsGood' /\ Len(queue') <= MaxQueue
  <2>1. i \in 1 .. Len(queue) /\ queue[i] \in GoodJob
    BY <1>8, ElementOfSeq DEF BackoffExpires
  <2>2. queue' = [queue EXCEPT ![i] = [queue[i] EXCEPT !.ready = TRUE]]
    BY <1>8 DEF BackoffExpires
  <2>3. [queue[i] EXCEPT !.ready = TRUE] \in GoodJob
    BY <2>1, ReadyIsGood
  <2>4. queue' \in Seq(GoodJob) /\ Len(queue') = Len(queue)
    BY <2>1, <2>2, <2>3, ExceptSeq
  <2>5. QED
    BY <1>8, <1>a, <1>c, <2>4 DEF BackoffExpires, workerVars, historyVars
<1>9. ASSUME NEW i \in 1 .. MaxQueue, Take(i)
      PROVE  JobsGood' /\ Len(queue') <= MaxQueue
  <2>1. i \in 1 .. Len(queue) /\ queue[i] \in GoodJob
    BY <1>9, ElementOfSeq DEF Take, FirstReady
  <2>2. Taken(i) \in Seq(GoodJob) /\ Len(Taken(i)) = Len(queue) - 1
    BY <2>1, TakenKeeps
  <2>3. QED
    BY <1>9, <1>a, <1>c, <2>1, <2>2, LenProperties, DeliveryAssumption
       DEF Take, historyVars, DeliveryAssumption
<1>10. ASSUME \/ \E verdict \in {"delivered", "poison", "transient"}, reached \in BOOLEAN :
                    PostReturns(verdict, reached)
              \/ \E gone \in BOOLEAN : SettleFinal(gone)
              \/ DropEphemeral
              \/ GiveUp
              \/ FlushLog
              \/ FindNoneReady
       PROVE  JobsGood' /\ Len(queue') <= MaxQueue
  BY <1>10, <1>a, <1>c
     DEF FlushLog, FindNoneReady, PostReturns, SettleFinal, DropEphemeral, GiveUp, Idle, historyVars
<1>11. ASSUME NEW granted \in BOOLEAN, ScheduleLogUpload(granted)
       PROVE  JobsGood' /\ Len(queue') <= MaxQueue
  <2>1. PICK job \in inflight : ChaseLog(granted, job)
    BY <1>11 DEF ScheduleLogUpload
  <2>2. job.item \in submitted \cap Items
    BY DEF GoodJob, Job
  <2>3. LogAt(job) \in SUBSET Nat
    BY DEF LogAt, TypeOK
  <2>4. LogUpload(job.item, LogAt(job)) \in GoodJob
    BY <2>2, <2>3, LogUploadIsGood
  <2>5. queue' = queue \/ queue' = Enqueued(LogUpload(job.item, LogAt(job)))
    BY <2>1 DEF ChaseLog
  <2>6. queue' \in Seq(GoodJob) /\ Len(queue') <= MaxQueue
    BY <1>a, <1>b, <2>4, <2>5
  <2>7. QED
    BY <1>11, <1>c, <2>6 DEF ScheduleLogUpload, Idle, historyVars
<1>12. ASSUME Retry
       PROVE  JobsGood' /\ Len(queue') <= MaxQueue
  <2>1. PICK job \in inflight : MayRetry(job) /\ queue' = Enqueued(Requeued(job))
    BY <1>12 DEF Retry
  <2>2. Requeued(job) \in GoodJob
    BY <2>1, RequeuedIsGood
  <2>3. QED
    BY <1>12, <1>b, <1>c, <2>1, <2>2 DEF Retry, Idle, historyVars
<1>13. ASSUME NEW r \in Reports, NEW torn \in {"empty", "partial"}, CrashInWrite(r, torn)
       PROVE  JobsGood' /\ Len(queue') <= MaxQueue
  BY <1>13, <1>d DEF CrashInWrite, Dies
<1>14. ASSUME Crash
       PROVE  JobsGood' /\ Len(queue') <= MaxQueue
  BY <1>14, <1>d DEF Crash, Dies
<1>15. QED
  BY <1>1, <1>2, <1>3, <1>4, <1>5, <1>6, <1>7, <1>8, <1>9, <1>10, <1>11, <1>12, <1>13,
     <1>14, ApiCases DEF Next, OwnerStep, WorkerStep, Capturing

-----------------------------------------------------------------------------
(* The files: every step *)

\* A report whose own first write is cut short was handed over.
LEMMA CrashInWriteKeepsDisk ==
    ASSUME TypeOK, DiskInv, NEW r \in Reports, NEW torn \in {"empty", "partial"},
           CrashInWrite(r, torn)
    PROVE  DiskInv'
<1>1. /\ submitted' = submitted \cup {r} /\ file' = [file EXCEPT ![r] = torn]
      /\ UNCHANGED <<backed, cut>>
  BY DEF CrashInWrite
<1>2. file \in [Items -> Contents] /\ Reports \subseteq Items
  BY DEF TypeOK, Items
<1>3. QED
  BY <1>1, <1>2 DEF DiskInv, FilesSubmitted, OnlyReportsOnDisk

\* The worker removes files only.
LEMMA SettleKeepsDisk ==
    ASSUME TypeOK, JobsGood, DiskInv, NEW gone \in BOOLEAN, SettleFinal(gone)
    PROVE  DiskInv'
<1>1. PICK job \in inflight : RemoveSidecar(job, gone)
  BY DEF SettleFinal
<1>2. UNCHANGED <<submitted, backed, cut>>
  BY DEF SettleFinal, historyVars
<1>3. file \in [Items -> Contents] /\ Reports \subseteq Items
  BY DEF TypeOK, Items
<1>4. \A i \in Items : file'[i] = file[i] \/ file'[i] = "none"
  BY <1>1, <1>3 DEF RemoveSidecar
<1>5. QED
  BY <1>2, <1>3, <1>4 DEF DiskInv, FilesSubmitted, OnlyReportsOnDisk

\* One step keeps the disk part of the invariant.
LEMMA DiskStep ==
    ASSUME IInv, Next
    PROVE  DiskInv'
<1> USE DEF IInv
<1>1. ASSUME \/ \E usable \in BOOLEAN, logs \in BOOLEAN : Launch(usable, logs)
             \/ \E r \in Reports : Restore(r)
             \/ InitDone \/ Quit \/ WorkerExits \/ QuitDone \/ Over \/ Crash
             \/ Track \/ LogLines
             \/ \E i \in Items : CaptureOther(i)
             \/ \E job \in inHand : Enqueue(job)
      PROVE  DiskInv'
  <2>1. UNCHANGED <<file, backed, cut>> /\ submitted \subseteq submitted'
    BY <1>1 DEF Launch, Restore, InitDone, Quit, WorkerExits, QuitDone, Over, Crash, Track,
                LogLines, CaptureOther, Enqueue, vars, historyVars
  <2>2. QED
    BY <2>1, DiskFrame
<1>2. ASSUME \/ FlushLog \/ FindNoneReady \/ DropEphemeral \/ Retry
             \/ \E i \in 1 .. MaxQueue : BackoffExpires(i) \/ Take(i)
             \/ \E verdict \in {"delivered", "poison", "transient"}, reached \in BOOLEAN :
                   PostReturns(verdict, reached)
             \/ \E granted \in BOOLEAN : ScheduleLogUpload(granted)
      PROVE  DiskInv'
  <2>1. UNCHANGED <<file, backed, cut>> /\ submitted \subseteq submitted'
    BY <1>2 DEF FlushLog, FindNoneReady, DropEphemeral, Retry, BackoffExpires, Take,
                PostReturns, ScheduleLogUpload, historyVars
  <2>2. QED
    BY <2>1, DiskFrame
<1>3. ASSUME PersistLeftover
      PROVE  DiskInv'
  <2>1. Head(queue) \in GoodJob
    BY <1>3, HeadTailProperties DEF PersistLeftover, JobsGood
  <2>2. QED
    BY <1>3, <2>1, PersistKeepsDisk DEF PersistLeftover, historyVars
<1>4. ASSUME GiveUp
      PROVE  DiskInv'
  <2>1. PICK job \in inflight : Persist(job)
    BY <1>4 DEF GiveUp
  <2>2. job \in GoodJob
    BY DEF JobsGood
  <2>3. QED
    BY <1>4, <2>1, <2>2, PersistKeepsDisk DEF GiveUp, historyVars
<1>5. ASSUME NEW r \in Reports, NEW previous \in BOOLEAN, NEW content \in Contents,
             NEW run, Captured(r, previous, run, content)
      PROVE  DiskInv'
  <2>1. Wrote(r, content) /\ submitted' = submitted \cup {r}
    BY <1>5 DEF Captured, Ingest
  <2>2. r \in submitted' /\ submitted \subseteq submitted'
    BY <2>1
  <2>3. QED
    BY <2>1, <2>2, WroteKeepsDisk
<1>6. ASSUME NEW gone \in BOOLEAN, SettleFinal(gone)
      PROVE  DiskInv'
  BY <1>6, SettleKeepsDisk
<1>7. ASSUME NEW r \in Reports, NEW torn \in {"empty", "partial"}, CrashInWrite(r, torn)
      PROVE  DiskInv'
  BY <1>7, CrashInWriteKeepsDisk
<1>8. QED
  BY <1>1, <1>2, <1>3, <1>4, <1>5, <1>6, <1>7, ApiCases
     DEF Next, OwnerStep, WorkerStep, Capturing

-----------------------------------------------------------------------------
(* The rest of the state: every step *)

\* The worker takes a job only when it holds none, and exits only then.
LEMMA AloneStep ==
    ASSUME WorkerAlone, Next
    PROVE  WorkerAlone'
<1> USE DEF WorkerAlone
<1>1. ASSUME NEW i \in 1 .. MaxQueue, Take(i)
      PROVE  WorkerAlone'
  BY <1>1 DEF Take, processVars, launchVars
<1>2. ASSUME (\E r \in Reports, torn \in {"empty", "partial"} : CrashInWrite(r, torn)) \/ Crash
      PROVE  WorkerAlone'
  BY <1>2 DEF CrashInWrite, Crash, Dies
<1>3. ASSUME \/ \E usable \in BOOLEAN, logs \in BOOLEAN : Launch(usable, logs)
             \/ \E r \in Reports : Restore(r)
             \/ InitDone \/ Quit \/ WorkerExits \/ PersistLeftover \/ QuitDone \/ Over
             \/ Track \/ LogLines
      PROVE  WorkerAlone'
  BY <1>3 DEF Launch, Restore, InitDone, Quit, WorkerExits, PersistLeftover, QuitDone, Over,
              Track, LogLines, vars, workerVars, processVars
<1>4. ASSUME \/ Capturing
             \/ \E i \in Items : CaptureOther(i)
             \/ \E job \in inHand : Enqueue(job)
             \/ \E i \in 1 .. MaxQueue : BackoffExpires(i)
      PROVE  WorkerAlone'
  BY <1>4 DEF Capturing, Captured, Ingest, CaptureOther, Enqueue, BackoffExpires, workerVars,
              processVars
<1>5. ASSUME \E verdict \in {"delivered", "poison", "transient"}, reached \in BOOLEAN :
                PostReturns(verdict, reached)
      PROVE  WorkerAlone'
  BY <1>5 DEF PostReturns, processVars, launchVars
<1>6. ASSUME \E gone \in BOOLEAN : SettleFinal(gone)
      PROVE  WorkerAlone'
  BY <1>6 DEF SettleFinal, Idle, processVars, launchVars
<1>7. ASSUME \/ \E granted \in BOOLEAN : ScheduleLogUpload(granted)
             \/ DropEphemeral \/ Retry \/ GiveUp
      PROVE  WorkerAlone'
  BY <1>7 DEF ScheduleLogUpload, DropEphemeral, Retry, GiveUp, Idle, processVars, launchVars
<1>8. ASSUME FlushLog \/ FindNoneReady
      PROVE  WorkerAlone'
  BY <1>8 DEF FlushLog, FindNoneReady, processVars, launchVars
<1>9. QED
  BY <1>1, <1>2, <1>3, <1>4, <1>5, <1>6, <1>7, <1>8, ApiCases DEF Next, OwnerStep, WorkerStep

\* One step keeps the types.
LEMMA TypeStep ==
    ASSUME IInv, Next
    PROVE  TypeOK'
<1>a. JobsGood' /\ Len(queue') <= MaxQueue
  BY JobsStep DEF IInv, DiskInv
<1>b. queue' \in Seq(Job) /\ inHand' \subseteq Job /\ inflight' \subseteq Job
  BY <1>a, GoodQueueTyped DEF JobsGood, GoodJob
<1>c. \A r \in Reports : r \in Items
  BY DEF Items
<1> USE <1>a, <1>b, <1>c DEF IInv
<1>1. ASSUME NEW usable \in BOOLEAN, NEW logs \in BOOLEAN, Launch(usable, logs)
      PROVE  TypeOK'
  <2>1. launch' \in Nat /\ died' \in Nat /\ marker' \in Nat
    BY <1>1 DEF TypeOK, Launch
  <2>2. storage' \in BOOLEAN /\ logging' \in BOOLEAN /\ restoring' \subseteq Reports
    BY <1>1 DEF Launch, Restorable
  <2>3. currentLog' \in SUBSET Nat /\ previousLog' \in SUBSET Nat
    <3>1. \A pair \in RotatedLogs : pair[1] \in SUBSET Nat /\ pair[2] \in SUBSET Nat
      BY DEF RotatedLogs, TypeOK
    <3>2. QED
      BY <1>1, <3>1 DEF TypeOK, Launch
  <2>4. process' = "starting"
    BY <1>1 DEF Launch
  <2>5. QED
    BY <1>1, <2>1, <2>2, <2>3, <2>4 DEF TypeOK, Launch, workerVars, historyVars
<1>2. ASSUME NEW r \in Reports, Restore(r)
      PROVE  TypeOK'
  BY <1>2 DEF TypeOK, Restore, processVars, launchVars, workerVars, logVars, historyVars
<1>3. ASSUME InitDone \/ Quit \/ WorkerExits \/ QuitDone \/ Over \/ Track \/ LogLines
      PROVE  TypeOK'
  <2>1. CASE InitDone \/ Quit \/ WorkerExits
    BY <2>1 DEF TypeOK, InitDone, Quit, WorkerExits, launchVars, workerVars, logVars,
                historyVars
  <2>2. CASE QuitDone
    <3>1. /\ marker' \in Nat /\ died' \in Nat /\ oldLogJobs' \in Nat /\ process' = "quit"
          /\ concluded' \subseteq Items
      BY <2>2 DEF TypeOK, QuitDone
    <3>2. QED
      BY <2>2, <3>1 DEF TypeOK, QuitDone, historyVars
  <2>3. CASE Over
    BY <2>3 DEF TypeOK, Over, vars, processVars, launchVars, workerVars, logVars, historyVars
  <2>4. CASE Track
    BY <2>4 DEF TypeOK, Track, workerVars, logVars, historyVars
  <2>5. CASE LogLines
    <3>1. currentLog' \in SUBSET Nat
      BY <2>5 DEF TypeOK, LogLines
    <3>2. QED
      BY <2>5, <3>1
         DEF TypeOK, LogLines, processVars, launchVars, workerVars, historyVars
  <2>6. QED
    BY <1>3, <2>1, <2>2, <2>3, <2>4, <2>5
<1>4. ASSUME PersistLeftover
      PROVE  TypeOK'
  <2>1. Head(queue) \in GoodJob
    BY <1>4, HeadTailProperties DEF PersistLeftover, JobsGood
  <2>2. file' \in [Items -> Contents] /\ backed' \subseteq Reports /\ cut' \subseteq Reports
    BY <1>4, <2>1, PersistKeepsDisk DEF PersistLeftover, historyVars
  <2>3. QED
    BY <1>4, <2>2 DEF TypeOK, PersistLeftover, processVars, launchVars, workerVars, logVars, historyVars
<1>5. ASSUME NEW r \in Reports, NEW previous \in BOOLEAN, NEW content \in Contents,
             NEW run, Captured(r, previous, run, content)
      PROVE  TypeOK'
  <2>1. Ingest(r, previous, run, content) /\ Wrote(r, content) /\ run \in Nat
    BY <1>5 DEF TypeOK, Captured, Ingest
  <2>2. file' \in [Items -> Contents] /\ backed' \subseteq Reports /\ cut' \subseteq Reports
    BY <2>1, WroteCases
  <2>3. origin' \in [Reports -> Nat] /\ asks' \subseteq Reports /\ submitted' \subseteq Items
    BY <2>1 DEF TypeOK, Ingest
  <2>4. died' \in Nat /\ marker' \in Nat
    BY <1>5 DEF TypeOK, Captured
  <2>5. QED
    BY <2>1, <2>2, <2>3, <2>4 DEF TypeOK, Ingest, workerVars, logVars
<1>6. ASSUME NEW i \in Items, CaptureOther(i)
      PROVE  TypeOK'
  BY <1>6 DEF TypeOK, CaptureOther, processVars, launchVars, workerVars, logVars
<1>7. ASSUME NEW job \in inHand, Enqueue(job)
      PROVE  TypeOK'
  BY <1>7 DEF TypeOK, Enqueue, processVars, launchVars, workerVars, logVars, historyVars
<1>8. ASSUME NEW i \in 1 .. MaxQueue, BackoffExpires(i)
      PROVE  TypeOK'
  BY <1>8 DEF TypeOK, BackoffExpires, processVars, launchVars, workerVars, logVars, historyVars
<1>9. ASSUME NEW i \in 1 .. MaxQueue, Take(i)
      PROVE  TypeOK'
  BY <1>9 DEF TypeOK, Take, processVars, launchVars, logVars, historyVars
<1>10. ASSUME NEW verdict \in {"delivered", "poison", "transient"}, NEW reached \in BOOLEAN,
              PostReturns(verdict, reached)
       PROVE  TypeOK'
  <2>1. answered' \subseteq Items
    BY <1>10 DEF TypeOK, PostReturns, Job
  <2>2. outcome' \in {"none", "delivered", "poison", "transient"}
    BY <1>10 DEF PostReturns
  <2>3. QED
    BY <1>10, <2>1, <2>2 DEF TypeOK, PostReturns, processVars, launchVars, logVars, historyVars
<1>11. ASSUME NEW gone \in BOOLEAN, SettleFinal(gone)
       PROVE  TypeOK'
  <2>1. file' \in [Items -> Contents]
    BY <1>11 DEF TypeOK, SettleFinal, RemoveSidecar, Job, Contents
  <2>2. concluded' \subseteq Items
    BY <1>11 DEF TypeOK, SettleFinal, Job
  <2>3. /\ stage' \in {"idle", "post", "settle", "chase"}
        /\ outcome' \in {"none", "delivered", "poison", "transient"}
    BY <1>11 DEF TypeOK, SettleFinal, Idle
  <2>4. QED
    BY <1>11, <2>1, <2>2, <2>3 DEF TypeOK, SettleFinal, processVars, launchVars, logVars, historyVars
<1>12. ASSUME NEW granted \in BOOLEAN, ScheduleLogUpload(granted)
       PROVE  TypeOK'
  <2>1. PICK job \in inflight : ChaseLog(granted, job)
    BY <1>12 DEF ScheduleLogUpload
  <2>2. job.fromPrevious \in BOOLEAN
    BY DEF TypeOK, Job
  <2>3. claimed' \in BOOLEAN /\ oldLogJobs' \in Nat
    BY <2>1, <2>2 DEF TypeOK, ChaseLog
  <2>4. QED
    BY <1>12, <2>3 DEF TypeOK, ScheduleLogUpload, Idle, processVars, launchVars, historyVars
<1>13. ASSUME DropEphemeral \/ Retry
       PROVE  TypeOK'
  BY <1>13 DEF TypeOK, DropEphemeral, Retry, Idle, processVars, launchVars, logVars, historyVars
<1>14. ASSUME GiveUp
       PROVE  TypeOK'
  <2>1. PICK job \in inflight : Persist(job)
    BY <1>14 DEF GiveUp
  <2>2. job \in GoodJob
    BY DEF JobsGood
  <2>3. file' \in [Items -> Contents] /\ backed' \subseteq Reports /\ cut' \subseteq Reports
    BY <1>14, <2>1, <2>2, PersistKeepsDisk DEF GiveUp, historyVars
  <2>4. QED
    BY <1>14, <2>3 DEF TypeOK, GiveUp, Idle, processVars, launchVars, logVars, historyVars
<1>15. ASSUME NEW r \in Reports, NEW torn \in {"empty", "partial"}, CrashInWrite(r, torn)
       PROVE  TypeOK'
  <2>1. file' \in [Items -> Contents]
    BY <1>15 DEF TypeOK, CrashInWrite, Contents
  <2>2. origin' \in [Reports -> Nat] /\ marker' \in Nat
    BY <1>15 DEF TypeOK, CrashInWrite
  <2>3. /\ died' \in Nat /\ oldLogJobs' \in Nat /\ process' = "crashed" /\ concluded' \subseteq Items
        /\ restoring' \subseteq Reports /\ submitted' \subseteq Items
    BY <1>15 DEF TypeOK, CrashInWrite, Dies
  <2>4. QED
    BY <1>15, <2>1, <2>2, <2>3 DEF TypeOK, CrashInWrite, Dies
<1>16. ASSUME Crash
       PROVE  TypeOK'
  <2>1. /\ died' \in Nat /\ oldLogJobs' \in Nat /\ process' = "crashed" /\ concluded' \subseteq Items
        /\ restoring' \subseteq Reports
    BY <1>16 DEF Crash, Dies
  <2>2. QED
    BY <1>16, <2>1 DEF TypeOK, Crash, Dies, historyVars
<1>17. ASSUME FlushLog \/ FindNoneReady
       PROVE  TypeOK'
  BY <1>17 DEF TypeOK, FlushLog, FindNoneReady, processVars, launchVars, logVars, historyVars
<1>18. QED
  BY <1>1, <1>2, <1>3, <1>4, <1>5, <1>6, <1>7, <1>8, <1>9, <1>10, <1>11, <1>12, <1>13,
     <1>14, <1>15, <1>16, <1>17, ApiCases DEF Next, OwnerStep, WorkerStep, Capturing

-----------------------------------------------------------------------------
(* The theorems *)

\* Before the first launch nothing is held and nothing is on disk.
LEMMA InitHolds == Init => IInv
<1>1. SUFFICES ASSUME Init PROVE IInv
  OBVIOUS
<1>2. <<>> \in Seq(Job) /\ <<>> \in Seq(GoodJob) /\ Len(<<>>) = 0
  BY EmptySeq
<1>3. TypeOK
  <2>1. queue \in Seq(Job) /\ Len(queue) <= MaxQueue
    BY <1>1, <1>2, DeliveryAssumption DEF Init, DeliveryAssumption
  <2>2. /\ file \in [Items -> Contents]
        /\ origin \in [Reports -> Nat]
    BY <1>1 DEF Init, Contents
  <2>3. /\ launch \in Nat /\ died \in Nat /\ marker \in Nat /\ oldLogJobs \in Nat
        /\ currentLog \in SUBSET Nat /\ previousLog \in SUBSET Nat
        /\ storage \in BOOLEAN /\ logging \in BOOLEAN
    BY <1>1 DEF Init
  <2>4. QED
    BY <1>1, <2>1, <2>2, <2>3 DEF Init, TypeOK
<1>4. JobsGood /\ WorkerAlone
  BY <1>1, <1>2 DEF Init, JobsGood, WorkerAlone
<1>5. DiskInv
  BY <1>1 DEF Init, DiskInv, FilesSubmitted, OnlyReportsOnDisk, Items
<1>6. QED
  BY <1>3, <1>4, <1>5 DEF IInv

\* Every step of a launch, a crash or a quit keeps the invariant.
LEMMA StepHolds == IInv /\ [Next]_vars => IInv'
<1>1. CASE UNCHANGED vars
  <2>1. ASSUME IInv PROVE IInv'
    BY <1>1, <2>1
       DEF vars, processVars, launchVars, workerVars, logVars, historyVars, IInv, TypeOK, JobsGood,
           GoodJob, WorkerAlone, DiskInv, FilesSubmitted, OnlyReportsOnDisk
  <2>2. QED
    BY <2>1
<1>2. ASSUME IInv, Next PROVE IInv'
  <2>1. JobsGood'
    BY <1>2, JobsStep DEF IInv, DiskInv
  <2>2. WorkerAlone'
    BY <1>2, AloneStep DEF IInv
  <2>3. QED
    BY <1>2, <2>1, <2>2, TypeStep, DiskStep DEF IInv
<1>3. QED
  BY <1>1, <1>2

\* The inductive invariant holds in every reachable state.
THEOREM InvariantHolds == Spec => []IInv
BY InitHolds, StepHolds, PTL DEF Spec

\* Delivery is type correct for every set of payloads and every bound.
THEOREM TypeCorrect == Spec => []TypeOK
<1>1. IInv => TypeOK
  BY DEF IInv
<1>2. QED
  BY <1>1, InvariantHolds, PTL


\* No batch envelope, fulfilment or heartbeat ever becomes a sidecar.
THEOREM OnlyReportsPersisted == Spec => []OnlyReportsOnDisk
<1>1. IInv => OnlyReportsOnDisk
  BY DEF IInv, DiskInv
<1>2. QED
  BY <1>1, InvariantHolds, PTL

-----------------------------------------------------------------------------
(* The custody of a report: where the POST of a payload is *)

\* Entry n of the queue is the POST of i.
IsPost(n, i) == queue[n].item = i /\ queue[n].log = {}

\* Which parts of memory are in use, by the life of the process and the worker's step.
MemoryShape ==
    /\ process \in {"quit", "crashed"} => inHand = {} /\ queue = <<>> /\ concluded = {}
    /\ process # "starting" => restoring = {}
    /\ process = "persisting" => inHand = {}
    /\ stage \in {"idle", "log"} => inflight = {}
    /\ \A job \in inHand : job.log = {} /\ ~ job.torn

\* No two places hold the POST of one payload.
Apart ==
    /\ \A job, other \in inHand : job.item = other.item => job = other
    /\ \A m, n \in DOMAIN queue : IsPost(m, queue[n].item) /\ queue[n].log = {} => m = n
    /\ \A job \in inHand :
          /\ job.item \notin restoring
          /\ \A n \in DOMAIN queue : ~ IsPost(n, job.item)
    /\ \A r \in restoring, n \in DOMAIN queue : ~ IsPost(n, r)
    /\ \A job \in inflight : job.log = {} =>
          /\ job.item \notin restoring
          /\ \A other \in inHand : other.item # job.item
          /\ \A n \in DOMAIN queue : ~ IsPost(n, job.item)

\* A payload with a verdict is in no place, but that its log may still be chased.
ConcludedGone ==
    /\ concluded \subseteq submitted
    /\ concluded \cap restoring = {}
    /\ \A job \in inHand : job.item \notin concluded
    /\ \A n \in DOMAIN queue : queue[n].log = {} => queue[n].item \notin concluded
    /\ \A job \in inflight : job.log = {} /\ job.item \in concluded => stage = "chase"

\* The jobs in memory.
Jobs == inHand \cup inflight \cup ToSet(queue)

\* A report's POST says truly whether there is a file, and when it says there is, that
\* file is whole unless the job was read back torn or write() returned a path too many.
TrueSidecar(job) ==
    job.item \in Reports /\ job.log = {} =>
       /\ ~ job.sidecar => file[job.item] = "none"
       /\ job.sidecar /\ ~ job.torn =>
             job.item \in answered \/ file[job.item] = "whole" \/ job.item \in cut
       /\ job.torn => file[job.item] # "whole"

\* It says truly whether the report is of an earlier launch, and a log upload has
\* the log of the right side of the restart.
TrueOrigin(job) ==
    job.item \in Reports =>
       IF job.log = {} THEN job.fromPrevious <=> origin[job.item] # launch
       ELSE IF origin[job.item] = launch
            THEN /\ job.log \cap previousLog = {}
                 /\ currentLog \subseteq {launch} => job.log = {launch}
            ELSE launch \notin job.log

\* Every job in memory is true to the disk and to the launch of its report.
JobsTrue == \A job \in Jobs : TrueSidecar(job) /\ TrueOrigin(job)

\* A final verdict means an answer, or a torn body; the log is chased after an answer.
Settled ==
    /\ stage = "settle" /\ Conclusive(outcome) =>
          \A job \in inflight : job.log = {} =>
             job.item \in answered \/ (outcome = "poison" /\ job.torn)
    /\ stage = "chase" => \A job \in inflight : job.log = {} /\ job.item \in answered
    /\ answered \subseteq submitted

\* The launches the logs and the reports are from.
LogsOfLaunches ==
    /\ \A r \in Reports : origin[r] <= launch
    /\ \A n \in currentLog : n <= launch
    /\ \A n \in previousLog : n < launch
    /\ currentLog \cap previousLog = {}
    /\ marker <= launch /\ (died # 0 => died < launch)
    /\ process = "starting" => \A r \in Reports : origin[r] < launch
    /\ \A r \in restoring : file[r] \in {"partial", "whole"}
    /\ IF claimed THEN oldLogJobs <= 1 ELSE oldLogJobs = 0
    /\ process \in {"quit", "crashed"} => oldLogJobs = 0

\* The inductive invariant.
CustodyInv ==
    /\ IInv /\ MemoryShape /\ Apart /\ ConcludedGone /\ JobsTrue /\ Settled /\ LogsOfLaunches
    /\ BackedNeverLost
-----------------------------------------------------------------------------
(* The queue operations, entry by entry *)

\* How many entries Worker::enqueue drops.
Dropped == IF Len(queue) >= MaxQueue THEN 1 ELSE 0

\* What it leaves: the old entries in order, less the one dropped, and the new job.
LEMMA EnqueuedEntries ==
    ASSUME NEW S, queue \in Seq(S), Len(queue) <= MaxQueue, NEW job \in S
    PROVE  /\ Dropped \in {0, 1} /\ Len(queue) \in Nat /\ Dropped <= Len(queue)
           /\ DOMAIN queue = 1 .. Len(queue)
           /\ Dropped = 1 => Len(queue) = MaxQueue
           /\ DOMAIN Enqueued(job) = 1 .. Len(queue) - Dropped + 1
           /\ Enqueued(job)[Len(queue) - Dropped + 1] = job
           /\ \A n \in 1 .. Len(queue) - Dropped : Enqueued(job)[n] = queue[n + Dropped]
<1>0. Len(queue) \in Nat /\ DOMAIN queue = 1 .. Len(queue) /\ MaxQueue \in Nat
      /\ MaxQueue # 0 /\ Len(queue) <= MaxQueue
  BY LenProperties, DeliveryAssumption DEF DeliveryAssumption
<1>1. CASE Len(queue) >= MaxQueue
  <2> DEFINE rest == Tail(queue)
  <2>1. queue # <<>> /\ Dropped = 1
    BY <1>0, <1>1 DEF Dropped
  <2>2. /\ rest \in Seq(S) /\ Len(rest) = Len(queue) - 1
        /\ \A n \in 1 .. Len(rest) : rest[n] = queue[n + 1]
    BY <2>1, HeadTailProperties
  <2>3. Enqueued(job) = Append(rest, job)
    BY <1>1 DEF Enqueued
  <2> HIDE DEF rest
  <2>4. /\ Append(rest, job) \in Seq(S)
        /\ Len(Append(rest, job)) = Len(rest) + 1
        /\ \A n \in 1 .. Len(rest) : Append(rest, job)[n] = rest[n]
        /\ Append(rest, job)[Len(rest) + 1] = job
    BY <2>2, AppendProperties
  <2>5. Len(rest) + 1 = Len(queue) /\ Len(queue) = MaxQueue
    <3>1. \A m, n \in Nat : m <= n /\ m >= n => m = n
      OBVIOUS
    <3>2. Len(queue) = MaxQueue
      BY <1>0, <1>1, <3>1
    <3>3. Len(rest) = Len(queue) - 1
      BY <2>2
    <3>4. QED
      BY <1>0, <3>2, <3>3
  <2>6. DOMAIN Append(rest, job) = 1 .. Len(Append(rest, job))
    BY <2>4, LenProperties
  <2>7. DOMAIN Append(rest, job) = 1 .. Len(queue)
    BY <2>4, <2>5, <2>6
  <2>8. Len(queue) - Dropped + 1 = Len(queue) /\ Len(queue) - Dropped = Len(rest)
    BY <1>0, <2>1, <2>2
  <2>9. \A n \in 1 .. Len(rest) : Append(rest, job)[n] = queue[n + Dropped]
    BY <2>1, <2>2, <2>4
  <2>10. Append(rest, job)[Len(queue) - Dropped + 1] = job
    BY <2>4, <2>5, <2>8
  <2>11. QED
    BY <1>0, <2>1, <2>3, <2>5, <2>7, <2>8, <2>9, <2>10
<1>2. CASE ~ (Len(queue) >= MaxQueue)
  <2>1. Enqueued(job) = Append(queue, job) /\ Dropped = 0
    BY <1>2 DEF Enqueued, Dropped
  <2>2. /\ Append(queue, job) \in Seq(S)
        /\ Len(Append(queue, job)) = Len(queue) + 1
        /\ \A n \in 1 .. Len(queue) : Append(queue, job)[n] = queue[n]
        /\ Append(queue, job)[Len(queue) + 1] = job
    BY AppendProperties
  <2>3. DOMAIN Append(queue, job) = 1 .. Len(queue) + 1
    BY <1>0, <2>2, LenProperties
  <2>4. QED
    BY <1>0, <2>1, <2>2, <2>3
<1>3. QED
  BY <1>1, <1>2

\* What take_ready_job leaves: every entry but the one taken, in order.
LEMMA TakenEntries ==
    ASSUME NEW S, queue \in Seq(S), NEW i \in 1 .. Len(queue)
    PROVE  /\ DOMAIN Taken(i) = 1 .. Len(queue) - 1
           /\ \A n \in 1 .. i - 1 : Taken(i)[n] = queue[n]
           /\ \A n \in i .. Len(queue) - 1 : Taken(i)[n] = queue[n + 1]
<1> DEFINE front == SubSeq(queue, 1, i - 1)
           back  == SubSeq(queue, i + 1, Len(queue))
<1>0. Len(queue) \in Nat /\ \A n \in 1 .. Len(queue) : queue[n] \in S
  BY LenProperties, ElementOfSeq
<1>1. /\ front \in Seq(S) /\ Len(front) = i - 1
      /\ \A n \in 1 .. i - 1 : front[n] = queue[n]
  BY <1>0, SubSeqProperties
<1>2. /\ back \in Seq(S) /\ Len(back) = Len(queue) - i
      /\ \A n \in 1 .. Len(queue) - i : back[n] = queue[i + n]
  <2>1. \A n \in i + 1 .. Len(queue) : queue[n] \in S
    BY <1>0
  <2>2. /\ back \in Seq(S)
        /\ Len(back) = IF i + 1 <= Len(queue) THEN Len(queue) - (i + 1) + 1 ELSE 0
        /\ \A n \in 1 .. Len(queue) - (i + 1) + 1 : back[n] = queue[(i + 1) + n - 1]
    BY <1>0, <2>1, SubSeqProperties
  <2> HIDE DEF back
  <2>3. QED
    BY <1>0, <2>2
<1>3. Taken(i) = front \o back
  BY DEF Taken, RemoveAt
<1> HIDE DEF front, back
<1>4. /\ front \o back \in Seq(S)
      /\ Len(front \o back) = Len(front) + Len(back)
      /\ \A n \in 1 .. Len(front) + Len(back) :
            (front \o back)[n] = IF n <= Len(front) THEN front[n] ELSE back[n - Len(front)]
  BY <1>1, <1>2, ConcatProperties
<1>5. DOMAIN (front \o back) = 1 .. Len(queue) - 1
  BY <1>0, <1>1, <1>2, <1>4, LenProperties
<1>6. \A n \in 1 .. i - 1 : (front \o back)[n] = queue[n]
  BY <1>0, <1>1, <1>2, <1>4
<1>7. \A n \in i .. Len(queue) - 1 : (front \o back)[n] = queue[n + 1]
  BY <1>0, <1>1, <1>2, <1>4
<1>8. QED
  BY <1>3, <1>5, <1>6, <1>7

\* Two jobs that differ in their attempts and backoff only.
Alike(job, old) == /\ job.item = old.item /\ job.log = old.log
                   /\ job.sidecar = old.sidecar /\ job.torn = old.torn
                   /\ job.fromPrevious = old.fromPrevious

\* The entries `kept` of the queue after a step are old ones, each at most once and
\* in any state of its backoff: g says which was which.
Relabels(g, kept) ==
    \A n \in kept :
       /\ g[n] \in DOMAIN queue
       /\ Alike(queue'[n], queue[g[n]])
       /\ \A m \in kept : g[m] = g[n] => m = n

\* The queue loses no identity in take_ready_job, in persist_leftovers or when a
\* backoff passes.
LEMMA TakenRelabels ==
    ASSUME NEW S, queue \in Seq(S), NEW i \in 1 .. Len(queue), queue' = Taken(i)
    PROVE  \E g : Relabels(g, DOMAIN queue') /\ \A n \in DOMAIN queue' : g[n] # i
<1> DEFINE g == [n \in 1 .. Len(queue) - 1 |-> IF n < i THEN n ELSE n + 1]
<1>1. Len(queue) \in Nat /\ DOMAIN queue = 1 .. Len(queue)
  BY LenProperties
<1>2. /\ DOMAIN queue' = 1 .. Len(queue) - 1
      /\ \A n \in 1 .. i - 1 : queue'[n] = queue[n]
      /\ \A n \in i .. Len(queue) - 1 : queue'[n] = queue[n + 1]
  BY TakenEntries
<1>3. \A n \in DOMAIN queue' : g[n] \in DOMAIN queue /\ queue'[n] = queue[g[n]]
  BY <1>1, <1>2
<1>4. \A m, n \in DOMAIN queue' : g[m] = g[n] => m = n
  BY <1>1, <1>2
<1>5. \A n \in DOMAIN queue' : g[n] # i
  BY <1>1, <1>2
<1> HIDE DEF g
<1>6. QED
  BY <1>3, <1>4, <1>5 DEF Relabels, Alike

\* A queue that loses its oldest entry relabels the others.
LEMMA TailRelabels ==
    ASSUME NEW S, queue \in Seq(S), queue # <<>>, queue' = Tail(queue)
    PROVE  \E g : Relabels(g, DOMAIN queue')
<1> DEFINE g == [n \in 1 .. Len(queue) - 1 |-> n + 1]
<1>1. Len(queue) \in Nat /\ DOMAIN queue = 1 .. Len(queue)
  BY LenProperties
<1>2. /\ queue' \in Seq(S) /\ Len(queue') = Len(queue) - 1
      /\ \A n \in 1 .. Len(queue') : queue'[n] = queue[n + 1]
  BY HeadTailProperties
<1>3. DOMAIN queue' = 1 .. Len(queue) - 1
  BY <1>2, LenProperties
<1>4. \A n \in DOMAIN queue' : g[n] \in DOMAIN queue /\ queue'[n] = queue[g[n]]
  BY <1>1, <1>2, <1>3
<1>5. \A m, n \in DOMAIN queue' : g[m] = g[n] => m = n
  BY <1>1, <1>3
<1> HIDE DEF g
<1>6. QED
  BY <1>4, <1>5 DEF Relabels, Alike

\* A backoff that expires changes no entry in what identifies it.
LEMMA ReadyRelabels ==
    ASSUME queue \in Seq(Job), NEW i \in 1 .. Len(queue),
           queue' = [queue EXCEPT ![i].ready = TRUE]
    PROVE  \E g : Relabels(g, DOMAIN queue')
<1> DEFINE g == [n \in DOMAIN queue |-> n]
<1>1. DOMAIN queue' = DOMAIN queue /\ DOMAIN queue = 1 .. Len(queue)
  BY LenProperties
<1>2. \A n \in DOMAIN queue : queue'[n] = IF n = i THEN [queue[n] EXCEPT !.ready = TRUE]
                                                   ELSE queue[n]
  BY <1>1
<1>3. \A n \in DOMAIN queue : queue[n] \in Job
  BY <1>1, ElementOfSeq
<1>4. ASSUME NEW n \in DOMAIN queue
      PROVE  Alike(queue'[n], queue[n])
  BY <1>2, <1>3 DEF Job, Alike
<1>5. \A n \in DOMAIN queue : g[n] = n
  OBVIOUS
<1> HIDE DEF g
<1>6. \A n \in DOMAIN queue' : g[n] \in DOMAIN queue /\ Alike(queue'[n], queue[g[n]])
  BY <1>1, <1>4, <1>5
<1>7. \A m, n \in DOMAIN queue' : g[m] = g[n] => m = n
  BY <1>1, <1>5
<1>8. Relabels(g, DOMAIN queue')
  BY <1>6, <1>7, Zenon DEF Relabels
<1>9. QED
  BY <1>8, Zenon

\* Worker::enqueue keeps the old entries but the one it may drop, and adds the job.
LEMMA EnqueuedRelabels ==
    ASSUME NEW S, queue \in Seq(S), Len(queue) <= MaxQueue, NEW job \in S,
           queue' = Enqueued(job)
    PROVE  \E g, new : /\ new \in DOMAIN queue' /\ queue'[new] = job
                       /\ Relabels(g, DOMAIN queue' \ {new})
                       /\ Len(queue) < MaxQueue => \A n \in DOMAIN queue :
                             \E m \in DOMAIN queue' : queue'[m] = queue[n]
<1> DEFINE new == Len(queue) - Dropped + 1
           g == [n \in 1 .. Len(queue) |-> n + Dropped]
<1>1. /\ Dropped \in {0, 1} /\ Len(queue) \in Nat /\ Dropped <= Len(queue)
      /\ DOMAIN queue = 1 .. Len(queue)
      /\ Dropped = 1 => Len(queue) = MaxQueue
      /\ DOMAIN queue' = 1 .. new
      /\ queue'[new] = job
      /\ \A n \in 1 .. Len(queue) - Dropped : queue'[n] = queue[n + Dropped]
  BY EnqueuedEntries
<1>2. DOMAIN queue' \ {new} = 1 .. Len(queue) - Dropped
  BY <1>1
<1>3. \A n \in DOMAIN queue' \ {new} : g[n] \in DOMAIN queue /\ queue'[n] = queue[g[n]]
  <2>1. \A n \in 1 .. Len(queue) - Dropped : n + Dropped \in DOMAIN queue
    BY <1>1
  <2>2. \A n \in 1 .. Len(queue) - Dropped : g[n] = n + Dropped
    BY <1>1, <2>1
  <2> HIDE DEF g, new
  <2>3. QED
    BY <1>1, <1>2, <2>1, <2>2
<1>4. \A m, n \in DOMAIN queue' \ {new} : g[m] = g[n] => m = n
  <2>1. \A n \in 1 .. Len(queue) - Dropped : g[n] = n + Dropped
    BY <1>1
  <2>2. \A m, n \in 1 .. Len(queue) - Dropped : m + Dropped = n + Dropped => m = n
    BY <1>1
  <2>3. QED
    BY <1>2, <2>1, <2>2
<1>5. new \in DOMAIN queue' /\ queue'[new] = job
  BY <1>1
<1>6. ASSUME Len(queue) < MaxQueue, NEW n \in DOMAIN queue
      PROVE  n \in DOMAIN queue' /\ queue'[n] = queue[n]
  <2>1. Len(queue) # MaxQueue
    <3>1. MaxQueue \in Nat
      BY DeliveryAssumption DEF DeliveryAssumption
    <3>2. \A a, b \in Nat : a < b => a # b
      OBVIOUS
    <3>3. QED
      BY <1>1, <1>6, <3>1, <3>2, Zenon
  <2>2. Dropped = 0
    BY <1>1, <2>1
  <2>3. QED
    BY <1>1, <2>2
<1> HIDE DEF g, new
<1>7. Relabels(g, DOMAIN queue' \ {new})
  BY <1>3, <1>4 DEF Relabels, Alike
<1>8. QED
  BY <1>5, <1>6, <1>7

\* A queue nobody touched.
LEMMA SameRelabels ==
    ASSUME queue' = queue
    PROVE  \E g : Relabels(g, DOMAIN queue')
<1> DEFINE g == [n \in DOMAIN queue |-> n]
<1>1. \A n \in DOMAIN queue : g[n] = n
  OBVIOUS
<1> HIDE DEF g
<1>2. Relabels(g, DOMAIN queue')
  BY <1>1 DEF Relabels, Alike
<1>3. QED
  BY <1>2, Zenon

-----------------------------------------------------------------------------
(* No two places hold one POST *)

\* Where every place loses jobs or keeps them, they stay apart, and so they do when
\* the worker holds a job no other place holds any more.
LEMMA ApartFewer ==
    ASSUME Apart, NEW g, Relabels(g, DOMAIN queue'),
           inHand' \subseteq inHand, restoring' \subseteq restoring,
           \A job \in inflight' \ inflight : job.log = {} =>
              /\ job.item \notin restoring'
              /\ \A other \in inHand' : other.item # job.item
              /\ \A n \in DOMAIN queue' : ~ IsPost(n, job.item)'
    PROVE  Apart'
<1>1. \A n \in DOMAIN queue' :
         /\ g[n] \in DOMAIN queue
         /\ queue'[n].item = queue[g[n]].item /\ queue'[n].log = queue[g[n]].log
         /\ \A m \in DOMAIN queue' : g[m] = g[n] => m = n
  BY DEF Relabels, Alike
<1>2. \A n \in DOMAIN queue' : \A i : IsPost(n, i)' => IsPost(g[n], i)
  BY <1>1 DEF IsPost
<1>3. ASSUME NEW m \in DOMAIN queue', NEW n \in DOMAIN queue',
             IsPost(m, queue[n].item)', queue'[n].log = {}
      PROVE  m = n
  <2>1. IsPost(g[m], queue[g[n]].item) /\ queue[g[n]].log = {}
    BY <1>1, <1>2, <1>3
  <2>2. g[m] = g[n]
    BY <1>1, <2>1 DEF Apart
  <2>3. QED
    BY <1>1, <2>2
<1>4. ASSUME NEW job \in inflight', job.log = {}
      PROVE  /\ job.item \notin restoring'
             /\ \A other \in inHand' : other.item # job.item
             /\ \A n \in DOMAIN queue' : ~ IsPost(n, job.item)'
  BY <1>1, <1>2, <1>4 DEF Apart
<1>5. QED
  BY <1>1, <1>2, <1>3, <1>4 DEF Apart

\* A job enqueued while no place holds its POST keeps them apart too.
LEMMA ApartEnqueued ==
    ASSUME Apart, queue \in Seq(Job), Len(queue) <= MaxQueue, NEW job \in Job,
           queue' = Enqueued(job),
           inHand' \subseteq inHand, restoring' \subseteq restoring, inflight' \subseteq inflight,
           job.log = {} => /\ job.item \notin restoring'
                           /\ \A other \in inHand' : other.item # job.item
                           /\ \A n \in DOMAIN queue : ~ IsPost(n, job.item)
                           /\ \A other \in inflight' : other.log = {} => other.item # job.item
    PROVE  Apart'
<1>1. PICK g, new : /\ new \in DOMAIN queue' /\ queue'[new] = job
                    /\ Relabels(g, DOMAIN queue' \ {new})
  BY EnqueuedRelabels
<1>2. \A n \in DOMAIN queue' \ {new} :
         /\ g[n] \in DOMAIN queue
         /\ queue'[n].item = queue[g[n]].item /\ queue'[n].log = queue[g[n]].log
         /\ \A m \in DOMAIN queue' \ {new} : g[m] = g[n] => m = n
  BY <1>1 DEF Relabels, Alike
<1>3. \A n \in DOMAIN queue' \ {new} : \A i : IsPost(n, i)' => IsPost(g[n], i)
  BY <1>2 DEF IsPost
<1>4. \A i : IsPost(new, i)' => job.item = i /\ job.log = {}
  BY <1>1 DEF IsPost
<1>5. ASSUME NEW m \in DOMAIN queue', NEW n \in DOMAIN queue',
             IsPost(m, queue[n].item)', queue'[n].log = {}
      PROVE  m = n
  <2>1. CASE m # new /\ n # new
    <3>1. IsPost(g[m], queue[g[n]].item) /\ queue[g[n]].log = {}
      BY <1>2, <1>3, <1>5, <2>1
    <3>2. g[m] = g[n]
      BY <1>2, <2>1, <3>1 DEF Apart
    <3>3. QED
      BY <1>2, <2>1, <3>2
  <2>2. CASE m = new /\ n # new
    <3>1. job.log = {} /\ job.item = queue[g[n]].item /\ queue[g[n]].log = {}
      BY <1>2, <1>4, <1>5, <2>2
    <3>2. IsPost(g[n], job.item) /\ g[n] \in DOMAIN queue
      BY <1>2, <2>2, <3>1 DEF IsPost
    <3>3. QED
      BY <3>1, <3>2
  <2>3. CASE m # new /\ n = new
    <3>1. job.log = {} /\ IsPost(g[m], job.item) /\ g[m] \in DOMAIN queue
      BY <1>1, <1>2, <1>3, <1>5, <2>3
    <3>2. QED
      BY <3>1
  <2>4. QED
    BY <2>1, <2>2, <2>3
<1>6. ASSUME NEW other \in inHand'
      PROVE  /\ other.item \notin restoring'
             /\ \A n \in DOMAIN queue' : ~ IsPost(n, other.item)'
  BY <1>2, <1>3, <1>4, <1>6 DEF Apart
<1>7. \A r \in restoring', n \in DOMAIN queue' : ~ IsPost(n, r)'
  BY <1>2, <1>3, <1>4 DEF Apart
<1>8. ASSUME NEW other \in inflight', other.log = {}
      PROVE  /\ other.item \notin restoring'
             /\ \A more \in inHand' : more.item # other.item
             /\ \A n \in DOMAIN queue' : ~ IsPost(n, other.item)'
  BY <1>2, <1>3, <1>4, <1>8 DEF Apart
<1>9. QED
  BY <1>5, <1>6, <1>7, <1>8 DEF Apart

\* What the invariant of the jobs says of each of them.
LEMMA InMemorySubmitted ==
    ASSUME JobsGood
    PROVE  /\ DOMAIN queue = 1 .. Len(queue) /\ Len(queue) \in Nat
           /\ \A n \in DOMAIN queue : queue[n] \in GoodJob
           /\ \A job \in Jobs : job \in Job /\ job.item \in submitted
           /\ restoring \subseteq submitted
<1>1. /\ DOMAIN queue = 1 .. Len(queue) /\ Len(queue) \in Nat
      /\ \A n \in DOMAIN queue : queue[n] \in GoodJob
  BY LenProperties, ElementOfSeq DEF JobsGood
<1>2. QED
  BY <1>1 DEF Jobs, JobsGood, GoodJob, ToSet

\* A payload handed to the SDK for the first time is in no place yet.
LEMMA ApartCaptured ==
    ASSUME Apart, JobsGood, NEW i, i \notin submitted, NEW job, job.item = i,
           inHand' = inHand \cup {job}, UNCHANGED <<restoring, queue, inflight>>
    PROVE  Apart'
<1>1. /\ \A n \in DOMAIN queue : queue[n].item # i
      /\ \A other \in inHand : other.item # i
      /\ \A other \in inflight : other.item # i
      /\ i \notin restoring
  BY InMemorySubmitted DEF Jobs, ToSet
<1>2. \A n : \A x : IsPost(n, x)' <=> IsPost(n, x)
  BY DEF IsPost
<1>3. \A n \in DOMAIN queue : ~ IsPost(n, i)
  BY <1>1 DEF IsPost
<1>4. QED
  BY <1>1, <1>2, <1>3 DEF Apart

\* One step keeps the places apart.
LEMMA ApartStep ==
    ASSUME IInv, MemoryShape, Apart, Next
    PROVE  Apart'
<1>a. /\ queue \in Seq(Job) /\ Len(queue) <= MaxQueue
      /\ inHand \subseteq Job /\ inflight \subseteq Job /\ restoring \subseteq Reports
      /\ JobsGood /\ WorkerAlone
  BY DEF IInv, TypeOK
<1>b. ASSUME UNCHANGED <<queue>>, inHand' \subseteq inHand, restoring' \subseteq restoring,
             inflight' \subseteq inflight
      PROVE  Apart'
  <2>1. PICK g : Relabels(g, DOMAIN queue')
    BY <1>b, SameRelabels
  <2>2. QED
    BY <1>b, <2>1, ApartFewer
<1>1. ASSUME NEW usable \in BOOLEAN, NEW logs \in BOOLEAN, Launch(usable, logs)
      PROVE  Apart'
  <2>1. inHand = {} /\ queue = <<>> /\ inflight = {}
    BY <1>1, <1>a DEF Launch, MemoryShape, WorkerAlone
  <2>2. UNCHANGED <<inHand, queue, inflight>>
    BY <1>1 DEF Launch, workerVars
  <2>3. DOMAIN <<>> = {}
    OBVIOUS
  <2>4. QED
    BY <2>1, <2>2, <2>3 DEF Apart
<1>2. ASSUME NEW r \in Reports, Restore(r)
      PROVE  Apart'
  <2>1. /\ r \in restoring /\ restoring' = restoring \ {r}
        /\ queue' = Enqueued(Restored(r, file[r] = "partial")) /\ UNCHANGED <<inHand, inflight>>
    BY <1>2 DEF Restore, workerVars
  <2>2. Restored(r, file[r] = "partial") \in Job /\ Restored(r, file[r] = "partial").item = r
    BY <2>1, <1>a, RestoredIsGood DEF JobsGood
  <2>3. /\ \A other \in inHand : other.item # r
        /\ \A n \in DOMAIN queue : ~ IsPost(n, r)
        /\ \A other \in inflight : other.log = {} => other.item # r
    BY <2>1 DEF Apart
  <2> DEFINE job == Restored(r, file[r] = "partial")
  <2> HIDE DEF job
  <2>4. job \in Job /\ job.item = r /\ queue' = Enqueued(job)
    BY <2>1, <2>2 DEF job
  <2>5. QED
    BY <1>a, <2>1, <2>3, <2>4, ApartEnqueued
<1>3. ASSUME \/ InitDone \/ QuitDone \/ Quit \/ WorkerExits \/ Over \/ FlushLog \/ FindNoneReady
             \/ Track \/ LogLines
      PROVE  Apart'
  BY <1>3, <1>b DEF InitDone, QuitDone, Quit, WorkerExits, Over, FlushLog, FindNoneReady,
                    Track, LogLines, vars, workerVars
<1>4. ASSUME PersistLeftover
      PROVE  Apart'
  <2>1. queue # <<>> /\ queue' = Tail(queue) /\ UNCHANGED <<inHand, restoring, inflight>>
    BY <1>4 DEF PersistLeftover, workerVars
  <2>2. PICK g : Relabels(g, DOMAIN queue')
    BY <1>a, <2>1, TailRelabels
  <2>3. QED
    BY <2>1, <2>2, ApartFewer
<1>5. ASSUME NEW r \in Reports, NEW previous \in BOOLEAN, NEW content \in Contents,
             NEW run, Captured(r, previous, run, content)
      PROVE  Apart'
  <2>1. /\ r \notin submitted /\ inHand' = inHand \cup {Post(r, content # "none", previous)}
        /\ UNCHANGED <<restoring, queue, inflight>>
    BY <1>5 DEF Captured, Ingest, workerVars
  <2>2. Post(r, content # "none", previous).item = r
    BY DEF Post
  <2>3. QED
    BY <1>a, <2>1, <2>2, ApartCaptured
<1>6. ASSUME NEW i \in Items, CaptureOther(i)
      PROVE  Apart'
  <2>1. /\ i \notin submitted /\ inHand' = inHand \cup {Post(i, FALSE, FALSE)}
        /\ UNCHANGED <<restoring, queue, inflight>>
    BY <1>6 DEF CaptureOther, workerVars
  <2>2. Post(i, FALSE, FALSE).item = i
    BY DEF Post
  <2>3. QED
    BY <1>a, <2>1, <2>2, ApartCaptured
<1>7. ASSUME NEW job \in inHand, Enqueue(job)
      PROVE  Apart'
  <2>1. /\ inHand' = inHand \ {job} /\ queue' = Enqueued(job)
        /\ UNCHANGED <<restoring, inflight>>
    BY <1>7 DEF Enqueue, workerVars
  <2>2. /\ job.item \notin restoring'
        /\ \A other \in inHand' : other.item # job.item
        /\ \A n \in DOMAIN queue : ~ IsPost(n, job.item)
        /\ \A other \in inflight' : other.log = {} => other.item # job.item
    BY <2>1 DEF Apart
  <2>3. QED
    BY <1>a, <2>1, <2>2, ApartEnqueued
<1>8. ASSUME NEW i \in 1 .. MaxQueue, BackoffExpires(i)
      PROVE  Apart'
  <2>1. /\ i \in 1 .. Len(queue) /\ queue' = [queue EXCEPT ![i].ready = TRUE]
        /\ UNCHANGED <<inHand, restoring, inflight>>
    BY <1>8 DEF BackoffExpires, workerVars
  <2>2. PICK g : Relabels(g, DOMAIN queue')
    BY <1>a, <2>1, ReadyRelabels
  <2>3. QED
    BY <2>1, <2>2, ApartFewer
<1>9. ASSUME NEW i \in 1 .. MaxQueue, Take(i)
      PROVE  Apart'
  <2>1. /\ i \in 1 .. Len(queue) /\ queue' = Taken(i) /\ inflight' = {queue[i]}
        /\ UNCHANGED <<inHand, restoring>>
    BY <1>9 DEF Take, FirstReady
  <2>2. PICK g : Relabels(g, DOMAIN queue') /\ \A n \in DOMAIN queue' : g[n] # i
    BY <1>a, <2>1, TakenRelabels
  <2>3. i \in DOMAIN queue
    BY <1>a, <2>1, LenProperties
  <2>4. ASSUME NEW job \in inflight', job.log = {}
        PROVE  /\ job.item \notin restoring'
               /\ \A other \in inHand' : other.item # job.item
               /\ \A n \in DOMAIN queue' : ~ IsPost(n, job.item)'
    <3>1. job = queue[i] /\ IsPost(i, job.item)
      BY <2>1, <2>4 DEF IsPost
    <3>2. ASSUME NEW n \in DOMAIN queue', IsPost(n, job.item)'
          PROVE  FALSE
      <4>1. g[n] \in DOMAIN queue /\ g[n] # i /\ IsPost(g[n], job.item)
        BY <2>2, <3>2 DEF Relabels, Alike, IsPost
      <4>2. QED
        BY <2>3, <2>4, <3>1, <4>1 DEF Apart
    <3>3. QED
      BY <2>1, <2>3, <3>1, <3>2 DEF Apart
  <2>5. QED
    BY <2>1, <2>2, <2>4, ApartFewer
<1>10. ASSUME \/ \E verdict \in {"delivered", "poison", "transient"}, reached \in BOOLEAN :
                    PostReturns(verdict, reached)
              \/ \E gone \in BOOLEAN : SettleFinal(gone)
              \/ DropEphemeral
              \/ GiveUp
       PROVE  Apart'
  BY <1>10, <1>b DEF PostReturns, SettleFinal, DropEphemeral, GiveUp, Idle
<1>11. ASSUME NEW granted \in BOOLEAN, ScheduleLogUpload(granted)
       PROVE  Apart'
  <2>1. PICK job \in inflight : ChaseLog(granted, job)
    BY <1>11 DEF ScheduleLogUpload
  <2>2. UNCHANGED <<inHand, restoring>> /\ inflight' = {}
    BY <1>11 DEF ScheduleLogUpload, Idle
  <2>3. CASE queue' = queue
    BY <1>b, <2>2, <2>3
  <2>4. CASE queue' # queue
    <3> DEFINE upload == LogUpload(job.item, LogAt(job))
    <3>1. queue' = Enqueued(upload) /\ LogAt(job) # {}
      BY <2>1, <2>4 DEF ChaseLog
    <3>2. job.item \in submitted \cap Items /\ LogAt(job) \in SUBSET Nat
      BY <1>a DEF JobsGood, GoodJob, Job, LogAt, IInv, TypeOK
    <3>3. upload \in Job /\ upload.log = LogAt(job)
      BY <3>2, LogUploadIsGood DEF GoodJob, LogUpload, Post
    <3> HIDE DEF upload
    <3>4. QED
      BY <1>a, <2>2, <3>1, <3>3, ApartEnqueued
  <2>5. QED
    BY <2>3, <2>4
<1>12. ASSUME Retry
       PROVE  Apart'
  <2>1. PICK job \in inflight : MayRetry(job) /\ queue' = Enqueued(Requeued(job))
    BY <1>12 DEF Retry
  <2>2. UNCHANGED <<inHand, restoring>> /\ inflight' = {}
    BY <1>12 DEF Retry, Idle
  <2>3. /\ Requeued(job) \in Job
        /\ Requeued(job).item = job.item /\ Requeued(job).log = job.log
    BY <1>a, <2>1, RequeuedIsGood DEF Requeued, GoodJob, Job, JobsGood
  <2>4. job.log = {} => /\ job.item \notin restoring
                        /\ \A other \in inHand : other.item # job.item
                        /\ \A n \in DOMAIN queue : ~ IsPost(n, job.item)
    BY DEF Apart
  <2>5. QED
    BY <1>a, <2>1, <2>2, <2>3, <2>4, ApartEnqueued
<1>13. ASSUME Crash \/ \E r \in Reports, torn \in {"empty", "partial"} : CrashInWrite(r, torn)
       PROVE  Apart'
  <2>1. inHand' = {} /\ restoring' = {} /\ queue' = <<>> /\ inflight' = {}
    BY <1>13 DEF Crash, CrashInWrite, Dies
  <2>2. QED
    BY <2>1 DEF Apart
<1>14. QED
  BY <1>1, <1>2, <1>3, <1>4, <1>5, <1>6, <1>7, <1>8, <1>9, <1>10, <1>11, <1>12, <1>13, ApiCases
     DEF Next, OwnerStep, WorkerStep, Capturing

-----------------------------------------------------------------------------
(* Where the entries of the queue come from *)

\* Old entries are all an operation leaves that adds none.
LEMMA EntriesKept ==
    ASSUME NEW g, Relabels(g, DOMAIN queue')
    PROVE  \A e \in ToSet(queue') : \E old \in ToSet(queue) : Alike(e, old)
BY DEF Relabels, ToSet

\* Worker::enqueue adds its own argument only.
LEMMA EntriesEnqueued ==
    ASSUME NEW S, queue \in Seq(S), Len(queue) <= MaxQueue, NEW job \in S,
           queue' = Enqueued(job)
    PROVE  \A e \in ToSet(queue') : e = job \/ \E old \in ToSet(queue) : Alike(e, old)
<1>1. PICK g, new : queue'[new] = job /\ Relabels(g, DOMAIN queue' \ {new})
  BY EnqueuedRelabels
<1>2. QED
  BY <1>1 DEF Relabels, ToSet

\* A job enters the queue from an API caller, from drain_sidecars, from a failed
\* attempt, or as the upload of a log.
NewEntry(e) ==
    \/ \E job \in inHand : Enqueue(job) /\ e = job
    \/ \E r \in Reports : Restore(r) /\ e = Restored(r, file[r] = "partial")
    \/ \E job \in inflight : Retry /\ MayRetry(job) /\ e = Requeued(job)
    \/ \E granted \in BOOLEAN, job \in inflight :
          /\ ScheduleLogUpload(granted) /\ ChaseLog(granted, job)
          /\ LogAt(job) # {} /\ e = LogUpload(job.item, LogAt(job))

\* Whatever step is made, an entry of the queue is an old one or a NewEntry.
LEMMA EntriesStep ==
    ASSUME IInv, Next
    PROVE  \A e \in ToSet(queue') :
              NewEntry(e) \/ \E old \in ToSet(queue) : Alike(e, old)
<1>a. /\ queue \in Seq(Job) /\ Len(queue) <= MaxQueue
      /\ inHand \subseteq Job /\ inflight \subseteq Job /\ restoring \subseteq Reports
      /\ JobsGood
  BY DEF IInv, TypeOK
<1>b. ASSUME queue' = queue
      PROVE  \A e \in ToSet(queue') : \E old \in ToSet(queue) : Alike(e, old)
  BY <1>b DEF Alike
<1>1. ASSUME \/ \E usable, logs \in BOOLEAN : Launch(usable, logs)
             \/ InitDone \/ QuitDone \/ Quit \/ WorkerExits \/ Over
             \/ FlushLog \/ FindNoneReady
             \/ Capturing \/ Track \/ LogLines
             \/ \E i \in Items : CaptureOther(i)
             \/ \E verdict \in {"delivered", "poison", "transient"}, reached \in BOOLEAN :
                    PostReturns(verdict, reached)
             \/ \E gone \in BOOLEAN : SettleFinal(gone)
             \/ DropEphemeral
             \/ GiveUp
      PROVE  queue' = queue
  BY <1>1 DEF Launch, InitDone, QuitDone, Quit, WorkerExits, Over, vars, FlushLog,
              FindNoneReady, Capturing, Captured, Ingest, Track, LogLines, CaptureOther,
              PostReturns, SettleFinal, DropEphemeral, GiveUp
<1>2. ASSUME NEW r \in Reports, Restore(r), NEW e \in ToSet(queue')
      PROVE  NewEntry(e) \/ \E old \in ToSet(queue) : Alike(e, old)
  <2> DEFINE job == Restored(r, file[r] = "partial")
  <2>1. r \in Items /\ r \in submitted
    BY <1>a, <1>2 DEF Restore, JobsGood, Items
  <2>2. job \in Job /\ queue' = Enqueued(job)
    BY <1>2, <2>1, RestoredIsGood DEF Restore
  <2>3. e = job => NewEntry(e)
    BY <1>2 DEF NewEntry
  <2> HIDE DEF job
  <2>4. QED
    BY <1>a, <1>2, <2>2, <2>3, EntriesEnqueued
<1>3. ASSUME NEW job \in inHand, Enqueue(job), NEW e \in ToSet(queue')
      PROVE  NewEntry(e) \/ \E old \in ToSet(queue) : Alike(e, old)
  <2>1. queue' = Enqueued(job) /\ job \in Job
    BY <1>a, <1>3 DEF Enqueue
  <2>2. e = job => NewEntry(e)
    BY <1>3 DEF NewEntry
  <2>3. QED
    BY <1>a, <1>3, <2>1, <2>2, EntriesEnqueued
<1>4. ASSUME PersistLeftover
      PROVE  \A e \in ToSet(queue') : \E old \in ToSet(queue) : Alike(e, old)
  <2>1. queue # <<>> /\ queue' = Tail(queue)
    BY <1>4 DEF PersistLeftover
  <2>2. QED
    BY <1>a, <2>1, TailRelabels, EntriesKept
<1>5. ASSUME NEW i \in 1 .. MaxQueue, BackoffExpires(i)
      PROVE  \A e \in ToSet(queue') : \E old \in ToSet(queue) : Alike(e, old)
  <2>1. i \in 1 .. Len(queue) /\ queue' = [queue EXCEPT ![i].ready = TRUE]
    BY <1>5 DEF BackoffExpires
  <2>2. QED
    BY <1>a, <2>1, ReadyRelabels, EntriesKept
<1>6. ASSUME NEW i \in 1 .. MaxQueue, Take(i)
      PROVE  \A e \in ToSet(queue') : \E old \in ToSet(queue) : Alike(e, old)
  <2>1. i \in 1 .. Len(queue) /\ queue' = Taken(i)
    BY <1>6 DEF Take, FirstReady
  <2>2. QED
    BY <1>a, <2>1, TakenRelabels, EntriesKept
<1>7. ASSUME NEW granted \in BOOLEAN, ScheduleLogUpload(granted), NEW e \in ToSet(queue')
      PROVE  NewEntry(e) \/ \E old \in ToSet(queue) : Alike(e, old)
  <2>1. PICK job \in inflight : ChaseLog(granted, job)
    BY <1>7 DEF ScheduleLogUpload
  <2> DEFINE upload == LogUpload(job.item, LogAt(job))
  <2>2. queue' = queue \/ (queue' = Enqueued(upload) /\ LogAt(job) # {})
    BY <2>1 DEF ChaseLog
  <2>3. job.item \in submitted \cap Items /\ LogAt(job) \in SUBSET Nat
    BY <1>a DEF JobsGood, GoodJob, Job, LogAt, IInv, TypeOK
  <2>4. upload \in Job
    BY <2>3, LogUploadIsGood DEF GoodJob
  <2>5. e = upload /\ LogAt(job) # {} => NewEntry(e)
    BY <1>7, <2>1 DEF NewEntry
  <2> HIDE DEF upload
  <2>6. QED
    BY <1>a, <1>b, <1>7, <2>2, <2>4, <2>5, EntriesEnqueued
<1>8. ASSUME Retry, NEW e \in ToSet(queue')
      PROVE  NewEntry(e) \/ \E old \in ToSet(queue) : Alike(e, old)
  <2>1. PICK job \in inflight : MayRetry(job) /\ queue' = Enqueued(Requeued(job))
    BY <1>8 DEF Retry
  <2>2. Requeued(job) \in Job
    BY <1>a, <2>1, RequeuedIsGood DEF JobsGood, GoodJob
  <2>3. e = Requeued(job) => NewEntry(e)
    BY <1>8, <2>1 DEF NewEntry
  <2>4. QED
    BY <1>a, <1>8, <2>1, <2>2, <2>3, EntriesEnqueued
<1>9. ASSUME Crash \/ \E r \in Reports, torn \in {"empty", "partial"} : CrashInWrite(r, torn)
      PROVE  ToSet(queue') = {}
  <2>1. queue' = <<>>
    BY <1>9 DEF Crash, CrashInWrite, Dies
  <2>2. QED
    BY <2>1 DEF ToSet
<1>10. QED
  BY <1>b, <1>1, <1>2, <1>3, <1>4, <1>5, <1>6, <1>7, <1>8, <1>9, ApiCases
     DEF Next, OwnerStep, WorkerStep

-----------------------------------------------------------------------------
(* The rest of the invariant, one part at a time *)

\* One step keeps the shape of memory: what a quit and a crash leave empty stays so.
LEMMA MemoryStep ==
    ASSUME IInv, MemoryShape, Next
    PROVE  MemoryShape'
<1>a. WorkerAlone
  BY DEF IInv
<1> USE <1>a DEF MemoryShape
<1>1. ASSUME \/ \E usable, logs \in BOOLEAN : Launch(usable, logs)
             \/ \E r \in Reports : Restore(r)
             \/ InitDone \/ QuitDone \/ Quit \/ WorkerExits \/ Over
             \/ FlushLog \/ FindNoneReady \/ Track \/ LogLines
      PROVE  MemoryShape'
  <2>1. CASE \E usable, logs \in BOOLEAN : Launch(usable, logs)
    BY <2>1 DEF Launch, workerVars
  <2>2. CASE \E r \in Reports : Restore(r)
    BY <2>2 DEF Restore, processVars, launchVars, workerVars
  <2>3. CASE InitDone \/ Quit \/ WorkerExits
    BY <2>3 DEF InitDone, Quit, WorkerExits, workerVars
  <2>4. CASE QuitDone
    BY <2>4 DEF QuitDone
  <2>5. CASE Over
    BY <2>5 DEF Over, vars, processVars, launchVars, workerVars
  <2>6. CASE FlushLog \/ FindNoneReady
    BY <2>6 DEF FlushLog, FindNoneReady, processVars, WorkerAlone
  <2>7. CASE Track \/ LogLines
    BY <2>7 DEF Track, LogLines, processVars, workerVars
  <2>8. QED
    BY <1>1, <2>1, <2>2, <2>3, <2>4, <2>5, <2>6, <2>7
<1>2. ASSUME PersistLeftover
      PROVE  MemoryShape'
  BY <1>2 DEF PersistLeftover, processVars, launchVars, workerVars
<1>3. ASSUME \/ Capturing
             \/ \E i \in Items : CaptureOther(i)
             \/ \E job \in inHand : Enqueue(job)
      PROVE  MemoryShape'
  <2>1. CASE Capturing
    <3>1. PICK r \in Reports, previous \in BOOLEAN, content \in Contents, run \in {launch, died} :
             Captured(r, previous, run, content)
      BY <2>1 DEF Capturing
    <3>2. process \in {"starting", "running"} /\ (process = "starting" => restoring = {})
      BY <3>1 DEF Captured, MayTrack
    <3>3. /\ inHand' = inHand \cup {Post(r, content # "none", previous)}
          /\ UNCHANGED <<process, restoring, queue, inflight, stage, concluded>>
      BY <3>1 DEF Captured, Ingest, workerVars
    <3>4. QED
      BY <3>2, <3>3 DEF Post
  <2>2. CASE (\E i \in Items : CaptureOther(i)) \/ \E job \in inHand : Enqueue(job)
    BY <2>2 DEF CaptureOther, Enqueue, processVars, workerVars, Post
  <2>3. QED
    BY <1>3, <2>1, <2>2
<1>4. ASSUME \E i \in 1 .. MaxQueue : BackoffExpires(i) \/ Take(i)
      PROVE  MemoryShape'
  <2>1. PICK i \in 1 .. MaxQueue : BackoffExpires(i) \/ Take(i)
    BY <1>4
  <2>2. process \notin {"quit", "crashed"}
    BY <2>1 DEF BackoffExpires, Take, WorkerAlone
  <2>3. QED
    BY <2>1, <2>2 DEF BackoffExpires, Take, processVars, launchVars, workerVars
<1>5. ASSUME \/ \E verdict \in {"delivered", "poison", "transient"}, reached \in BOOLEAN :
                   PostReturns(verdict, reached)
             \/ \E gone \in BOOLEAN : SettleFinal(gone)
             \/ \E granted \in BOOLEAN : ScheduleLogUpload(granted)
             \/ DropEphemeral \/ Retry \/ GiveUp
      PROVE  MemoryShape'
  <2>1. process \notin {"quit", "crashed", "persisting"}
    BY <1>5 DEF PostReturns, SettleFinal, ScheduleLogUpload, DropEphemeral, Retry, GiveUp,
                WorkerAlone
  <2>2. /\ UNCHANGED <<process, inHand, restoring>>
        /\ stage' \in {"idle", "log"} => inflight' = {}
    BY <1>5 DEF PostReturns, SettleFinal, ScheduleLogUpload, DropEphemeral, Retry, GiveUp,
                Idle, processVars, launchVars
  <2>3. QED
    BY <2>1, <2>2
<1>6. ASSUME Crash \/ \E r \in Reports, torn \in {"empty", "partial"} : CrashInWrite(r, torn)
      PROVE  MemoryShape'
  BY <1>6 DEF Crash, CrashInWrite, Dies
<1>7. QED
  BY <1>1, <1>2, <1>3, <1>4, <1>5, <1>6, ApiCases DEF Next, OwnerStep, WorkerStep

\* A payload with a verdict comes back to no place: a retry is of a job without one,
\* and drain_sidecars restores before the first verdict of a launch.
LEMMA ConcludedStep ==
    ASSUME IInv, MemoryShape, Apart, ConcludedGone, Next
    PROVE  ConcludedGone'
<1>a. JobsGood /\ WorkerAlone /\ restoring \subseteq Reports /\ inflight \subseteq Job
  BY DEF IInv, TypeOK
<1>b. \A n \in DOMAIN queue : queue[n] \in ToSet(queue)
  BY DEF ToSet
<1>c. /\ \A e \in ToSet(queue) : e.log = {} => e.item \notin concluded
      /\ \A e \in ToSet(queue) : e.item \in submitted
  BY InMemorySubmitted, <1>a DEF ConcludedGone, ToSet, Jobs
<1>d. ASSUME concluded' = concluded, NEW e \in ToSet(queue'), e.log = {}
      PROVE  e.item \notin concluded'
  <2>1. CASE NewEntry(e)
    <3>1. CASE \E job \in inHand : Enqueue(job) /\ e = job
      BY <1>d, <3>1 DEF ConcludedGone
    <3>2. CASE \E r \in Reports : Restore(r) /\ e = Restored(r, file[r] = "partial")
      BY <1>d, <3>2 DEF ConcludedGone, Restore, Restored, Post
    <3>3. CASE \E job \in inflight : Retry /\ MayRetry(job) /\ e = Requeued(job)
      <4>1. PICK job \in inflight : Retry /\ e = Requeued(job)
        BY <3>3
      <4>2. e.item = job.item /\ e.log = job.log /\ stage = "settle"
        BY <1>a, <4>1 DEF Requeued, Job, Retry
      <4>3. QED
        BY <1>d, <4>2 DEF ConcludedGone
    <3>4. CASE \E granted \in BOOLEAN, job \in inflight :
                  LogAt(job) # {} /\ e = LogUpload(job.item, LogAt(job))
      BY <1>d, <3>4 DEF LogUpload, Post
    <3>5. QED
      BY <2>1, <3>1, <3>2, <3>3, <3>4 DEF NewEntry
  <2>2. CASE \E old \in ToSet(queue) : Alike(e, old)
    BY <1>c, <1>d, <2>2 DEF Alike
  <2>3. QED
    BY <1>d, <2>1, <2>2, EntriesStep
<1>e. (\A e \in ToSet(queue') : e.log = {} => e.item \notin concluded')
         => \A n \in DOMAIN queue' : queue'[n].log = {} => queue'[n].item \notin concluded'
  BY DEF ToSet
<1>f. ASSUME concluded' = concluded, submitted \subseteq submitted', restoring' \subseteq restoring,
             \A job \in inHand' : job.item \notin concluded,
             \A job \in inflight' : job.log = {} /\ job.item \in concluded => stage' = "chase"
      PROVE  ConcludedGone'
  BY <1>d, <1>e, <1>f DEF ConcludedGone
<1>1. ASSUME NEW usable \in BOOLEAN, NEW logs \in BOOLEAN, Launch(usable, logs)
      PROVE  ConcludedGone'
  <2>1. concluded' = {}
    BY <1>1 DEF Launch, MemoryShape
  <2>2. QED
    BY <2>1 DEF ConcludedGone
<1>2. ASSUME \/ \E r \in Reports : Restore(r)
             \/ \E job \in inHand : Enqueue(job)
             \/ \E i \in 1 .. MaxQueue : BackoffExpires(i)
             \/ InitDone \/ Quit \/ WorkerExits \/ PersistLeftover \/ Over
             \/ Track \/ LogLines
      PROVE  ConcludedGone'
  <2>1. UNCHANGED <<concluded, submitted, inflight, stage>>
    BY <1>2 DEF Restore, Enqueue, BackoffExpires, InitDone, Quit, WorkerExits,
                PersistLeftover, Over, Track, LogLines, vars, workerVars, historyVars
  <2>2. inHand' \subseteq inHand /\ restoring' \subseteq restoring
    BY <1>2 DEF Restore, Enqueue, BackoffExpires, InitDone, Quit, WorkerExits,
                PersistLeftover, Over, Track, LogLines, vars
  <2>3. QED
    BY <1>f, <2>1, <2>2 DEF ConcludedGone
<1>3. ASSUME NEW r \in Reports, NEW previous \in BOOLEAN, NEW content \in Contents,
             NEW run, Captured(r, previous, run, content)
      PROVE  ConcludedGone'
  <2>1. /\ UNCHANGED <<concluded, restoring, inflight, stage>> /\ r \notin submitted
        /\ submitted' = submitted \cup {r}
        /\ inHand' = inHand \cup {Post(r, content # "none", previous)}
    BY <1>3 DEF Captured, Ingest, workerVars
  <2>2. Post(r, content # "none", previous).item = r
    BY DEF Post
  <2>3. QED
    BY <1>f, <2>1, <2>2 DEF ConcludedGone
<1>4. ASSUME NEW i \in Items, CaptureOther(i)
      PROVE  ConcludedGone'
  <2>1. /\ UNCHANGED <<concluded, restoring, inflight, stage>> /\ i \notin submitted
        /\ submitted' = submitted \cup {i} /\ inHand' = inHand \cup {Post(i, FALSE, FALSE)}
    BY <1>4 DEF CaptureOther, workerVars
  <2>2. Post(i, FALSE, FALSE).item = i
    BY DEF Post
  <2>3. QED
    BY <1>f, <2>1, <2>2 DEF ConcludedGone
<1>5. ASSUME NEW i \in 1 .. MaxQueue, Take(i)
      PROVE  ConcludedGone'
  <2>1. /\ UNCHANGED <<concluded, submitted, restoring, inHand>>
        /\ i \in 1 .. Len(queue) /\ inflight' = {queue[i]}
    BY <1>5 DEF Take, FirstReady, historyVars
  <2>2. i \in DOMAIN queue
    BY <1>a, <2>1, InMemorySubmitted
  <2>3. QED
    BY <1>f, <2>1, <2>2 DEF ConcludedGone
<1>6. ASSUME \/ \E verdict \in {"delivered", "poison", "transient"}, reached \in BOOLEAN :
                   PostReturns(verdict, reached)
             \/ \E granted \in BOOLEAN : ScheduleLogUpload(granted)
             \/ DropEphemeral \/ Retry \/ GiveUp \/ FlushLog \/ FindNoneReady
      PROVE  ConcludedGone'
  <2>1. /\ UNCHANGED <<concluded, submitted, restoring, inHand>>
        /\ inflight' = {} \/ (inflight' = inflight /\ stage # "chase")
    BY <1>6 DEF PostReturns, ScheduleLogUpload, DropEphemeral, Retry, GiveUp, FlushLog,
                FindNoneReady, Idle, historyVars
  <2>2. QED
    BY <1>f, <2>1 DEF ConcludedGone
<1>7. ASSUME NEW gone \in BOOLEAN, SettleFinal(gone)
      PROVE  ConcludedGone'
  <2>1. PICK job \in inflight :
            /\ concluded' = IF job.log = {} THEN concluded \cup {job.item} ELSE concluded
            /\ stage' = "chase" \/ inflight' = {}
    BY <1>7 DEF SettleFinal, Idle
  <2>2. /\ UNCHANGED <<submitted, restoring, inHand, queue>>
        /\ inflight' \subseteq inflight
    BY <1>7 DEF SettleFinal, Idle, historyVars
  <2>3. CASE job.log = {}
    <3>1. /\ job.item \in submitted /\ job.item \notin restoring
          /\ \A other \in inHand : other.item # job.item
          /\ \A n \in DOMAIN queue : queue[n].log = {} => queue[n].item # job.item
      BY <1>a, <2>3 DEF Apart, IsPost, JobsGood, GoodJob
    <3>2. QED
      BY <2>1, <2>2, <2>3, <3>1 DEF ConcludedGone
  <2>4. CASE job.log # {}
    BY <1>f, <2>1, <2>2, <2>4 DEF ConcludedGone
  <2>5. QED
    BY <2>3, <2>4
<1>8. ASSUME \/ QuitDone \/ Crash
             \/ \E r \in Reports, torn \in {"empty", "partial"} : CrashInWrite(r, torn)
      PROVE  ConcludedGone'
  <2>1. concluded' = {}
    BY <1>8 DEF QuitDone, Crash, CrashInWrite, Dies
  <2>2. QED
    BY <2>1 DEF ConcludedGone
<1>9. QED
  BY <1>1, <1>2, <1>3, <1>4, <1>5, <1>6, <1>7, <1>8, ApiCases
     DEF Next, OwnerStep, WorkerStep, Capturing

\* A verdict is final when the server has answered, or the body is torn: nothing
\* between the exchange and the settling of its result changes either.
LEMMA SettledStep ==
    ASSUME IInv, Settled, Next
    PROVE  Settled'
<1>a. JobsGood /\ WorkerAlone /\ inflight \subseteq Job
  BY DEF IInv, TypeOK
<1>b. ASSUME stage' \notin {"settle", "chase"}, UNCHANGED answered, submitted \subseteq submitted'
      PROVE  Settled'
  BY <1>b DEF Settled
<1>c. ASSUME UNCHANGED <<stage, inflight, outcome, answered>>, submitted \subseteq submitted'
      PROVE  Settled'
  BY <1>c DEF Settled, Conclusive
<1>1. ASSUME \/ \E usable, logs \in BOOLEAN : Launch(usable, logs)
             \/ \E r \in Reports : Restore(r)
             \/ Capturing \/ Track \/ LogLines
             \/ \E i \in Items : CaptureOther(i)
             \/ \E job \in inHand : Enqueue(job)
             \/ \E i \in 1 .. MaxQueue : BackoffExpires(i)
             \/ InitDone \/ QuitDone \/ Quit \/ WorkerExits \/ Over
      PROVE  Settled'
  <2>1. UNCHANGED <<stage, inflight, outcome, answered>>
    BY <1>1 DEF Launch, Restore, Capturing, Captured, Ingest, Track, LogLines, CaptureOther,
                Enqueue, BackoffExpires, InitDone, QuitDone, Quit, WorkerExits, Over, vars,
                workerVars
  <2>2. submitted \subseteq submitted'
    BY <1>1 DEF Launch, Restore, Capturing, Captured, Ingest, Track, LogLines, CaptureOther,
                Enqueue, BackoffExpires, InitDone, QuitDone, Quit, WorkerExits, Over, vars,
                historyVars
  <2>3. QED
    BY <1>c, <2>1, <2>2
<1>2. ASSUME PersistLeftover
      PROVE  Settled'
  <2>1. stage' = "idle" /\ UNCHANGED <<answered, submitted>>
    BY <1>2, <1>a DEF PersistLeftover, WorkerAlone, workerVars, historyVars
  <2>2. QED
    BY <1>b, <2>1
<1>3. ASSUME \/ FlushLog \/ FindNoneReady
             \/ \E i \in 1 .. MaxQueue : Take(i)
             \/ \E granted \in BOOLEAN : ScheduleLogUpload(granted)
             \/ DropEphemeral \/ Retry \/ GiveUp \/ Crash
             \/ \E r \in Reports, torn \in {"empty", "partial"} : CrashInWrite(r, torn)
      PROVE  Settled'
  <2>1. /\ stage' \notin {"settle", "chase"} /\ UNCHANGED answered
        /\ submitted \subseteq submitted'
    BY <1>3 DEF FlushLog, FindNoneReady, Take, ScheduleLogUpload, DropEphemeral, Retry, GiveUp,
                Crash, CrashInWrite, Dies, Idle, historyVars
  <2>2. QED
    BY <1>b, <2>1
<1>4. ASSUME NEW verdict \in {"delivered", "poison", "transient"}, NEW reached \in BOOLEAN,
             PostReturns(verdict, reached)
      PROVE  Settled'
  <2>1. PICK job \in inflight :
          /\ job.torn => verdict # "delivered" /\ ~reached
          /\ verdict # "transient" /\ ~job.torn => reached
          /\ answered' = IF reached /\ job.log = {}
                         THEN answered \cup {job.item} ELSE answered
          /\ outcome' = verdict
    BY <1>4 DEF PostReturns
  <2>2. UNCHANGED <<submitted, inflight>> /\ stage' = "settle"
    BY <1>4 DEF PostReturns, historyVars
  <2>3. (\A other \in inflight : other = job) /\ job.item \in submitted /\ job.torn \in BOOLEAN
    BY <1>a DEF WorkerAlone, JobsGood, GoodJob, Job
  <2>4. Conclusive(outcome') /\ job.log = {} =>
           job.item \in answered' \/ (outcome' = "poison" /\ job.torn)
    BY <2>1, <2>3 DEF Conclusive
  <2>5. answered' \subseteq submitted
    BY <2>1, <2>3 DEF Settled
  <2>6. QED
    BY <2>2, <2>3, <2>4, <2>5 DEF Settled, Conclusive
<1>5. ASSUME NEW gone \in BOOLEAN, SettleFinal(gone)
      PROVE  Settled'
  <2>1. PICK job \in inflight :
           IF outcome = "delivered" /\ Chases(job)
           THEN stage' = "chase" /\ UNCHANGED <<inflight, outcome>>
           ELSE Idle
    BY <1>5 DEF SettleFinal
  <2>2. stage = "settle" /\ Conclusive(outcome) /\ UNCHANGED <<answered, submitted>>
    BY <1>5 DEF SettleFinal, historyVars
  <2>3. CASE Idle
    BY <1>b, <2>2, <2>3 DEF Idle
  <2>4. CASE ~ Idle
    <3>1. stage' = "chase" /\ inflight' = inflight /\ outcome = "delivered" /\ job.log = {}
      BY <2>1, <2>4 DEF Chases
    <3>2. job.item \in answered /\ \A other \in inflight : other = job
      BY <1>a, <2>2, <3>1 DEF Settled, WorkerAlone
    <3>3. QED
      BY <2>2, <3>1, <3>2 DEF Settled
  <2>5. QED
    BY <2>3, <2>4
<1>6. QED
  BY <1>1, <1>2, <1>3, <1>4, <1>5, ApiCases DEF Next, OwnerStep, WorkerStep

\* One step of the logs and of what init scanned: previous-session.log is older than
\* this launch, and it is uploaded once at most.
LEMMA LogsStep ==
    ASSUME IInv, MemoryShape, Apart, LogsOfLaunches, Next
    PROVE  LogsOfLaunches'
<1>a. /\ JobsGood /\ WorkerAlone /\ inflight \subseteq Job /\ Reports \subseteq Items
      /\ restoring \subseteq Reports /\ file \in [Items -> Contents] /\ TypeOK
      /\ launch \in Nat /\ died \in Nat /\ marker \in Nat /\ oldLogJobs \in Nat
      /\ currentLog \subseteq Nat /\ previousLog \subseteq Nat
      /\ origin \in [Reports -> Nat] /\ claimed \in BOOLEAN
  BY DEF IInv, TypeOK, Items
<1>b. ASSUME UNCHANGED <<launch, marker, currentLog, previousLog, oldLogJobs, origin, claimed>>,
             died' \in {0, died},
             process' = process \/ (process \notin {"quit", "crashed"}
                                       /\ process' \in {"running", "stopping", "persisting"}),
             restoring' \subseteq restoring,
             \A r \in restoring' : file'[r] \in {"partial", "whole"}
      PROVE  LogsOfLaunches'
  BY <1>b DEF LogsOfLaunches
<1>1. ASSUME NEW usable \in BOOLEAN, NEW logs \in BOOLEAN, Launch(usable, logs)
      PROVE  LogsOfLaunches'
  <2>1. /\ process \in {"quit", "crashed"} /\ process' = "starting" /\ launch' = launch + 1
        /\ restoring' \subseteq Restorable
        /\ UNCHANGED <<claimed, oldLogJobs, file, origin>>
        /\ died' \in {0, marker} /\ marker' \in {0, marker}
        /\ \/ \E rotated \in RotatedLogs :
                 previousLog' = rotated[1] /\ currentLog' = rotated[2]
           \/ UNCHANGED <<currentLog, previousLog>>
    BY <1>1 DEF Launch, workerVars, historyVars
  <2>2. \A r \in Reports : origin'[r] < launch' /\ origin'[r] <= launch'
    BY <1>a, <2>1 DEF LogsOfLaunches
  <2>3. /\ currentLog' \cup previousLog' \subseteq currentLog \cup previousLog
        /\ currentLog' \cap previousLog' = {}
    <3>1. \A rotated \in RotatedLogs :
             /\ rotated[1] \cup rotated[2] \subseteq currentLog \cup previousLog
             /\ rotated[1] \cap rotated[2] = {}
      BY DEF RotatedLogs, LogsOfLaunches
    <3>2. QED
      BY <2>1, <3>1 DEF LogsOfLaunches
  <2>4. \A n \in currentLog \cup previousLog : n \in Nat /\ n <= launch /\ n < launch' /\ n <= launch'
    BY <1>a, <2>1 DEF LogsOfLaunches
  <2>5. \A r \in restoring' : file'[r] \in {"partial", "whole"}
    BY <2>1 DEF Restorable
  <2>6. marker' <= launch' /\ (died' # 0 => died' < launch')
    BY <1>a, <2>1 DEF LogsOfLaunches
  <2>7. IF claimed' THEN oldLogJobs' <= 1 ELSE oldLogJobs' = 0
    BY <2>1 DEF LogsOfLaunches
  <2>8. /\ \A n \in currentLog' : n <= launch'
        /\ \A n \in previousLog' : n < launch'
    BY <2>3, <2>4
  <2>9. QED
    BY <2>1, <2>2, <2>3, <2>5, <2>6, <2>7, <2>8 DEF LogsOfLaunches
<1>2. ASSUME \/ \E r \in Reports : Restore(r)
             \/ \E i \in Items : CaptureOther(i)
             \/ \E job \in inHand : Enqueue(job)
             \/ \E i \in 1 .. MaxQueue : BackoffExpires(i) \/ Take(i)
             \/ \E verdict \in {"delivered", "poison", "transient"}, reached \in BOOLEAN :
                   PostReturns(verdict, reached)
             \/ InitDone \/ Quit \/ WorkerExits \/ Over
             \/ FlushLog \/ FindNoneReady \/ DropEphemeral \/ Retry
      PROVE  LogsOfLaunches'
  <2>1. UNCHANGED <<launch, marker, died, currentLog, previousLog, oldLogJobs, origin,
                    claimed, file>>
    BY <1>2 DEF Restore, CaptureOther, Enqueue, BackoffExpires, Take, PostReturns, InitDone,
                Quit, WorkerExits, Over, FlushLog, FindNoneReady, DropEphemeral, Retry, Idle,
                vars, processVars, launchVars, workerVars, logVars, historyVars
  <2>2. /\ restoring' \subseteq restoring
        /\ process' = process \/ (process \notin {"quit", "crashed"}
                                     /\ process' \in {"running", "stopping", "persisting"})
    BY <1>2 DEF Restore, CaptureOther, Enqueue, BackoffExpires, Take, PostReturns, InitDone,
                Quit, WorkerExits, Over, FlushLog, FindNoneReady, DropEphemeral, Retry,
                vars, processVars
  <2>3. QED
    BY <1>b, <2>1, <2>2 DEF LogsOfLaunches
<1>3. ASSUME NEW r \in Reports, NEW previous \in BOOLEAN, NEW content \in Contents,
             NEW run, Captured(r, previous, run, content)
      PROVE  LogsOfLaunches'
  <2>1. /\ UNCHANGED <<process, launch, currentLog, previousLog, oldLogJobs, claimed, restoring>>
        /\ origin' = [origin EXCEPT ![r] = run]
    BY <1>3 DEF Captured, Ingest, logVars, workerVars
  <2>2. restoring = {} /\ process \notin {"quit", "crashed"}
    BY <1>3 DEF Captured, MayTrack, MemoryShape
  <2>3. run <= launch /\ (process = "starting" => run < launch)
    BY <1>a, <1>3 DEF Captured, LogsOfLaunches
  <2>4. marker' <= launch' /\ (died' # 0 => died' < launch')
    BY <1>a, <1>3, <2>1 DEF Captured, LogsOfLaunches
  <2>5. \A q \in Reports : origin'[q] <= launch' /\ (process = "starting" => origin'[q] < launch')
    BY <1>a, <2>1, <2>3 DEF LogsOfLaunches
  <2>6. QED
    BY <2>1, <2>2, <2>4, <2>5 DEF LogsOfLaunches
<1>4. ASSUME PersistLeftover \/ GiveUp
      PROVE  LogsOfLaunches'
  <2>1. UNCHANGED <<process, launch, marker, died, currentLog, previousLog, oldLogJobs, origin,
                    claimed, restoring>>
    BY <1>4 DEF PersistLeftover, GiveUp, Idle, processVars, launchVars, workerVars, logVars,
                historyVars
  <2>2. restoring = {} \/ GiveUp
    BY <1>4 DEF PersistLeftover, MemoryShape
  <2>3. \A r \in restoring : file'[r] = file[r]
    <3>1. CASE GiveUp
      <4>1. PICK job \in inflight : Persist(job)
        BY <3>1 DEF GiveUp
      <4>2. CASE UNCHANGED <<file, backed, cut>>
        BY <4>2
      <4>3. CASE /\ job.item \in Reports /\ job.log = {}
                 /\ \E content \in Contents : Wrote(job.item, content)
        <5>1. job.item \notin restoring
          BY <4>3 DEF Apart
        <5>2. \A q \in Items : q # job.item => file'[q] = file[q]
          BY <1>a, <4>3, WroteCases
        <5>3. QED
          BY <1>a, <5>1, <5>2
      <4>4. QED
        BY <1>a, <4>1, <4>2, <4>3, PersistCases
    <3>2. QED
      BY <2>2, <3>1
  <2>4. QED
    BY <1>b, <2>1, <2>3 DEF LogsOfLaunches
<1>5. ASSUME NEW gone \in BOOLEAN, SettleFinal(gone)
      PROVE  LogsOfLaunches'
  <2>1. PICK job \in inflight : RemoveSidecar(job, gone)
    BY <1>5 DEF SettleFinal
  <2>2. UNCHANGED <<process, launch, marker, died, currentLog, previousLog, oldLogJobs, origin,
                    claimed, restoring>>
    BY <1>5 DEF SettleFinal, processVars, launchVars, logVars, historyVars
  <2>3. job.sidecar => job.item \notin restoring
    BY <1>a DEF Apart, JobsGood, GoodJob
  <2>4. \A r \in restoring : file'[r] = file[r]
    BY <1>a, <2>1, <2>3 DEF RemoveSidecar
  <2>5. QED
    BY <1>b, <2>2, <2>4 DEF LogsOfLaunches
<1>6. ASSUME NEW granted \in BOOLEAN, ScheduleLogUpload(granted)
      PROVE  LogsOfLaunches'
  <2>1. PICK job \in inflight : ChaseLog(granted, job)
    BY <1>6 DEF ScheduleLogUpload
  <2>2. /\ UNCHANGED <<process, launch, marker, died, currentLog, previousLog, origin,
                       restoring, file>>
        /\ stage = "chase"
    BY <1>6 DEF ScheduleLogUpload, processVars, launchVars, historyVars
  <2>3. IF claimed' THEN oldLogJobs' <= 1 ELSE oldLogJobs' = 0
    BY <1>a, <2>1 DEF ChaseLog, LogsOfLaunches, Job
  <2>4. process \notin {"quit", "crashed"}
    BY <1>a, <2>2 DEF WorkerAlone
  <2>5. QED
    BY <2>2, <2>3, <2>4 DEF LogsOfLaunches
<1>7. ASSUME QuitDone \/ Crash
      PROVE  LogsOfLaunches'
  <2>1. /\ UNCHANGED <<launch, currentLog, previousLog, origin>>
        /\ marker' \in {0, marker} /\ died' = 0
        /\ process' \in {"quit", "crashed"} /\ claimed' = FALSE /\ oldLogJobs' = 0
    BY <1>7 DEF QuitDone, Crash, Dies, historyVars
  <2>2. restoring' = {}
    BY <1>7 DEF QuitDone, Crash, Dies, MemoryShape
  <2>3. marker' <= launch'
    BY <1>a, <2>1 DEF LogsOfLaunches
  <2>4. QED
    BY <2>1, <2>2, <2>3 DEF LogsOfLaunches
<1>8. ASSUME NEW r \in Reports, NEW torn \in {"empty", "partial"}, CrashInWrite(r, torn)
      PROVE  LogsOfLaunches'
  <2>1. /\ UNCHANGED <<launch, currentLog, previousLog>>
        /\ \/ origin' = [origin EXCEPT ![r] = launch]
           \/ origin' = [origin EXCEPT ![r] = died] /\ died # 0
        /\ marker' \in {marker, launch} /\ died' = 0
        /\ process' = "crashed" /\ claimed' = FALSE /\ oldLogJobs' = 0 /\ restoring' = {}
    BY <1>8 DEF CrashInWrite, Dies
  <2>2. \A q \in Reports : origin'[q] <= launch'
    BY <1>a, <2>1 DEF LogsOfLaunches
  <2>3. marker' <= launch'
    BY <1>a, <2>1 DEF LogsOfLaunches
  <2>4. QED
    BY <2>1, <2>2, <2>3 DEF LogsOfLaunches
<1>9. ASSUME Track
      PROVE  LogsOfLaunches'
  <2>1. /\ UNCHANGED <<process, launch, died, currentLog, previousLog, oldLogJobs, origin,
                       claimed, restoring, file>>
        /\ marker' = launch
    BY <1>9 DEF Track, workerVars, logVars, historyVars
  <2>2. marker' <= launch'
    BY <1>a, <2>1
  <2>3. QED
    BY <2>1, <2>2 DEF LogsOfLaunches
<1>10. ASSUME LogLines
       PROVE  LogsOfLaunches'
  <2>1. /\ UNCHANGED <<process, launch, marker, died, previousLog, oldLogJobs, origin,
                       claimed, restoring, file>>
        /\ currentLog' = currentLog \cup {launch}
    BY <1>10 DEF LogLines, processVars, launchVars, workerVars, historyVars
  <2>2. launch \notin previousLog
    BY <1>a DEF LogsOfLaunches
  <2>3. /\ \A n \in currentLog' : n <= launch'
        /\ currentLog' \cap previousLog' = {}
    BY <1>a, <2>1, <2>2 DEF LogsOfLaunches
  <2>4. QED
    BY <2>1, <2>3 DEF LogsOfLaunches
<1>11. QED
  BY <1>1, <1>2, <1>3, <1>4, <1>5, <1>6, <1>7, <1>8, <1>9, <1>10, ApiCases
     DEF Next, OwnerStep, WorkerStep, Capturing

\* What the two truths say is about a job's payload, not about its attempts.
LEMMA AlikeTrue ==
    ASSUME NEW job, NEW old, Alike(job, old)
    PROVE  /\ TrueSidecar(old) => TrueSidecar(job)
           /\ TrueOrigin(old) => TrueOrigin(job)
           /\ TrueSidecar(old)' => TrueSidecar(job)'
           /\ TrueOrigin(old)' => TrueOrigin(job)'
BY DEF Alike, TrueSidecar, TrueOrigin

\* The upload granted for a report's POST has the log of the right side of the restart:
\* this is where fromPrevious chooses the file (LogAt).
LEMMA UploadIsTrue ==
    ASSUME IInv, LogsOfLaunches, Settled, JobsTrue, stage = "chase",
           NEW job \in inflight, LogAt(job) # {}
    PROVE  TrueSidecar(LogUpload(job.item, LogAt(job))) /\ TrueOrigin(LogUpload(job.item, LogAt(job)))
<1> DEFINE upload == LogUpload(job.item, LogAt(job))
<1>1. upload.item = job.item /\ upload.log = LogAt(job)
  BY DEF LogUpload, Post
<1>2. job.log = {} /\ launch \in Nat /\ \A n \in previousLog : n # launch
  <2>1. launch \in Nat /\ previousLog \subseteq Nat
    BY DEF IInv, TypeOK
  <2>2. QED
    BY <2>1 DEF Settled, LogsOfLaunches
<1>3. LogAt(job) = IF job.fromPrevious THEN previousLog ELSE currentLog
  BY DEF LogAt
<1>4. job.item \in Reports => (job.fromPrevious <=> origin[job.item] # launch)
  BY <1>2 DEF JobsTrue, Jobs, TrueOrigin
<1> HIDE DEF upload
<1>5. TrueSidecar(upload)
  BY <1>1 DEF TrueSidecar
<1>6. ASSUME job.item \in Reports, origin[job.item] = launch
      PROVE  upload.log \cap previousLog = {} /\ (currentLog \subseteq {launch} => upload.log = {launch})
  <2>1. upload.log = currentLog /\ currentLog # {}
    BY <1>1, <1>3, <1>4, <1>6
  <2>2. QED
    BY <2>1 DEF LogsOfLaunches
<1>7. ASSUME job.item \in Reports, origin[job.item] # launch
      PROVE  launch \notin upload.log
  BY <1>1, <1>2, <1>3, <1>4, <1>7
<1>8. TrueOrigin(upload)
  BY <1>1, <1>6, <1>7 DEF TrueOrigin
<1>9. QED
  BY <1>5, <1>8 DEF upload

\* The write a job is offered leaves every other job true.
LEMMA PersistTrue ==
    ASSUME IInv, JobsTrue, NEW job \in Job, Persist(job),
           UNCHANGED <<launch, previousLog, currentLog, origin, answered>>,
           NEW j \in Jobs, j.log # {} \/ j.item # job.item \/ job.log # {}
    PROVE  TrueSidecar(j)' /\ TrueOrigin(j)'
<1>1. TrueSidecar(j) /\ TrueOrigin(j) /\ TypeOK /\ Reports \subseteq Items
  BY DEF JobsTrue, IInv, Items
<1>2. TrueOrigin(j)'
  BY <1>1 DEF TrueOrigin
<1>3. CASE UNCHANGED <<file, backed, cut>>
  BY <1>1, <1>2, <1>3 DEF TrueSidecar
<1>4. CASE /\ job.item \in Reports /\ job.log = {}
           /\ \E content \in Contents : Wrote(job.item, content)
  <2>1. cut \subseteq cut' /\ \A q \in Items : q # job.item => file'[q] = file[q]
    BY <1>1, <1>4, WroteCases
  <2>2. QED
    BY <1>1, <1>2, <1>4, <2>1 DEF TrueSidecar
<1>5. QED
  BY <1>3, <1>4, PersistCases

\* One step keeps what every job says of its payload true.
LEMMA TrueStep ==
    ASSUME IInv, MemoryShape, Apart, Settled, LogsOfLaunches, JobsTrue, Next
    PROVE  JobsTrue'
<1>a. /\ JobsGood /\ WorkerAlone /\ inflight \subseteq Job /\ inHand \subseteq Job
      /\ Reports \subseteq Items /\ restoring \subseteq Reports /\ queue \in Seq(Job)
      /\ file \in [Items -> Contents] /\ TypeOK
      /\ launch \in Nat /\ died \in Nat /\ origin \in [Reports -> Nat]
      /\ \A job \in Jobs : job \in Job /\ job.item \in submitted /\ job.item \in Items
  BY InMemorySubmitted DEF IInv, TypeOK, Items, Job
<1>b. /\ \A e \in ToSet(queue) : e \in Jobs
      /\ \A job \in inHand \cup inflight : job \in Jobs
  BY DEF Jobs
\* Jobs that stay, in a step that leaves what they speak of as it was.
<1>c. ASSUME UNCHANGED <<launch, previousLog>>, currentLog \subseteq currentLog',
             answered \subseteq answered', cut \subseteq cut',
             \A r \in submitted \cap Reports : origin'[r] = origin[r] /\ file'[r] = file[r]
      PROVE  \A job \in Jobs : TrueSidecar(job)' /\ TrueOrigin(job)'
  BY <1>a, <1>c DEF JobsTrue, TrueSidecar, TrueOrigin
\* So a new entry of the queue is true if the step adds none but those four.
<1>d. ASSUME UNCHANGED <<launch, previousLog, currentLog, answered, cut, origin, file>>,
             NEW e \in ToSet(queue')
      PROVE  TrueSidecar(e)' /\ TrueOrigin(e)'
  <2>1. \A job : TrueSidecar(job) /\ TrueOrigin(job) => TrueSidecar(job)' /\ TrueOrigin(job)'
    BY <1>d DEF TrueSidecar, TrueOrigin
  <2>2. CASE \E job \in inHand : Enqueue(job) /\ e = job
    BY <1>b, <2>1, <2>2 DEF JobsTrue
  <2>3. CASE \E r \in Reports : Restore(r) /\ e = Restored(r, file[r] = "partial")
    <3>1. PICK r \in Reports : Restore(r) /\ e = Restored(r, file[r] = "partial")
      BY <2>3
    <3>2. /\ file[r] \in {"partial", "whole"} /\ origin[r] < launch /\ r \in submitted
      BY <1>a, <3>1 DEF Restore, LogsOfLaunches, JobsGood
    <3>3. /\ e.item = r /\ e.log = {} /\ e.sidecar = TRUE /\ e.fromPrevious = TRUE
          /\ e.torn = (file[r] = "partial")
      BY <3>1, <3>2, RestoredIsGood
    <3>4. origin[r] # launch
      BY <1>a, <3>2
    <3>5. TrueSidecar(e)
      BY <3>2, <3>3 DEF TrueSidecar
    <3>6. TrueOrigin(e)
      BY <3>3, <3>4 DEF TrueOrigin
    <3>7. QED
      BY <2>1, <3>5, <3>6
  <2>4. CASE \E job \in inflight : Retry /\ MayRetry(job) /\ e = Requeued(job)
    <3>1. PICK job \in inflight : e = Requeued(job)
      BY <2>4
    <3>2. Alike(e, job)
      BY <1>a, <3>1 DEF Alike, Requeued, Job
    <3>3. QED
      BY <1>b, <2>1, <3>2, AlikeTrue DEF JobsTrue
  <2>5. CASE \E granted \in BOOLEAN, job \in inflight :
                /\ ScheduleLogUpload(granted) /\ ChaseLog(granted, job)
                /\ LogAt(job) # {} /\ e = LogUpload(job.item, LogAt(job))
    <3>1. PICK job \in inflight : LogAt(job) # {} /\ e = LogUpload(job.item, LogAt(job))
      BY <2>5
    <3>2. stage = "chase"
      BY <2>5 DEF ScheduleLogUpload
    <3>3. TrueSidecar(e) /\ TrueOrigin(e)
      BY <3>1, <3>2, UploadIsTrue
    <3>4. QED
      BY <2>1, <3>3
  <2>6. CASE \E old \in ToSet(queue) : Alike(e, old)
    BY <1>b, <2>1, <2>6, AlikeTrue DEF JobsTrue
  <2>7. QED
    BY <1>d, <2>2, <2>3, <2>4, <2>5, <2>6, EntriesStep DEF NewEntry
<1>1. ASSUME NEW usable \in BOOLEAN, NEW logs \in BOOLEAN, Launch(usable, logs)
      PROVE  JobsTrue'
  <2>1. inHand' = {} /\ queue' = <<>> /\ inflight' = {}
    BY <1>1, <1>a DEF Launch, MemoryShape, WorkerAlone, workerVars
  <2>2. QED
    BY <2>1 DEF JobsTrue, Jobs, ToSet
<1>2. ASSUME \/ \E r \in Reports : Restore(r)
             \/ \E job \in inHand : Enqueue(job)
             \/ \E i \in 1 .. MaxQueue : BackoffExpires(i)
             \/ InitDone \/ QuitDone \/ Quit \/ WorkerExits \/ Over
             \/ FlushLog \/ FindNoneReady \/ DropEphemeral \/ Retry \/ Track
             \/ \E granted \in BOOLEAN : ScheduleLogUpload(granted)
      PROVE  JobsTrue'
  <2>1. UNCHANGED <<launch, previousLog, currentLog, answered, cut, origin, file>>
    BY <1>2 DEF Restore, Enqueue, BackoffExpires, InitDone, QuitDone, Quit, WorkerExits, Over,
                FlushLog, FindNoneReady, DropEphemeral, Retry, Track, ScheduleLogUpload,
                vars, processVars, launchVars, logVars, historyVars
  <2>2. inHand' \subseteq inHand /\ inflight' \subseteq inflight
    BY <1>2 DEF Restore, Enqueue, BackoffExpires, InitDone, QuitDone, Quit, WorkerExits, Over,
                FlushLog, FindNoneReady, DropEphemeral, Retry, Track, ScheduleLogUpload,
                vars, workerVars, Idle
  <2>3. \A job \in Jobs : TrueSidecar(job)' /\ TrueOrigin(job)'
    BY <1>c, <2>1
  <2>4. QED
    BY <1>b, <1>d, <2>1, <2>2, <2>3 DEF JobsTrue, Jobs
<1>3. ASSUME NEW r \in Reports, NEW previous \in BOOLEAN, NEW content \in Contents,
             NEW run, Captured(r, previous, run, content)
      PROVE  JobsTrue'
  <2> DEFINE job == Post(r, content # "none", previous)
  <2>1. /\ r \notin submitted /\ inHand' = inHand \cup {job} /\ Wrote(r, content)
        /\ origin' = [origin EXCEPT ![r] = run]
        /\ UNCHANGED <<launch, previousLog, currentLog, answered, queue, inflight>>
    BY <1>3 DEF Captured, Ingest, workerVars, logVars
  <2>2. /\ content = "none" => file' = file
        /\ content # "none" => file' = [file EXCEPT ![r] = content]
        /\ content \in {"empty", "partial"} => r \in cut'
        /\ cut \subseteq cut' /\ \A q \in Items : q # r => file'[q] = file[q]
    BY <1>a, <2>1, WroteCases
  <2>3. \A j \in Jobs : TrueSidecar(j)' /\ TrueOrigin(j)'
    BY <1>a, <1>c, <2>1, <2>2
  <2>4. /\ job.item = r /\ job.log = {} /\ job.sidecar = (content # "none")
        /\ job.fromPrevious = previous /\ job.torn = FALSE
    BY DEF Post
  <2>5. file[r] = "none" /\ r \in Items
    BY <1>a, <2>1 DEF IInv, DiskInv, FilesSubmitted
  <2>6. file'[r] = content /\ content \in {"none", "empty", "partial", "whole"}
    BY <1>a, <2>2, <2>5 DEF Contents
  <2>7. origin'[r] # launch' <=> previous
    <3>1. origin'[r] = run /\ (died # 0 => died # launch)
      BY <1>a, <2>1 DEF LogsOfLaunches
    <3>2. QED
      BY <1>3, <2>1, <3>1 DEF Captured
  <2> HIDE DEF job
  <2>8. TrueSidecar(job)'
    BY <2>2, <2>4, <2>6 DEF TrueSidecar
  <2>9. TrueOrigin(job)'
    BY <2>4, <2>7 DEF TrueOrigin
  <2>10. QED
    BY <2>1, <2>3, <2>8, <2>9 DEF JobsTrue, Jobs
<1>4. ASSUME NEW i \in Items, CaptureOther(i)
      PROVE  JobsTrue'
  <2> DEFINE job == Post(i, FALSE, FALSE)
  <2>1. /\ inHand' = inHand \cup {job} /\ i \notin Reports
        /\ UNCHANGED <<launch, previousLog, currentLog, answered, cut, queue, inflight, file,
                       origin>>
    BY <1>4, DeliveryAssumption
       DEF CaptureOther, processVars, launchVars, logVars, workerVars, DeliveryAssumption
  <2>2. \A j \in Jobs : TrueSidecar(j)' /\ TrueOrigin(j)'
    BY <1>c, <2>1
  <2>3. job.item = i
    BY DEF Post
  <2> HIDE DEF job
  <2>4. TrueSidecar(job)' /\ TrueOrigin(job)'
    BY <2>1, <2>3 DEF TrueSidecar, TrueOrigin
  <2>5. QED
    BY <2>1, <2>2, <2>4 DEF JobsTrue, Jobs
<1>5. ASSUME NEW i \in 1 .. MaxQueue, Take(i)
      PROVE  JobsTrue'
  <2>1. /\ UNCHANGED <<launch, previousLog, currentLog, answered, cut, origin, file, inHand>>
        /\ i \in 1 .. Len(queue) /\ inflight' = {queue[i]}
    BY <1>5 DEF Take, FirstReady, processVars, launchVars, logVars, historyVars
  <2>2. queue[i] \in ToSet(queue)
    BY <1>a, <2>1, InMemorySubmitted DEF ToSet
  <2>3. \A job \in Jobs : TrueSidecar(job)' /\ TrueOrigin(job)'
    BY <1>c, <2>1
  <2>4. QED
    BY <1>b, <1>d, <2>1, <2>2, <2>3 DEF JobsTrue, Jobs
<1>6. ASSUME \/ LogLines
             \/ \E verdict \in {"delivered", "poison", "transient"}, reached \in BOOLEAN :
                   PostReturns(verdict, reached)
      PROVE  JobsTrue'
  <2>1. /\ UNCHANGED <<launch, previousLog, cut, origin, file, inHand, inflight, queue>>
        /\ answered \subseteq answered' /\ currentLog \subseteq currentLog'
    BY <1>6 DEF LogLines, PostReturns, processVars, launchVars, workerVars, logVars, historyVars
  <2>2. \A job \in Jobs : TrueSidecar(job)' /\ TrueOrigin(job)'
    BY <1>c, <2>1
  <2>3. QED
    BY <2>1, <2>2 DEF JobsTrue, Jobs
<1>7. ASSUME PersistLeftover
      PROVE  JobsTrue'
  <2>1. /\ UNCHANGED <<launch, previousLog, currentLog, origin, answered>>
        /\ queue # <<>> /\ queue' = Tail(queue) /\ Persist(Head(queue))
        /\ inHand' = {} /\ inflight' = {}
    BY <1>7, <1>a DEF PersistLeftover, WorkerAlone, MemoryShape, processVars, launchVars,
                      workerVars, logVars, historyVars
  <2>2. /\ Len(queue) \in Nat /\ DOMAIN queue = 1 .. Len(queue) /\ Len(queue) # 0
        /\ Head(queue) \in Job /\ Head(queue) = queue[1]
        /\ DOMAIN queue' = 1 .. Len(queue) - 1
        /\ \A n \in 1 .. Len(queue) - 1 : queue'[n] = queue[n + 1]
    BY <1>a, <2>1, HeadTailProperties, LenProperties, EmptySeq
  <2>3. ASSUME NEW e \in ToSet(queue')
        PROVE  TrueSidecar(e)' /\ TrueOrigin(e)'
    <3>1. PICK n \in DOMAIN queue' : e = queue'[n]
      BY DEF ToSet
    <3>2. n + 1 \in DOMAIN queue /\ 1 \in DOMAIN queue /\ n + 1 # 1 /\ e = queue[n + 1]
      BY <2>2, <3>1
    <3>3. e \in Jobs
      BY <3>2 DEF Jobs, ToSet
    <3>4. e.log # {} \/ e.item # Head(queue).item \/ Head(queue).log # {}
      BY <2>2, <3>2 DEF Apart, IsPost
    <3>5. QED
      BY <2>1, <2>2, <3>3, <3>4, PersistTrue
  <2>4. QED
    BY <2>1, <2>3 DEF JobsTrue, Jobs
<1>8. ASSUME GiveUp
      PROVE  JobsTrue'
  <2>1. PICK job \in inflight : Persist(job)
    BY <1>8 DEF GiveUp
  <2>2. /\ UNCHANGED <<launch, previousLog, currentLog, origin, answered, inHand, queue>>
        /\ inflight' = {} /\ job \in Job
    BY <1>8, <1>a DEF GiveUp, Idle, processVars, launchVars, logVars, historyVars
  <2>3. ASSUME NEW j \in inHand \cup ToSet(queue)
        PROVE  TrueSidecar(j)' /\ TrueOrigin(j)'
    <3>1. j \in Jobs
      BY DEF Jobs
    <3>2. j.log # {} \/ j.item # job.item \/ job.log # {}
      BY <2>1, <2>3 DEF Apart, IsPost, ToSet
    <3>3. QED
      BY <2>1, <2>2, <3>1, <3>2, PersistTrue
  <2>4. QED
    BY <2>2, <2>3 DEF JobsTrue, Jobs
<1>9. ASSUME NEW gone \in BOOLEAN, SettleFinal(gone)
      PROVE  JobsTrue'
  <2>1. PICK job \in inflight :
           /\ RemoveSidecar(job, gone)
           /\ IF outcome = "delivered" /\ Chases(job)
              THEN stage' = "chase" /\ UNCHANGED <<inflight, outcome>>
              ELSE Idle
    BY <1>9 DEF SettleFinal
  <2>2. /\ stage = "settle" /\ Conclusive(outcome)
        /\ UNCHANGED <<launch, previousLog, currentLog, origin, answered, cut, inHand, queue>>
    BY <1>9 DEF SettleFinal, processVars, launchVars, logVars, historyVars
  <2>3. /\ \A other \in inflight : other = job
        /\ job.sidecar => job.log = {}
        /\ job.item \in Items
    BY <1>a DEF WorkerAlone, JobsGood, GoodJob, Job
  <2>4. \A j \in Jobs : TrueOrigin(j)'
    BY <2>2 DEF JobsTrue, TrueOrigin
  <2>5. ASSUME NEW j \in Jobs, j.log # {} \/ j.item # job.item \/ j.item \in answered
        PROVE  TrueSidecar(j)'
    <3>1. file'[j.item] = file[j.item] \/ (j.item = job.item /\ file'[j.item] = "none")
      BY <1>a, <2>1, <2>3 DEF RemoveSidecar
    <3>2. QED
      BY <2>2, <2>5, <3>1 DEF TrueSidecar, JobsTrue
  <2>6. ASSUME NEW j \in inHand \cup ToSet(queue)
        PROVE  TrueSidecar(j)'
    <3>1. CASE job.sidecar
      <4>1. j.log = {} => j.item # job.item
        BY <2>3, <2>6, <3>1 DEF Apart, IsPost, ToSet
      <4>2. QED
        BY <1>b, <2>5, <2>6, <4>1
    <3>2. CASE ~ job.sidecar
      BY <1>b, <2>1, <2>2, <2>6, <3>2 DEF RemoveSidecar, TrueSidecar, JobsTrue
    <3>3. QED
      BY <3>1, <3>2
  <2>7. ASSUME NEW j \in inflight'
        PROVE  j \in Jobs /\ TrueSidecar(j)'
    <3>1. j = job /\ outcome = "delivered" /\ job.log = {}
      BY <2>1, <2>3, <2>7 DEF Idle, Chases
    <3>2. job.item \in answered
      BY <2>2, <3>1 DEF Settled
    <3>3. QED
      BY <1>b, <2>5, <3>1, <3>2
  <2>8. QED
    BY <1>b, <2>2, <2>4, <2>6, <2>7 DEF JobsTrue, Jobs
<1>10. ASSUME Crash \/ \E r \in Reports, torn \in {"empty", "partial"} : CrashInWrite(r, torn)
       PROVE  JobsTrue'
  <2>1. inHand' = {} /\ queue' = <<>> /\ inflight' = {}
    BY <1>10 DEF Crash, CrashInWrite, Dies
  <2>2. QED
    BY <2>1 DEF JobsTrue, Jobs, ToSet
<1>11. QED
  BY <1>1, <1>2, <1>3, <1>4, <1>5, <1>6, <1>7, <1>8, <1>9, <1>10, ApiCases
     DEF Next, OwnerStep, WorkerStep, Capturing

-----------------------------------------------------------------------------
(* Custody of a report: what one step can do to it *)

\* Some place holds the POST of i.
Held(i) ==
    \/ \E job \in inHand : job.item = i
    \/ i \in restoring
    \/ \E e \in ToSet(queue) : e.item = i /\ e.log = {}
    \/ \E job \in inflight : job.item = i /\ job.log = {}

\* Held is InMemory of Delivery, said without the number of the copies.
LEMMA HeldIsInMemory ==
    ASSUME NEW i
    PROVE  (InMemory(i) <=> Held(i)) /\ (InMemory(i)' <=> Held(i)')
<1>1. InMemory(i) => Held(i)
  <2>1. ASSUME NEW p \in PostsOf(i) PROVE Held(i)
    BY <2>1 DEF PostsOf, Held, ToSet
  <2>2. QED
    BY <2>1 DEF InMemory
<1>2. Held(i) => InMemory(i)
  <2>1. ASSUME NEW job \in inHand, job.item = i PROVE <<"hand", job>> \in PostsOf(i)
    BY <2>1 DEF PostsOf
  <2>2. i \in restoring => <<"restore", i>> \in PostsOf(i)
    BY DEF PostsOf
  <2>3. ASSUME NEW n \in DOMAIN queue, queue[n].item = i, queue[n].log = {}
        PROVE  <<"queue", n>> \in PostsOf(i)
    BY <2>3 DEF PostsOf
  <2>4. ASSUME NEW job \in inflight, job.item = i, job.log = {}
        PROVE  <<"flight", job>> \in PostsOf(i)
    BY <2>4 DEF PostsOf
  <2>5. QED
    BY <2>1, <2>2, <2>3, <2>4 DEF InMemory, Held, ToSet
<1>3. InMemory(i)' => Held(i)'
  <2>1. ASSUME NEW p \in PostsOf(i)' PROVE Held(i)'
    BY <2>1 DEF PostsOf, Held, ToSet
  <2>2. QED
    BY <2>1 DEF InMemory
<1>4. Held(i)' => InMemory(i)'
  <2>1. ASSUME NEW job \in inHand', job.item = i PROVE <<"hand", job>> \in PostsOf(i)'
    BY <2>1 DEF PostsOf
  <2>2. i \in restoring' => <<"restore", i>> \in PostsOf(i)'
    BY DEF PostsOf
  <2>3. ASSUME NEW n \in DOMAIN queue', queue'[n].item = i, queue'[n].log = {}
        PROVE  <<"queue", n>> \in PostsOf(i)'
    BY <2>3 DEF PostsOf
  <2>4. ASSUME NEW job \in inflight', job.item = i, job.log = {}
        PROVE  <<"flight", job>> \in PostsOf(i)'
    BY <2>4 DEF PostsOf
  <2>5. QED
    BY <2>1, <2>2, <2>3, <2>4 DEF InMemory, Held, ToSet
<1>5. QED
  BY <1>1, <1>2, <1>3, <1>4

\* An answer is for a whole body the worker was sending.
LEMMA AnswersStep ==
    ASSUME Next
    PROVE  /\ answered \subseteq answered'
           /\ \A i \in answered' \ answered : \E job \in inflight :
                job.item = i /\ job.log = {} /\ ~ job.torn
<1>1. ASSUME \E verdict \in {"delivered", "poison", "transient"}, reached \in BOOLEAN :
                PostReturns(verdict, reached)
      PROVE  /\ answered \subseteq answered'
             /\ \A i \in answered' \ answered : \E job \in inflight :
                  job.item = i /\ job.log = {} /\ ~ job.torn
  BY <1>1 DEF PostReturns
<1>2. ASSUME \A verdict \in {"delivered", "poison", "transient"}, reached \in BOOLEAN :
                ~ PostReturns(verdict, reached)
      PROVE  answered' = answered
  BY <1>2, ApiCases
     DEF Next, OwnerStep, WorkerStep, Launch, Restore, InitDone, PersistLeftover, QuitDone,
         Capturing, Captured, Ingest, Track, LogLines, CaptureOther, Enqueue, BackoffExpires,
         FlushLog, FindNoneReady, Take, SettleFinal, ScheduleLogUpload, DropEphemeral, Retry,
         GiveUp, WorkerExits, CrashInWrite, Dies, Quit, Crash, Over, vars
<1>3. QED
  BY <1>1, <1>2

\* A file changes for a new report, for an unbacked job in memory, or goes with the final
\* verdict on the job it backs; what becomes backed is whole.
LEMMA FilesStep ==
    ASSUME IInv, Next, NEW r \in Reports
    PROVE  \/ file'[r] = file[r] /\ (r \in backed' => r \in backed)
           \/ /\ r \notin submitted \/ \E job \in Jobs : job.item = r /\ job.log = {} /\ ~ job.sidecar
              /\ r \in backed' => r \in backed \/ file'[r] = "whole"
           \/ /\ r \in backed' => r \in backed
              /\ \E gone \in BOOLEAN, job \in inflight :
                   /\ SettleFinal(gone) /\ file'[r] = "none"
                   /\ job.item = r /\ job.log = {} /\ job.sidecar
<1>a. /\ JobsGood /\ WorkerAlone /\ r \in Items /\ queue \in Seq(Job) /\ inflight \subseteq Job
      /\ file \in [Items -> Contents] /\ TypeOK
  BY DEF IInv, TypeOK, Items
<1>b. ASSUME NEW q \in Reports, NEW content \in Contents, Wrote(q, content)
      PROVE  \/ file'[r] = file[r] /\ (r \in backed' => r \in backed)
             \/ r = q /\ (r \in backed' => r \in backed \/ file'[r] = "whole")
  BY <1>a, <1>b, WroteCases DEF Wrote
<1>1. ASSUME PersistLeftover \/ GiveUp
      PROVE  \/ file'[r] = file[r] /\ (r \in backed' => r \in backed)
             \/ /\ \E job \in Jobs : job.item = r /\ job.log = {} /\ ~ job.sidecar
                /\ r \in backed' => r \in backed \/ file'[r] = "whole"
  <2>1. PICK job \in Jobs : job \in Job /\ Persist(job)
    <3>1. CASE PersistLeftover
      <4>1. queue # <<>> /\ Persist(Head(queue))
        BY <3>1 DEF PersistLeftover
      <4>2. Head(queue) \in Job /\ 1 \in DOMAIN queue /\ Head(queue) = queue[1]
        BY <1>a, <4>1, HeadTailProperties, EmptySeq, LenProperties
      <4>3. Head(queue) \in Jobs
        BY <4>2 DEF Jobs, ToSet
      <4>4. QED
        BY <4>1, <4>2, <4>3
    <3>2. CASE GiveUp
      BY <1>a, <3>2 DEF GiveUp, Jobs
    <3>3. QED
      BY <1>1, <3>1, <3>2
  <2>2. CASE UNCHANGED <<file, backed, cut>>
    BY <2>2
  <2>3. CASE /\ job.item \in Reports /\ job.log = {} /\ ~ job.sidecar
             /\ \E content \in Contents : Wrote(job.item, content)
    BY <1>b, <2>1, <2>3
  <2>4. QED
    BY <2>1, <2>2, <2>3, PersistCases
<1>2. ASSUME NEW gone \in BOOLEAN, SettleFinal(gone)
      PROVE  /\ backed' = backed
             /\ \/ file'[r] = file[r]
                \/ \E job \in inflight :
                      file'[r] = "none" /\ job.item = r /\ job.log = {} /\ job.sidecar
  <2>1. PICK job \in inflight : RemoveSidecar(job, gone) /\ backed' = backed
    BY <1>2 DEF SettleFinal
  <2>2. job.sidecar => job.log = {}
    BY <1>a DEF JobsGood, GoodJob
  <2>3. QED
    BY <1>a, <2>1, <2>2 DEF RemoveSidecar
<1>3. ASSUME Capturing
      PROVE  \/ file'[r] = file[r] /\ (r \in backed' => r \in backed)
             \/ r \notin submitted /\ (r \in backed' => r \in backed \/ file'[r] = "whole")
  <2>1. PICK q \in Reports, content \in Contents : Wrote(q, content) /\ q \notin submitted
    BY <1>3 DEF Capturing, Captured, Ingest
  <2>2. QED
    BY <1>b, <2>1
<1>4. ASSUME \E q \in Reports, torn \in {"empty", "partial"} : CrashInWrite(q, torn)
      PROVE  backed' = backed /\ (file'[r] = file[r] \/ r \notin submitted)
  BY <1>a, <1>4 DEF CrashInWrite
<1>5. ASSUME ~ (PersistLeftover \/ GiveUp), \A gone \in BOOLEAN : ~ SettleFinal(gone),
             ~ Capturing,
             \A q \in Reports, torn \in {"empty", "partial"} : ~ CrashInWrite(q, torn)
      PROVE  UNCHANGED <<file, backed>>
  BY <1>5, ApiCases
     DEF Next, OwnerStep, WorkerStep, Launch, Restore, InitDone, QuitDone, Track, LogLines,
         CaptureOther, Enqueue, BackoffExpires, FlushLog, FindNoneReady, Take, PostReturns,
         ScheduleLogUpload, DropEphemeral, Retry, WorkerExits, Quit, Crash, Over, vars
<1>6. QED
  BY <1>1, <1>2, <1>3, <1>4, <1>5

\* Some job has the whole body of r.
Whole(r) == \E job \in Jobs : job.item = r /\ job.log = {} /\ ~ job.torn

\* That is WholeJobs of Delivery, said without naming them.
LEMMA WholeIsWholeJobs ==
    ASSUME NEW r
    PROVE  (WholeJobs(r) # {} <=> Whole(r)) /\ (WholeJobs(r)' # {} <=> Whole(r)')
BY DEF WholeJobs, Whole, Jobs

\* A whole body comes to memory with its capture, or from a whole file a launch scanned.
LEMMA WholeStep ==
    ASSUME IInv, LogsOfLaunches, Next, NEW r \in Reports, Whole(r)'
    PROVE  Whole(r) \/ r \notin submitted \/ file[r] = "whole"
<1>a. JobsGood /\ inflight \subseteq Job
  BY DEF IInv, TypeOK
<1>1. ASSUME NEW e \in ToSet(queue'), e.item = r, e.log = {}, ~ e.torn
      PROVE  Whole(r) \/ file[r] = "whole"
  <2>1. CASE NewEntry(e)
    <3>1. CASE \E job \in inHand : Enqueue(job) /\ e = job
      BY <1>1, <3>1 DEF Whole, Jobs
    <3>2. CASE \E q \in Reports : Restore(q) /\ e = Restored(q, file[q] = "partial")
      <4>1. PICK q \in Reports : Restore(q) /\ e = Restored(q, file[q] = "partial")
        BY <3>2
      <4>2. q \in restoring /\ q \in submitted
        BY <1>a, <4>1 DEF Restore, JobsGood
      <4>3. e.item = q /\ e.torn = (file[q] = "partial")
        BY <4>1, <4>2, RestoredIsGood
      <4>4. QED
        BY <1>1, <4>2, <4>3 DEF LogsOfLaunches
    <3>3. CASE \E job \in inflight : Retry /\ MayRetry(job) /\ e = Requeued(job)
      BY <1>a, <1>1, <3>3 DEF Whole, Jobs, Requeued, Job
    <3>4. CASE \E granted \in BOOLEAN, job \in inflight :
                  LogAt(job) # {} /\ e = LogUpload(job.item, LogAt(job))
      BY <1>1, <3>4 DEF LogUpload, Post
    <3>5. QED
      BY <2>1, <3>1, <3>2, <3>3, <3>4 DEF NewEntry
  <2>2. CASE \E old \in ToSet(queue) : Alike(e, old)
    BY <1>1, <2>2 DEF Alike, Whole, Jobs
  <2>3. QED
    BY <1>1, <2>1, <2>2, EntriesStep
<1>2. ASSUME NEW job \in inflight', job.item = r, job.log = {}, ~ job.torn
      PROVE  Whole(r)
  <2>1. CASE \E k \in 1 .. MaxQueue : Take(k)
    <3>1. PICK k : k \in 1 .. Len(queue) /\ inflight' = {queue[k]}
      BY <2>1 DEF Take, FirstReady
    <3>2. queue[k] \in ToSet(queue)
      BY <1>a, <3>1, InMemorySubmitted DEF ToSet
    <3>3. QED
      BY <1>2, <3>1, <3>2 DEF Whole, Jobs
  <2>2. CASE \A k \in 1 .. MaxQueue : ~ Take(k)
    <3>1. inflight' \subseteq inflight
      BY <2>2, ApiCases
         DEF Next, OwnerStep, WorkerStep, Launch, Restore, InitDone, PersistLeftover, QuitDone,
             Capturing, Captured, Ingest, Track, LogLines, CaptureOther, Enqueue, BackoffExpires,
             FlushLog, FindNoneReady, PostReturns, SettleFinal, ScheduleLogUpload, DropEphemeral,
             Retry, GiveUp, WorkerExits, CrashInWrite, Dies, Quit, Crash, Over, vars, workerVars,
             Idle
    <3>2. QED
      BY <1>2, <3>1 DEF Whole, Jobs
  <2>3. QED
    BY <2>1, <2>2
<1>3. ASSUME NEW job \in inHand', job.item = r, job.log = {}, ~ job.torn
      PROVE  Whole(r) \/ r \notin submitted
  <2>1. CASE Capturing
    BY <1>3, <2>1 DEF Capturing, Captured, Ingest, Post, Whole, Jobs
  <2>2. CASE \E j \in Items : CaptureOther(j)
    BY <1>3, <2>2 DEF CaptureOther, Post, Whole, Jobs
  <2>3. CASE ~ Capturing /\ \A j \in Items : ~ CaptureOther(j)
    <3>1. inHand' \subseteq inHand
      BY <2>3, ApiCases
         DEF Next, OwnerStep, WorkerStep, Launch, Restore, InitDone, PersistLeftover, QuitDone,
             Track, LogLines, Enqueue, BackoffExpires, FlushLog, Take, FindNoneReady,
             PostReturns, SettleFinal, ScheduleLogUpload, DropEphemeral, Retry, GiveUp,
             WorkerExits, CrashInWrite, Dies, Quit, Crash, Over, vars
    <3>2. QED
      BY <1>3, <3>1 DEF Whole, Jobs
  <2>4. QED
    BY <2>1, <2>2, <2>3
<1>4. QED
  BY <1>1, <1>2, <1>3 DEF Whole, Jobs

-----------------------------------------------------------------------------
(* The invariant *)

\* A whole file goes only behind an answer: the job it backs had a final verdict, and a
\* torn job has no whole file.
LEMMA BackedStep ==
    ASSUME IInv, JobsTrue, Settled, BackedNeverLost, Next
    PROVE  BackedNeverLost'
<1>1. SUFFICES ASSUME NEW r \in Reports, r \in backed' PROVE file'[r] = "whole" \/ r \in answered'
  <2>1. backed' \subseteq Reports
    BY TypeStep DEF TypeOK
  <2>2. QED
    BY <1>1, <2>1 DEF BackedNeverLost
<1>2. answered \subseteq answered' /\ (r \in backed => file[r] = "whole" \/ r \in answered)
  BY AnswersStep DEF BackedNeverLost
<1>3. CASE file'[r] = file[r] /\ (r \in backed' => r \in backed)
  BY <1>1, <1>2, <1>3
<1>4. CASE /\ r \notin submitted \/ \E job \in Jobs : job.item = r /\ job.log = {} /\ ~ job.sidecar
           /\ r \in backed' => r \in backed \/ file'[r] = "whole"
  <2>1. r \notin submitted => r \notin backed
    BY DEF IInv, DiskInv, FilesSubmitted
  <2>2. (\E job \in Jobs : job.item = r /\ job.log = {} /\ ~ job.sidecar) => file[r] = "none"
    BY DEF JobsTrue, TrueSidecar
  <2>3. QED
    BY <1>1, <1>2, <1>4, <2>1, <2>2
<1>5. CASE /\ r \in backed' => r \in backed
           /\ \E gone \in BOOLEAN, job \in inflight :
                SettleFinal(gone) /\ job.item = r /\ job.log = {} /\ job.sidecar
  <2>1. PICK job \in inflight : job.item = r /\ job.log = {}
    BY <1>5
  <2>2. stage = "settle" /\ Conclusive(outcome)
    BY <1>5 DEF SettleFinal
  <2>3. r \in answered \/ file[r] # "whole"
    BY <2>1, <2>2 DEF Settled, JobsTrue, Jobs, TrueSidecar
  <2>4. QED
    BY <1>1, <1>2, <1>5, <2>3
<1>6. QED
  BY <1>3, <1>4, <1>5, FilesStep

\* It holds before the first launch.
LEMMA CustodyInit == Init => CustodyInv
<1>1. ASSUME Init PROVE CustodyInv
  <2>1. IInv
    BY <1>1, InitHolds
  <2>2. ToSet(queue) = {}
    BY <1>1 DEF Init, ToSet
  <2>3. MemoryShape /\ Apart /\ ConcludedGone /\ BackedNeverLost
    BY <1>1 DEF Init, MemoryShape, Apart, ConcludedGone, BackedNeverLost
  <2>4. JobsTrue /\ Settled /\ LogsOfLaunches
    BY <1>1, <2>2 DEF Init, JobsTrue, Jobs, Settled, LogsOfLaunches
  <2>5. QED
    BY <2>1, <2>3, <2>4 DEF CustodyInv
<1>2. QED
  BY <1>1

\* Every step of a launch, a crash or a quit keeps it.
LEMMA CustodyStep == CustodyInv /\ [Next]_vars => CustodyInv'
<1>1. ASSUME CustodyInv, UNCHANGED vars PROVE CustodyInv'
  <2>1. IInv'
    BY <1>1, StepHolds DEF CustodyInv
  <2>2. /\ UNCHANGED <<process, launch, marker, died, inHand, restoring, queue, stage, inflight>>
        /\ UNCHANGED <<outcome, claimed, file, currentLog, previousLog, oldLogJobs, answered>>
        /\ UNCHANGED <<submitted, origin, backed, cut, concluded>>
    BY <1>1 DEF vars, processVars, launchVars, workerVars, logVars, historyVars
  <2>3. MemoryShape' /\ ConcludedGone' /\ Settled' /\ LogsOfLaunches' /\ BackedNeverLost'
    BY <1>1, <2>2 DEF CustodyInv, MemoryShape, ConcludedGone, Settled, LogsOfLaunches, Conclusive,
                      BackedNeverLost
  <2>4. Apart'
    BY <1>1, <2>2 DEF CustodyInv, Apart, IsPost
  <2>5. JobsTrue'
    BY <1>1, <2>2 DEF CustodyInv, JobsTrue, Jobs, TrueSidecar, TrueOrigin
  <2>6. QED
    BY <2>1, <2>3, <2>4, <2>5 DEF CustodyInv
<1>2. ASSUME CustodyInv, Next PROVE CustodyInv'
  BY <1>2, StepHolds, MemoryStep, ApartStep, ConcludedStep, TrueStep, SettledStep, LogsStep,
     BackedStep DEF CustodyInv
<1>3. QED
  BY <1>1, <1>2

\* The invariant holds in every reachable state.
THEOREM CustodyHolds == Spec => []CustodyInv
BY CustodyInit, CustodyStep, PTL DEF Spec

\* A report whose whole body a sidecar write put on disk stays there until the server has
\* answered for it, through overflows, retries, crashes, quits and relaunches.
THEOREM BackedReportsSurvive == Spec => []BackedNeverLost
<1>1. CustodyInv => BackedNeverLost
  BY DEF CustodyInv
<1>2. QED
  BY <1>1, CustodyHolds, PTL

-----------------------------------------------------------------------------
(* Delivery refines ReportCustody, step by step *)

\* A report that is lost stays lost: nothing brings back what was in memory only, and
\* what a restart finds of it is neither accepted by the server nor written again.
LEMMA LostStays ==
    ASSUME CustodyInv, Next, NEW r \in Reports, CustodyOf(r) = "lost"
    PROVE  CustodyOf(r)' = "lost"
<1>a. /\ IInv /\ LogsOfLaunches /\ JobsGood /\ inflight \subseteq Job
  BY DEF CustodyInv, IInv, TypeOK
<1>b. r \in submitted /\ r \notin answered /\ file[r] # "whole" /\ ~ Whole(r)
  BY WholeIsWholeJobs DEF CustodyOf
<1>1. r \notin answered'
  BY <1>b, AnswersStep DEF Whole, Jobs
<1>2. file'[r] # "whole"
  <2>1. ~ \E job \in Jobs : job.item = r /\ job.log = {} /\ ~ job.sidecar
    <3>1. \A job \in Jobs : job.torn => job.sidecar
      BY <1>a, InMemorySubmitted DEF JobsGood, Jobs, GoodJob, ToSet
    <3>2. QED
      BY <1>b, <3>1 DEF Whole
  <2>2. QED
    BY <1>a, <1>b, <2>1, FilesStep
<1>3. ~ Whole(r)'
  BY <1>a, <1>b, WholeStep
<1>4. r \in submitted'
  BY <1>b, ApiCases
     DEF Next, OwnerStep, WorkerStep, Launch, Restore, InitDone, PersistLeftover, QuitDone,
         Capturing, Captured, Ingest, Track, LogLines, CaptureOther, Enqueue, BackoffExpires,
         FlushLog, Take, FindNoneReady, PostReturns, SettleFinal, ScheduleLogUpload,
         DropEphemeral, Retry, GiveUp, WorkerExits, CrashInWrite, Quit, Crash, Over, vars,
         historyVars
<1>5. QED
  BY <1>1, <1>2, <1>3, <1>4, WholeIsWholeJobs DEF CustodyOf

\* Custody taken by the disk ends with an answer only.
LEMMA DurableStays ==
    ASSUME CustodyInv, Next, NEW r \in Reports, CustodyOf(r) = "durable"
    PROVE  CustodyOf(r)' \in {"durable", "closed"}
<1>a. /\ IInv /\ DiskInv /\ r \notin answered /\ file[r] = "whole"
      /\ answered \subseteq answered' /\ JobsTrue /\ Settled
  BY AnswersStep DEF CustodyInv, IInv, CustodyOf
<1>b. r \in submitted
  BY <1>a DEF DiskInv, FilesSubmitted
<1>1. ASSUME NEW gone \in BOOLEAN, SettleFinal(gone), NEW job \in inflight,
             job.item = r, job.log = {}
      PROVE  FALSE
  <2>1. stage = "settle" /\ Conclusive(outcome)
    BY <1>1 DEF SettleFinal
  <2>2. QED
    BY <1>a, <1>1, <2>1 DEF Settled, JobsTrue, Jobs, TrueSidecar
<1>2. ~ \E job \in Jobs : job.item = r /\ job.log = {} /\ ~ job.sidecar
  BY <1>a DEF JobsTrue, TrueSidecar
<1>3. file'[r] = "whole"
  BY <1>a, <1>b, <1>1, <1>2, FilesStep
<1>4. QED
  BY <1>3 DEF CustodyOf

\* A report the SDK has not seen is not answered for, and one it holds stays submitted.
LEMMA SubmittedStep ==
    ASSUME CustodyInv, Next
    PROVE  submitted \subseteq submitted' /\ answered' \subseteq submitted /\ answered \subseteq answered'
<1>1. submitted \subseteq submitted'
  BY ApiCases
     DEF Next, OwnerStep, WorkerStep, Launch, Restore, InitDone, PersistLeftover, QuitDone,
         Capturing, Captured, Ingest, Track, LogLines, CaptureOther, Enqueue, BackoffExpires,
         FlushLog, Take, FindNoneReady, PostReturns, SettleFinal, ScheduleLogUpload,
         DropEphemeral, Retry, GiveUp, WorkerExits, CrashInWrite, Quit, Crash, Over, vars,
         historyVars
<1>2. \A job \in inflight : job.item \in submitted
  BY DEF CustodyInv, IInv, JobsGood, GoodJob
<1>3. QED
  BY <1>1, <1>2, AnswersStep DEF CustodyInv, Settled

\* Each report's custody moves along the edges of ReportCustody.
LEMMA CustodyMoves ==
    ASSUME CustodyInv, Next, NEW r \in Reports
    PROVE  CustodyOf(r)' = CustodyOf(r) \/ <<CustodyOf(r), CustodyOf(r)'>> \in Abstract!Moves
<1>a. \A q : CustodyOf(q)' \in {"unsent", "volatile", "durable", "closed", "lost"}
  BY DEF CustodyOf
<1>b. submitted \subseteq submitted' /\ answered' \subseteq submitted /\ answered \subseteq answered'
  BY SubmittedStep
<1>1. CASE CustodyOf(r) = "lost"
  BY <1>1, LostStays
<1>2. CASE CustodyOf(r) = "durable"
  BY <1>2, DurableStays DEF Abstract!Moves
<1>3. CASE CustodyOf(r) = "closed"
  BY <1>b, <1>3 DEF CustodyOf
<1>4. CASE CustodyOf(r) = "volatile"
  <2>1. r \in submitted
    <3>1. Whole(r) /\ JobsGood
      BY <1>4, WholeIsWholeJobs DEF CustodyOf, CustodyInv, IInv
    <3>2. QED
      BY <3>1, InMemorySubmitted DEF Whole
  <2>2. CustodyOf(r)' # "unsent"
    BY <1>b, <2>1 DEF CustodyOf
  <2>3. QED
    BY <1>4, <1>a, <2>2 DEF Abstract!Moves
<1>5. CASE CustodyOf(r) = "unsent"
  <2>1. r \notin submitted
    BY <1>5 DEF CustodyOf
  <2>2. CustodyOf(r)' # "closed"
    BY <1>b, <2>1 DEF CustodyOf
  <2>3. QED
    BY <1>5, <1>a, <2>2 DEF Abstract!Moves
<1>6. QED
  BY <1>1, <1>2, <1>3, <1>4, <1>5 DEF CustodyOf

\* Delivery implements ReportCustody for every set of payloads, queue bound, file cap
\* and number of launches: durable custody, which begins when the whole body is on disk,
\* ends only with an answer, and nothing lost comes back.
THEOREM CustodyRefined == Spec => RefinesCustody
<1>1. Init => Abstract!Init
  <2>1. ASSUME Init, NEW r \in Reports PROVE CustodyOf(r) = "unsent"
    <3>1. r \in Items /\ ~ Whole(r)
      BY <2>1 DEF Init, Whole, Jobs, ToSet, Items
    <3>2. QED
      BY <2>1, <3>1, WholeIsWholeJobs DEF Init, CustodyOf
  <2>2. QED
    BY <2>1 DEF Abstract!Init
<1>2. CustodyInv /\ [Next]_vars => [Abstract!Step]_([r \in Reports |-> CustodyOf(r)])
  <2>1. ASSUME CustodyInv, Next PROVE Abstract!Step
    <3>1. \A r \in Reports :
             CustodyOf(r)' = CustodyOf(r) \/ <<CustodyOf(r), CustodyOf(r)'>> \in Abstract!Moves
      BY <2>1, CustodyMoves
    <3>2. \A r \in Reports : CustodyOf(r)' \in {"unsent", "volatile", "durable", "closed", "lost"}
      BY DEF CustodyOf
    <3>3. QED
      BY <3>1, <3>2 DEF Abstract!Step, Abstract!Custody
  <2>2. ASSUME UNCHANGED vars PROVE UNCHANGED [r \in Reports |-> CustodyOf(r)]
    <3>1. UNCHANGED <<answered, file, submitted, inHand, queue, inflight>>
      BY <2>2 DEF vars, workerVars, historyVars
    <3>2. QED
      BY <3>1 DEF CustodyOf, WholeJobs
  <2>3. QED
    BY <2>1, <2>2
<1>3. QED
  BY <1>1, <1>2, CustodyHolds, PTL DEF Spec, RefinesCustody, Abstract!Spec

-----------------------------------------------------------------------------
(* What the invariant says of the POSTs and of the logs *)

\* No two places hold the POST of one payload, so it is queued once at most.
LEMMA OnePost ==
    ASSUME IInv, Apart, NEW i, NEW p \in PostsOf(i), NEW q \in PostsOf(i)
    PROVE  p = q
<1> DEFINE Hand(x)     == \E job \in inHand : job.item = i /\ x = <<"hand", job>>
           Restore_(x) == i \in restoring /\ x = <<"restore", i>>
           Queued(x)   == \E n \in DOMAIN queue : IsPost(n, i) /\ x = <<"queue", n>>
           Flight(x)   == \E job \in inflight : job.item = i /\ job.log = {} /\ x = <<"flight", job>>
<1>1. \A x \in PostsOf(i) : Hand(x) \/ Restore_(x) \/ Queued(x) \/ Flight(x)
  BY DEF PostsOf, IsPost
<1>2. \A m, n \in DOMAIN queue : IsPost(m, i) /\ IsPost(n, i) => m = n
  BY DEF Apart, IsPost
<1>3. CASE Hand(p)
  BY <1>1, <1>3 DEF Apart
<1>4. CASE Restore_(p)
  BY <1>1, <1>4 DEF Apart
<1>5. CASE Queued(p)
  BY <1>1, <1>2, <1>5 DEF Apart
<1>6. CASE Flight(p)
  BY <1>1, <1>6 DEF Apart, IInv, WorkerAlone
<1>7. QED
  BY <1>1, <1>3, <1>4, <1>5, <1>6

\* Two copies of a payload never race each other: a retry replaces its attempt, a
\* restored report has no other job, and what the server has answered is not sent again.
THEOREM SentOnceAtATime == Spec => []OneJobPerPayload
<1>1. ASSUME CustodyInv PROVE OneJobPerPayload
  <2>1. ASSUME NEW i \in Items PROVE Cardinality(PostsOf(i)) <= 1
    <3>1. CASE PostsOf(i) = {}
      BY <3>1, FS_EmptySet
    <3>2. CASE PostsOf(i) # {}
      <4>1. PICK p : p \in PostsOf(i)
        BY <3>2
      <4>2. PostsOf(i) = {p}
        BY <1>1, <4>1, OnePost DEF CustodyInv
      <4>3. Cardinality({p}) = 1
        BY FS_Singleton
      <4>4. QED
        BY <4>2, <4>3
    <3>3. QED
      BY <3>1, <3>2
  <2>2. ASSUME NEW i \in concluded, InMemory(i)
        PROVE  stage = "chase" /\ \E job \in inflight : job.item = i
    <3>1. Held(i)
      BY <2>2, HeldIsInMemory
    <3>2. \E job \in inflight : job.item = i /\ job.log = {}
      BY <1>1, <2>2, <3>1 DEF Held, CustodyInv, ConcludedGone, ToSet
    <3>3. QED
      BY <1>1, <2>2, <3>2 DEF CustodyInv, ConcludedGone
  <2>3. QED
    BY <2>1, <2>2 DEF OneJobPerPayload
<1>2. QED
  BY <1>1, CustodyHolds, PTL

\* A report of an earlier launch never uploads this session's log, a report of this
\* session nothing that is preserved and, unless a rotation failed, no older line, and
\* the preserved log is uploaded once a launch.
THEOREM LogsOfTheRightSide == Spec => []FreshLogForFreshReports
<1>1. ASSUME CustodyInv PROVE FreshLogForFreshReports
  <2>1. \A job \in ToSet(queue) \cup inflight : TrueOrigin(job)
    BY <1>1 DEF CustodyInv, JobsTrue, Jobs
  <2>2. oldLogJobs <= 1
    BY <1>1 DEF CustodyInv, LogsOfLaunches
  <2>3. QED
    BY <2>1, <2>2 DEF FreshLogForFreshReports, TrueOrigin
<1>2. QED
  BY <1>1, CustodyHolds, PTL

-----------------------------------------------------------------------------
(* No report disappears without a reason the code accepts *)

\* The entry that leaves the queue, when one does, and how.
LEMMA EntriesStay ==
    ASSUME IInv, Next, NEW old \in ToSet(queue),
           process' # "crashed", Len(queue) # MaxQueue
    PROVE  \/ \E e \in ToSet(queue') : Alike(e, old)
           \/ PersistLeftover /\ old = Head(queue)
           \/ old \in inflight'
<1>a. /\ queue \in Seq(Job) /\ Len(queue) <= MaxQueue /\ JobsGood
      /\ inHand \subseteq Job /\ inflight \subseteq Job
      /\ Len(queue) \in Nat /\ MaxQueue \in Nat
      /\ DOMAIN queue = 1 .. Len(queue)
  BY LenProperties, DeliveryAssumption DEF IInv, TypeOK, DeliveryAssumption
<1>b. Len(queue) < MaxQueue
  <2>1. \A k, m \in Nat : k <= m /\ k # m => k < m
    OBVIOUS
  <2>2. QED
    BY <1>a, <2>1
<1>c. PICK n \in DOMAIN queue : old = queue[n]
  BY DEF ToSet
<1>d. ASSUME NEW job \in Job, queue' = Enqueued(job)
      PROVE  \E e \in ToSet(queue') : Alike(e, old)
  <2>1. \E m \in DOMAIN queue' : queue'[m] = queue[n]
    BY <1>a, <1>b, <1>c, <1>d, EnqueuedRelabels
  <2>2. QED
    BY <1>c, <2>1 DEF ToSet, Alike
<1>e. ASSUME queue' = queue
      PROVE  \E e \in ToSet(queue') : Alike(e, old)
  BY <1>e DEF Alike
<1>1. ASSUME NEW r \in Reports, Restore(r)
      PROVE  \E e \in ToSet(queue') : Alike(e, old)
  <2>1. r \in Items /\ r \in submitted
    BY <1>a, <1>1 DEF Restore, JobsGood, Items
  <2>2. Restored(r, file[r] = "partial") \in Job /\ queue' = Enqueued(Restored(r, file[r] = "partial"))
    BY <1>1, <2>1, RestoredIsGood DEF Restore, GoodJob
  <2>3. QED
    BY <1>d, <2>2
<1>2. ASSUME NEW job \in inHand, Enqueue(job)
      PROVE  \E e \in ToSet(queue') : Alike(e, old)
  BY <1>a, <1>d, <1>2 DEF Enqueue
<1>3. ASSUME NEW granted \in BOOLEAN, ScheduleLogUpload(granted)
      PROVE  \E e \in ToSet(queue') : Alike(e, old)
  <2>1. PICK job \in inflight : ChaseLog(granted, job)
    BY <1>3 DEF ScheduleLogUpload
  <2> DEFINE upload == LogUpload(job.item, LogAt(job))
  <2>2. queue' = queue \/ queue' = Enqueued(upload)
    BY <2>1 DEF ChaseLog
  <2>3. job.item \in submitted \cap Items /\ LogAt(job) \in SUBSET Nat
    BY <1>a DEF JobsGood, GoodJob, Job, LogAt, IInv, TypeOK
  <2>4. upload \in Job
    BY <2>3, LogUploadIsGood DEF GoodJob
  <2> HIDE DEF upload
  <2>5. QED
    BY <1>d, <1>e, <2>2, <2>4
<1>4. ASSUME Retry
      PROVE  \E e \in ToSet(queue') : Alike(e, old)
  <2>1. PICK job \in inflight : MayRetry(job) /\ queue' = Enqueued(Requeued(job))
    BY <1>4 DEF Retry
  <2>2. Requeued(job) \in Job
    BY <1>a, <2>1, RequeuedIsGood DEF JobsGood, GoodJob
  <2>3. QED
    BY <1>d, <2>1, <2>2
<1>5. ASSUME PersistLeftover
      PROVE  old = Head(queue) \/ \E e \in ToSet(queue') : Alike(e, old)
  <2>1. queue # <<>> /\ queue' = Tail(queue)
    BY <1>5 DEF PersistLeftover
  <2>2. /\ Tail(queue) \in Seq(Job) /\ Len(Tail(queue)) = Len(queue) - 1
        /\ \A m \in 1 .. Len(Tail(queue)) : Tail(queue)[m] = queue[m + 1]
    BY <1>a, <2>1, HeadTailProperties
  <2>3. DOMAIN queue' = 1 .. Len(queue) - 1
    BY <2>1, <2>2, LenProperties
  <2>4. CASE n = 1
    <3>1. Head(queue) = queue[1]
      OBVIOUS
    <3>2. QED
      BY <1>c, <2>4, <3>1
  <2>5. CASE n # 1
    <3>1. \A k \in Nat : \A m \in 1 .. k : m # 1 => m - 1 \in 1 .. k - 1 /\ (m - 1) + 1 = m
      OBVIOUS
    <3>2. n - 1 \in 1 .. Len(queue) - 1 /\ (n - 1) + 1 = n
      BY <1>a, <2>5, <3>1
    <3>3. queue'[n - 1] = old
      BY <1>c, <2>1, <2>2, <3>2
    <3>4. QED
      BY <2>3, <3>2, <3>3 DEF ToSet, Alike
  <2>6. QED
    BY <2>4, <2>5
<1>6. ASSUME NEW i \in 1 .. MaxQueue, BackoffExpires(i)
      PROVE  \E e \in ToSet(queue') : Alike(e, old)
  <2>1. i \in 1 .. Len(queue) /\ queue' = [queue EXCEPT ![i].ready = TRUE]
    BY <1>6 DEF BackoffExpires
  <2>2. DOMAIN queue' = DOMAIN queue /\ queue[n] \in Job
    BY <1>a, <2>1, ElementOfSeq
  <2>3. queue'[n] = IF n = i THEN [queue[n] EXCEPT !.ready = TRUE] ELSE queue[n]
    BY <1>a, <2>1
  <2>4. Alike(queue'[n], old)
    BY <1>c, <2>2, <2>3 DEF Alike, Job
  <2>5. QED
    BY <2>2, <2>4 DEF ToSet
<1>7. ASSUME NEW i \in 1 .. MaxQueue, Take(i)
      PROVE  old \in inflight' \/ \E e \in ToSet(queue') : Alike(e, old)
  <2>1. i \in 1 .. Len(queue) /\ queue' = Taken(i) /\ inflight' = {queue[i]}
    BY <1>7 DEF Take, FirstReady
  <2>2. /\ DOMAIN queue' = 1 .. Len(queue) - 1
        /\ \A m \in 1 .. i - 1 : queue'[m] = queue[m]
        /\ \A m \in i .. Len(queue) - 1 : queue'[m] = queue[m + 1]
    BY <1>a, <2>1, TakenEntries
  <2>3. CASE n = i
    BY <1>c, <2>1, <2>3
  <2>4. CASE n < i
    <3>1. \A k \in Nat : \A j, m \in 1 .. k : m < j => m \in 1 .. j - 1 /\ m \in 1 .. k - 1
      OBVIOUS
    <3>2. n \in 1 .. i - 1 /\ n \in DOMAIN queue'
      BY <1>a, <2>1, <2>2, <2>4, <3>1
    <3>3. QED
      BY <1>c, <2>2, <3>2 DEF ToSet, Alike
  <2>5. CASE n > i
    <3>1. \A k \in Nat : \A j, m \in 1 .. k :
             m > j => m - 1 \in j .. k - 1 /\ m - 1 \in 1 .. k - 1 /\ (m - 1) + 1 = m
      OBVIOUS
    <3>2. n - 1 \in i .. Len(queue) - 1 /\ n - 1 \in DOMAIN queue' /\ (n - 1) + 1 = n
      BY <1>a, <2>1, <2>2, <2>5, <3>1
    <3>3. queue'[n - 1] = old
      BY <1>c, <2>2, <3>2
    <3>4. QED
      BY <3>2, <3>3 DEF ToSet, Alike
  <2>6. n = i \/ n < i \/ n > i
    <3>1. \A k \in Nat : \A j, m \in 1 .. k : m = j \/ m < j \/ m > j
      OBVIOUS
    <3>2. QED
      BY <1>a, <2>1, <3>1
  <2>7. QED
    BY <2>3, <2>4, <2>5, <2>6
<1>8. ASSUME Crash \/ \E r \in Reports, torn \in {"empty", "partial"} : CrashInWrite(r, torn)
      PROVE  FALSE
  BY <1>8 DEF Crash, CrashInWrite, Dies
<1>9. ASSUME \/ \E usable, logs \in BOOLEAN : Launch(usable, logs)
             \/ InitDone \/ QuitDone \/ Quit \/ WorkerExits \/ Over
             \/ FlushLog \/ FindNoneReady
             \/ Capturing \/ Track \/ LogLines
             \/ \E i \in Items : CaptureOther(i)
             \/ \E verdict \in {"delivered", "poison", "transient"}, reached \in BOOLEAN :
                    PostReturns(verdict, reached)
             \/ \E gone \in BOOLEAN : SettleFinal(gone)
             \/ DropEphemeral
             \/ GiveUp
      PROVE  queue' = queue
  BY <1>9 DEF Launch, InitDone, QuitDone, Quit, WorkerExits, Over, vars, FlushLog,
              FindNoneReady, Capturing, Captured, Ingest, Track, LogLines, CaptureOther,
              PostReturns, SettleFinal, DropEphemeral, GiveUp
<1>10. QED
  BY <1>e, <1>1, <1>2, <1>3, <1>4, <1>5, <1>6, <1>7, <1>8, <1>9, ApiCases
     DEF Next, OwnerStep, WorkerStep

\* A step that takes the whole POST of r out of memory.
Disappears(r) == Whole(r) /\ ~ Held(r)'

\* What the final write of a whole body could still miss: a disk that took nothing, now
\* or, behind a path, earlier.
LEMMA LastWrite ==
    ASSUME CustodyInv, NEW job \in Jobs, job.item \in Reports, job.log = {}, ~ job.torn,
           Persist(job), file'[job.item] # "whole", job.item \notin answered
    PROVE  "none" \in WriteResults(job.item) \/ job.item \in cut'
<1>a. /\ file \in [Items -> Contents] /\ job.item \in Items
      /\ job.sidecar \in BOOLEAN /\ cut \subseteq Reports /\ TrueSidecar(job)
  BY InMemorySubmitted DEF CustodyInv, IInv, TypeOK, Items, Job, JobsGood, GoodJob, JobsTrue
<1>1. CASE job.sidecar
  <2>1. file[job.item] = "whole" \/ job.item \in cut
    BY <1>a, <1>1 DEF TrueSidecar
  <2>2. file' = file /\ cut' = cut
    BY <1>1 DEF Persist, MayPersist
  <2>3. QED
    BY <2>1, <2>2
<1>2. CASE ~ job.sidecar
  <2>1. MayPersist(job)
    BY <1>2, DeliveryAssumption DEF MayPersist, DeliveryAssumption
  <2>2. PICK content \in WriteResults(job.item) : Wrote(job.item, content)
    BY <2>1 DEF Persist
  <2>3. content \in {"none", "empty", "partial", "whole"}
    BY DEF WriteResults
  <2>4. CASE content = "none"
    BY <2>2, <2>4
  <2>5. CASE content = "whole"
    BY <1>a, <2>2, <2>5 DEF Wrote
  <2>6. CASE content \in {"empty", "partial"}
    BY <1>a, <2>2, <2>6 DEF Wrote
  <2>7. QED
    BY <2>3, <2>4, <2>5, <2>6
<1>3. QED
  BY <1>1, <1>2

\* One step: a whole report leaves memory unanswered and unwritten only in a crash, from
\* a full queue, on a disk that takes no file, or behind a path of less than its body.
LEMMA LossStep ==
    ASSUME CustodyInv, Next, NEW r \in Reports, Disappears(r),
           file'[r] # "whole", r \notin answered',
           process' # "crashed", Len(queue) # MaxQueue
    PROVE  \/ (process = "persisting" \/ GiveUp) /\ "none" \in WriteResults(r)
           \/ r \in cut'
<1>a. /\ IInv /\ JobsGood /\ WorkerAlone /\ r \in Items /\ r \notin Beats
      /\ queue \in Seq(Job) /\ inflight \subseteq Job /\ r \notin answered
      /\ Len(queue) <= MaxQueue /\ inHand \subseteq Job
  BY AnswersStep, DeliveryAssumption
     DEF CustodyInv, IInv, TypeOK, Items, DeliveryAssumption
<1>b. ASSUME NEW job \in Job, queue' = Enqueued(job), job.item = r, job.log = {}
      PROVE  FALSE
  <2>1. job \in ToSet(queue')
    BY <1>a, <1>b, EnqueuedRelabels DEF ToSet
  <2>2. QED
    BY <1>b, <2>1 DEF Disappears, Held
<1>1. CASE \E job \in inHand : job.item = r /\ job.log = {} /\ ~ job.torn
  <2>1. PICK job \in inHand : job.item = r
    BY <1>1
  <2>2. job \notin inHand' /\ job.log = {}
    BY <2>1 DEF Disappears, Held, CustodyInv, MemoryShape
  <2>3. Enqueue(job)
    <3>1. CASE \E other \in inHand : Enqueue(other)
      BY <2>2, <3>1 DEF Enqueue
    <3>2. CASE \A other \in inHand : ~ Enqueue(other)
      <4>1. inHand \subseteq inHand'
        BY <3>2, ApiCases
           DEF Next, OwnerStep, WorkerStep, Track, LogLines, Launch, Restore, InitDone,
               PersistLeftover, QuitDone, Capturing, Captured, Ingest, CaptureOther, BackoffExpires, FlushLog,
               Take, FindNoneReady, PostReturns, SettleFinal, ScheduleLogUpload, DropEphemeral,
               Retry, GiveUp, WorkerExits, CrashInWrite, Dies, Quit, Crash, Over, vars
      <4>2. QED
        BY <2>2, <4>1
    <3>3. QED
      BY <3>1, <3>2
  <2>4. QED
    BY <1>a, <1>b, <2>1, <2>2, <2>3 DEF Enqueue
<1>3. CASE \E e \in ToSet(queue) : e.item = r /\ e.log = {} /\ ~ e.torn
  <2>1. PICK e \in ToSet(queue) : e.item = r /\ e.log = {} /\ ~ e.torn
    BY <1>3
  <2>2. ~ \E new \in ToSet(queue') : Alike(new, e)
    BY <2>1 DEF Disappears, Held, Alike
  <2>3. e \notin inflight'
    BY <2>1 DEF Disappears, Held
  <2>4. PersistLeftover /\ e = Head(queue)
    BY <1>a, <2>2, <2>3, EntriesStay
  <2>5. process = "persisting" /\ Persist(e)
    BY <2>4 DEF PersistLeftover
  <2>6. e \in Jobs
    BY DEF Jobs
  <2>7. QED
    BY <1>a, <2>1, <2>5, <2>6, LastWrite
<1>4. CASE \E job \in inflight : job.item = r /\ job.log = {} /\ ~ job.torn
  <2>1. PICK job \in inflight : job.item = r /\ job.log = {} /\ ~ job.torn
    BY <1>4
  <2>2. job \notin inflight' /\ (\A other \in inflight : other = job) /\ job \in Jobs
    BY <1>a, <2>1 DEF Disappears, Held, WorkerAlone, Jobs
  <2>3. CASE GiveUp
    BY <1>a, <2>1, <2>2, <2>3, LastWrite DEF GiveUp
  <2>4. CASE Retry
    <3>1. MayRetry(job) /\ queue' = Enqueued(Requeued(job))
      BY <2>2, <2>4 DEF Retry
    <3>2. Requeued(job) \in Job
      BY <1>a, <3>1, RequeuedIsGood DEF JobsGood, GoodJob
    <3>3. Requeued(job).item = r /\ Requeued(job).log = {}
      BY <1>a, <2>1 DEF Requeued, Job
    <3>4. QED
      BY <1>b, <3>1, <3>2, <3>3
  <2>5. CASE \E gone \in BOOLEAN : SettleFinal(gone)
    BY <1>a, <2>1, <2>5 DEF SettleFinal, CustodyInv, Settled
  <2>6. CASE \E granted \in BOOLEAN : ScheduleLogUpload(granted)
    BY <1>a, <2>1, <2>6 DEF ScheduleLogUpload, CustodyInv, Settled
  <2>7. CASE DropEphemeral
    BY <1>a, <2>1, <2>2, <2>7 DEF DropEphemeral
  <2>8. CASE \E i \in 1 .. MaxQueue : Take(i)
    BY <2>1, <2>8 DEF Take, CustodyInv, MemoryShape
  <2>9. CASE /\ ~ (GiveUp \/ Retry \/ DropEphemeral)
             /\ \A gone \in BOOLEAN : ~ SettleFinal(gone)
             /\ \A granted \in BOOLEAN : ~ ScheduleLogUpload(granted)
             /\ \A i \in 1 .. MaxQueue : ~ Take(i)
    <3>1. inflight' = inflight
      BY <2>9, ApiCases
         DEF Next, OwnerStep, WorkerStep, Track, LogLines, Launch, Restore, InitDone,
             PersistLeftover, QuitDone, Capturing, Captured, Ingest, CaptureOther, Enqueue, BackoffExpires,
             FlushLog, FindNoneReady, PostReturns, WorkerExits, CrashInWrite, Dies, Quit, Crash,
             Over, vars, workerVars
    <3>2. QED
      BY <2>1, <2>2, <3>1
  <2>10. QED
    BY <2>3, <2>4, <2>5, <2>6, <2>7, <2>8, <2>9
<1>5. QED
  BY <1>1, <1>3, <1>4 DEF Disappears, Whole, Jobs

\* A report that leaves memory unanswered and is not whole on disk was lost to a crash,
\* to the bounded queue, to a disk that takes no file, or behind a path that write()
\* returned for less than its body.
THEOREM LossHasAReason == Spec => NoSilentLoss
<1> DEFINE Reasoned(r) ==
             (WholeJobs(r) # {} /\ ~InMemory(r)' /\ file'[r] # "whole" /\ r \notin answered') =>
                \/ process' = "crashed"
                \/ Len(queue) = MaxQueue
                \/ (process = "persisting" \/ GiveUp) /\ "none" \in WriteResults(r)
                \/ r \in cut'
<1>1. CustodyInv /\ Next => \A r \in Reports : Reasoned(r)
  BY LossStep, HeldIsInMemory, WholeIsWholeJobs DEF Disappears
<1>2. CustodyInv /\ [Next]_vars => [\A r \in Reports : Reasoned(r)]_vars
  BY <1>1
<1>3. QED
  BY <1>2, CustodyHolds, PTL DEF Spec, NoSilentLoss
=============================================================================

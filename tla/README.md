# A verification project for tombstack-native

TLA+ models of the Tombstack native SDK (`src/`, a C++ crash, bug-report and
telemetry client with a C ABI), the TLC runs that check them on small
instances, and TLAPS proofs, for every instance, about the delivery of reports,
the telemetry path, the heartbeats, the detection of deaths and the capture of
lines, breadcrumbs and duplicates.

The SDK is a multithreaded client inside a game that may be killed at any
moment. What it must get right is not any one function but what is left when
threads interleave, the queue overflows, the server fails to answer, the
process dies, and the next launch picks up the pieces. That is what the models
are about.

## 1. The system

| Part | State | Operations | Works with |
| --- | --- | --- | --- |
| C API (`tombstone_api.cpp`) | `g_client`, `g_preinit`, `g_client_mutex` | init, shutdown, one entry point per call; a call holds the client it started with | Client, PreInitStore |
| PreInitStore (`preinit.*`) | bounded breadcrumbs and tracks, last-write-wins settings | buffer, replay, clear | C API |
| Client lifecycle (`client.cpp`) | consent, storage flag, marker and dump of the last run, `has_restored_crash_` | init, configure_storage, drain_sidecars, start_session_tracking, `~Client` | everything below |
| Ingest front end (`client_reports.cpp`) | identity, consent | report_crash, report_bug, track_*, log_line, add_breadcrumb, enqueue_ingest | BreadcrumbRing, DedupeWindow, SessionLog, SidecarQueue, Worker, Batch |
| Worker (`worker.*`) | `queue_` (256, drop oldest), `in_flight_`, `previous_log_claimed_`, `running_` | enqueue, run, process, retry, log chase, flush, stop | transport, SidecarQueue, SessionLog |
| SidecarQueue (`sidecar_queue.*`) | `pending/<kind>/*.json`, at most 64 per kind | write, remove, scan | the disk |
| Heartbeats (`client.cpp`) | merge marker, device flags, metadata baseline and epoch, each with an in-flight record | heartbeat_loop, handle_heartbeat_ack, set_user, set_device, set_user_metadata | Worker, four mutexes and two atomics |
| Log pulls (`client.cpp`, `worker.cpp`, `json_scan.*`) | none of its own: requests come in an ack, fulfilments and uploads are jobs | request_player_logs, handle_heartbeat_ack, schedule_log_upload | Worker, JSON, the identity and the match context |
| SessionMarker (`session_marker.*`) | `session.lock` | take_previous, write, remove | Client |
| Native crash (`native_crash.*`) | the module table, `g_in_handler`, the old actions, `native-crash.dump` | install, the signal handler, parse_dump, take_previous | Client, the handlers of others |
| SessionLog (`session_log.*`) | pending text and its overflow count, `session.log`, `previous-session.log` | append, flush_now (take, write, trim), rotate, read | front end, Worker, Client |
| Batch, StartGate (`batch.*`, `start_gate.h`) | bounded items, age; a one-way latch | add, drain, arm, set | Worker's drainer |
| BreadcrumbRing, DedupeWindow | a fixed ring; a bounded map of signatures | add, snapshot, clear; check | front end |
| JSON writer and scanners, payloads, retry_after | none | escape, find_pending_requests, find_log_upload, retry_delay | log pulls, Worker |
| Sampler, FrameAccumulator | rates; one window of statistics | keep; sample, take | front end |
| Signatures, device identity, transport, platform, sdk_log | none that matters here | conversions and I/O | |

`PROJECT.json` lists each with its status; `hazards` there lists what in this
code is hard to test, at its line, with the properties aimed at it.

Threads: any number of API callers, the heartbeat thread, the worker, and the
thread that runs `tombstone_init` and `~Client`; any of them may run the signal
handler. Outside them: the server, the disk, the kernel, and the death of the
process.

What each must get right: custody of a report passes from memory to disk to
the server and is never dropped between; a beat's carry is retired only by the
ack of what it carried; exactly one report for a session that died, none for
one that ended; an item is in one place from the call to the wire; a log line is
in one file, in order, or accounted for as dropped; what was gathered before a
revocation is not attached after the next grant; a dump says what happened to
the first crash and the process still dies; an answer of the server is read as
written or not at all, and answered for the player it was about.

## 2. The modules

### `ReportCustody` - what the SDK promises about a report

One variable: who has custody of each crash or bug report (`unsent`,
`volatile`, `durable`, `closed`, `lost`). Durable custody begins when the whole
body is on disk, not when `write()` returns a path, and ends only with an
answer of the server; what is lost stays lost; a volatile report may become
durable at its last chance. No queue, file or launch appears.

### `Delivery` - worker, sidecars, launches

The detailed module, which refines `ReportCustody` (`RefinesCustody`, with the
mapping `CustodyOf`). One action per step that another thread or a crash can
come between:

- `CaptureReport` is `enqueue_ingest` (`Ingest`) up to and including the sidecar
  write, `Enqueue` the rest of it: a crash, a full disk, or other callers fit
  between. `CrashInWrite` is a death inside the write; it leaves an `empty` or a
  `partial` file. `CaptureOther` stands for batch envelopes, fulfilments and
  heartbeats, which never touch the disk.
- A write of a live process has four results (`WriteResults`): no file and no
  path, when the directory is full or the file cannot be opened, or a path over
  an `empty`, a `partial` or a `whole` file, as nobody checks `write()` and
  `close()` (`sidecar_queue.cpp:100-102`). The history sets `backed` and `cut` say
  for which reports a write put the whole body on disk, and for which less than
  it; the job's `sidecar` says only that a path was returned.
- `Track` and `TrackAndReport` are `start_session_tracking`, once a launch: at
  the end of init or at a later consent (`MayTrack`). It writes the `marker` of
  this launch; when the last run left its own behind and no crash was restored
  (`died`), it captures the report of that death, with the log of that run.
- `Launch`, `Restore`, `InitDone` are `configure_storage`, the iterations of
  `drain_sidecars`, and publication. `Launch` rotates the log: `RotatedLogs` has
  the rename that fails and leaves the old lines in `session.log`, before and
  after the old `previous-session.log` is removed. `Quit`, `WorkerExits`,
  `PersistLeftover`, `QuitDone` are `~Client`: `running_` cleared, the thread
  joined, leftovers persisted one by one, the marker removed. `Crash` drops
  everything in memory at any time.
- `LogLines` puts the first lines of this launch into `session.log`. Of a log file
  the model keeps the set of launches that have lines in it, as nothing else
  decides whose log a report uploads; `asks` are the reports sent with
  `request_log`.
- `Take`, `PostReturns`, `SettleFinal`, `ScheduleLogUpload`, `DropEphemeral`,
  `Retry`, `GiveUp`, `BackoffExpires` are the worker: the queue is taken in
  order but past entries that wait; the POST and the handling of its answer
  are two steps, so that the server has the report and the client does not
  know. `FlushLog` is the paced flush of the session log: the worker leaves the
  mutex for it after it has tested `running_`, so that it may still take a job
  (or `FindNoneReady`) once `stop` has cleared the flag.

A payload is a model value; a job keeps the fields decisions are made on. Time
is one Boolean per job (`ready`). A sidecar is the item's file state; a job made of
a `partial` one is `torn`. The server's verdict is any of delivered, rejected,
transient; a transient verdict may hide an accepted payload; a torn body is never
accepted.

### `Heartbeat` - what a beat carries until it is acked

The merge marker, the device and the metadata map, with the client's record of
what is in flight for each. The heartbeat thread builds a beat in six steps,
one per lock or atomic (`SnapshotUser` .. `EnqueueBeat`); the ack handler is
four (`AckDevice`, `AckDeviceSent`, `AckPrior`, `AckMap`); `set_device` is its
store and then two stores (`Arm`). `set_user` is one step, because it holds
both mutexes throughout. History variables say in which login a marker was
stamped, whether a beat built since has told the server, which login a map
belongs to, and which races have occurred (`mishaps`). A beat the queue drops,
or one whose POST fails, is `Lost`: for the carry the two are the same.

### `UncleanShutdown` - who is reported as dead

Marker, dump, restored crash sidecars, and the order in which init, tracking,
`~Client`, a signal and a kill touch them. A session is one `Client`; a process
may run several, one after the other, and the destructor of one may run after
the init of the next, since an API call keeps the client alive. Tracking starts
at init or at any later `set_consent(1)`. Storage is usable, detection is on,
and sidecar writes succeed (`Delivery` has those failures).

### `Telemetry` - from a call to an envelope on the wire

`track_event` and `track_metric` through the C interface, the pre-init store,
the two batches, the start gate, the queue and the worker, for several clients
one after the other.

- A call is `Call` (`client_snapshot`, under `g_client_mutex`), then what it
  does with the client it holds, then `Return`. A call that met no client takes
  the second look of `with_client_or_buffer`: `Buffer` or `Retake`. `InitClient`,
  `ReplayConsent`, `ReplayTrack`, `ReplayStart` and `Publish` are
  `tombstone_init`, which holds the mutex from its test to the publication
  (`MutexFree`), while the new client's worker already runs.
- `TrackPasses` and `TrackAdds` are the consent test and the add of the batch,
  two steps because no lock spans them.
- A drain is the same three actions (`DrainEvents`, `DrainMetrics`,
  `EnqueueNext`) for every actor that performs one: the worker between jobs,
  `tombstone_flush`, the pre-flush of `report_crash`, and the destructor. Cutting
  a batch into envelopes is atomic, queueing them is not.
- `Shutdown` unpublishes; the last thread that lets the client go runs
  `~Client` (`QuitStops`, `QuitJoins`), whichever call it was in.
- `HeartbeatSent` is a beat of `heartbeat_loop`, while there is consent, the gate
  is open and the destructor has not stopped the thread (`HeartbeatRuns`). It is
  signed like an envelope and never retried, so it takes the queue's room and
  the worker's time, and its round trip is measured. What a beat carries is
  `Heartbeat`'s.
- `PostDelivered` adds the round-trip metric of the upload, be it of events or a
  beat; an upload of metrics suppresses its own.

Items are numbered as they are accepted, and a number has a size in bytes
(`ItemBytes`), by which a batch is cut: one that fits, one that fills an
envelope with another but not with the comma between, one too large for any.
`Bytes` and `Envelopes` are functions defined by recursion over the items, as
`drain_locked` takes them from the front one by one (`Packed` is its loop body).
`Worker::wake` is left out: the worker's wait ends within a second
anyway, and in the model at any time. Reports, sidecars and logs are
`Delivery`'s.

### `PreInit` - what is chosen and captured before init

All of the pre-init store, in one process and without races (those are
`Telemetry`'s): each call (`SetterCall`, `CaptureCall`) goes to the client or
is remembered (`Remember`), and `TombstoneInit` builds a client from its options
and applies `Replay`, the calls of `replay_preinit` in their order. Beside it
runs, as history, the client that would have existed had the game called init
first, for every choice of the options (`ideal`): the same calls, in the order
they were made. `ReplayIsLive` compares the two when init publishes.

### `SessionLog`, `Capture` - lines, breadcrumbs, consent, duplicates

`SessionLog` is the state and the steps of the log; `Capture` extends it with
the calls that use it and what else they share. A call takes several locks one
after the other and holds none between, so each is a step:

- `LogLine`, `AddBreadcrumb`, `ReportBug`, `ReportCrash` pass the consent gate
  (`Begin`). `ReadClock` and `Check` are `report_crash` at the dedupe window: the
  clock is read before the lock is taken. `AppendLog` is `append`,
  `RecordBreadcrumb` the ring, `Enqueue` the body with its trail.
- `TakeChunk` and `PutChunk` are the two halves of `flush_now`, under two locks,
  for whoever flushes: a report with a log, `tombstone_flush`, the worker's
  paced flush (`BeginFlush`), an upload that reads the log (`BeginUpload`), the
  destructor (`BeginQuit`, `EndQuit`). `PutChunk` writes and trims (`WriteChunk`),
  or something fails (`WriteFails`): the append does not open, or takes a part of the
  chunk and counts it whole; the trim behind it cannot read the file, cannot
  reopen it, or has truncated it and writes a part of what it kept. None of it is
  checked, and the process lives on.
- `Exchange` and `Purge` are `set_consent`: the flag, then the ring.
- `Relaunch` is the end of the process at any point and the rotation by the
  next; a death inside a trim leaves the file empty (`TornTrim`).

Sizes count lines. A line carries its number and the flush that took it, a
crumb the revocations before its capture began and whether one came since: all
history. `Budgets` are the scenarios explored; each bounds every kind of event.

### `NativeDump`, `NativeCrash` - the handler in a dying process

`NativeDump` is the text: the module table as captured at install
(`AddImage`, `ReadBuildId`), the writes of one crash (`DumpWrites`) and the parser
of the next launch (`ParseDump`). A text is a sequence of symbols, with spaces,
line ends and digits of their own, so that it can be cut at each of them; a
keyword and a word of a path are one symbol, taken whole or not at all.

`NativeCrash` runs the handler in several threads: `TestAndSet` is the guard,
`Write` one `write_all`. Each write is tried whatever came of the last; the dump
is the sequence of what the disk took of each: all of it, nothing while it is
full, or a part when it fills up within (`fills` bounds how often; room may come
back between two writes). So a dump may end early, end within a line, or have a
hole. `Chain` is the hand-off to the handler installed before,
`OldHandlerEnds` what that does, `Reraise` the end. `Fault` and `Return` are the
kernel's rules (external), which the handler is built on: a signal is blocked in
its own handler, one raised while blocked waits, a faulting instruction faults
again. An old handler returns, exits, or crashes itself.

`ParsedIsWritten` promises of a dump what the code can keep: every line that was
complete before the first loss is read as written, of an image its own base and
its own build id, and never a frame more than the crash has. Where the end alone
is lost, the cut line says nothing or the first digits of its number. What it does
not promise is in section 4.

### `JsonText`, `Retry`, `PullRequests` - reading the server, and answering it

`JsonText` has the writer and the scanners as operators over symbol sequences
(a word without JSON's own characters is one symbol). A character beyond the
first plane is one symbol as itself and two when it is escaped: `\u` escapes of a
surrogate pair are read half by half, as `append_utf8` does. A form's field names
and values are refused beyond their limits. `Retry` has the parsing of
`Retry-After` and the ladder of delays. `PullRequests` puts them to work:
`RequestPlayerLogs` asks, `BeatIsPosted` gets the answer that lists the open
requests, `ScanAck` and `Fulfill` are `handle_heartbeat_ack` (consent and user
are read before the match context, with calls of the game between; the nonce is
clamped to its limit, the identity was when it was set), `FulfillIsPosted` gets
the grant, `ScheduleLogUpload` reads it, `LogIsPosted`
uploads. The server and the network are external: the server writes the same
values in three styles (compact, with white space, with every special
character as `\u`), an answer may be cut at any symbol, and a POST may fail
before or after it was handled. Whether a delay is over is open, as time is
not modelled.

### The proof modules

`DeliveryProofs`, `HeartbeatProofs`, `UncleanProofs`, `CaptureProofs`,
`TelemetryProofs`, `NativeCrashProofs` and `PullRequestsProofs` each extend the
module they are about. `DataInduction` has induction over the numbers and
recursion on them, which `TelemetryProofs` needs for the cut of a batch,
`PullRequestsProofs` for the requests picked from a list and `CaptureProofs` for
the sum of what the overflow markers announce. Each begins with its inductive
invariant, then has the lemmas about the operators, one step lemma per part of
the invariant or per action, and the theorems.

## 3. The runs

| Run | Instance | Question |
| --- | --- | --- |
| `delivery` | 2 crash reports, writes of one may fail, 1 envelope, queue 1, 2 attempts, 1 file per kind, 2 launches, a rotation that may fail; 2,486,576 states | nothing that is whole on disk is lost; one job per payload, and none once it has its verdict; only reports on disk; logs go with the right side of the restart, the previous one once; losses only for named reasons; refinement |
| `delivery_liveness` | 1 bug report, 1 envelope, 1 heartbeat, queue 2, 1 launch, failing disk | a quit ends; nothing stays in memory for ever |
| `delivery_log_owner` | 1 report, 3 launches | violated: a restored report does not always get the log of its own run |
| `heartbeat` | 2 users, 2 devices, 1 map, 2 beats outstanding, 4 calls | what stops being carried has been delivered, outside the named races; nothing of one player rides the beat of another |
| `heartbeat_liveness` | 1 user, 1 device, 1 map, 2 beats, 3 calls | everything carried is acked in the end |
| `unclean` | 3 sessions, native handler | who is reported as dead, how often, as what |
| `telemetry` | 2 game threads, 2 clients, 4 calls and beats, 2 attempts; 648,365 states | every item in one place; nothing stranded before init; capture order; the gate; what a flush promises; what the last call or beat sets off comes to an end |
| `preinit` | 2 users, 1 environment, 1 map, crumbs, tracks and ring of 2, 6 calls | the client published by init is the one the calls would have made live |
| `capture` | 2 game threads and the worker; buffer 2, file 3 trimmed to 2, ring 2, 1 tracked signature, window 2; seven scenarios; 1,103,432 states | every line in one place or accounted for; the order of the files; what an ended call leaves behind; the trail after a revocation; the dedupe window |
| `native_crash` | 2 threads, 5 images and a table of 3, 5 crashes in 12 plans, 4 old handlers, a disk that fills within any write of a single crash; 81,627 states | what the dump has before the first loss is read as written, and is of the first crash; the old handler is called; the process dies of its signal |
| `pull` | 5 requests, 4 scanned, 3 styles, 5 answers (a grant or none), 6 `Retry-After` headers, 5 attempts; four scenarios; 50,034 states | an answer is read as written; a fulfilment is for the player, session, match or server it was asked of; a log goes where it was granted; a retry is late enough |
| `pull_consent` | one call, one beat, one failure | violated: a revocation does not reach what an ack has started |

The bounds, and why they show the interesting cases. A queue of one with three
payloads, retries and log uploads overflows at every enqueue (positions in the
queue, and an entry taken past one that waits, are for the queue of two in
`delivery_liveness`). Two attempts give both a retry and a give-up. One file per
kind with two crash reports fills the directory, also by a torn file that stays;
writes fail for one of the two, as the other shows what a directory filled by a
torn file does to a good one. Two launches give a crash and a restart after
every prefix, with a rotation that works or fails between; the third launch in
`delivery_log_owner` is what its question needs. Two outstanding beats are
enough for one to be lost or acked while another is built or queued; four calls
fit login, logout, login and one more. Three sessions give a finder, a victim
and one before it. In `telemetry` the batch, the store and the queue hold two,
the count trigger fires at two and an envelope has room for one or two items by
their size in bytes, so that four calls fill each of them, split a batch and
overflow the queue by one drain; two clients let the destructor of one run
beside the init of the next; the second thread is what an init, a flush or a
shutdown is raced by. In `preinit`, six calls fit two logins with a map between
them, or three captures, which overflow the buffers, around a change of consent,
and a shutdown with calls behind it.

In `capture`, a crash entry alone fills the buffer, the file is trimmed by the
second chunk, and three flushes can be between their two locks at once; the
scenarios (`MCBudgets`) each give one group of components the calls, faults and
deaths it needs: the log against deaths and failing writes, four lines against
three flushes with two faults, so that a trim fails and the process goes on to
write, trim and rotate again, five lines against four flushes, the ring through
two revocations, a consent change inside `report_crash`, and four crashes of two
signatures against a window of two ticks and room for one signature. In
`native_crash`, the images are one of two segments with a gap, one that is not
loaded but has a build id, one without an id, which finds that one in its slot,
one with a space in its name, and one the table has no room for; the addresses
are the first and last of an image and just outside. In `pull`, one request
targets each kind of thing, that for the server lacks its nonce and the last one
its target; the values hold quotes, brackets, backslashes, a control character
and a surrogate pair, one nonce is longer than its limit and so is one form
field; a list longer than the scanner takes is the fifth request; the
`Retry-After` headers are a number, a padded one, one above the cap, one of more
than nine digits, a date and none; the last scenario exhausts the attempts.
Constants of the code that are in no one's way (`MaxRetryAfterSeconds`, the
ladder) keep their value.

Every bound is a constant; `MaxCalls`, `MaxLaunches`, `MaxSessions`,
`MaxOutstanding` and `Budgets` bound the exploration only. Users (also in `preinit`),
devices, the game threads of `capture` and signatures are symmetric in the safety runs;
the crash reports of `delivery` are not, as writes fail for one of them.
Deadlock is checked in every run: `Over` (or `Rest`) is the one state in which
nothing more happens.

Fairness. In `Delivery`: the worker, the thread that runs init and the
destructor, and an API call already inside `enqueue_ingest` are scheduled, and
each backoff passes; every POST ends because the transport has a timeout (15 s,
30 s for logs). Nothing is assumed of the server's answers, the disk, or the
moment a process ends. In `Heartbeat`, the threads are scheduled and, for
`CarryConverges` only, a server asked again and again answers in the end
(strong fairness of `Delivered`): without it a beat may be lost for ever. In
`Telemetry`, a call in progress and the worker are scheduled, the oldest item of
a batch gets old, and the worker takes a job again and again ready to be taken
(strong fairness of `WorkerTakes`: a backoff is finite, and the worker looks at
the queue on every turn, which weak fairness does not see). No call has to be
made, and no beat: a live client with consent beats for ever, each beat delivered
adds a metric, and so such a client never rests. `ComesToRest` therefore speaks of
what the last call or beat sets off (`MaxCalls` bounds both): that the chain of
uploads and their round-trip metrics ends. In `NativeCrash`, the
kernel runs every thread; `Capture`, `PreInit` and `PullRequests` state safety only.

## 4. What the violated runs say

Each of the two checks a sentence of a comment, quoted in `findings`, and
TLC's trace shows an execution of the code that contradicts it.

- `previous-session.log` is the log of the launch before. In the trace a bug report
  is captured in launch 1, which dies; launch 2 restores it, logs lines and dies
  before it is delivered; launch 3 restores and delivers it, and uploads the log of
  launch 2 for it.
- `handle_heartbeat_ack` looks at the consent once. In the trace the consent is
  revoked after that, and the worker takes the fulfilment to post all the same. (That
  its answer then grants an upload and the session log follows is in the code, and
  in the model, not in this trace.)

More sentences of the comments and the header are stated as properties of the
models and do not hold there. They have no run, since the passing runs check
what does hold next to them; the cfg named, with the MC module of its component,
gives an execution.

| Definition | Cfg | What happens |
| --- | --- | --- |
| `DeviceRearmed` (`client.cpp:731`) | `HeartbeatDevice.cfg` | the device flag is raised after the snapshot (`client.cpp:467-472`, `505-507`), and a `set_device` in between is undone: the ack of the old specs marks the new ones as sent |
| `NoClobberedMarker` (`client.cpp:549-551`) | `HeartbeatMarker.cfg` | the guard against a late ack compares two equal ids when the player logs out and in again |
| `LoginVoidsCommit` (`client_reports.cpp:52-53`) | `HeartbeatLogin.cfg` | the user of a beat and the epoch of its metadata are read under two locks |
| `PersistedCannotBeLost` (`client_reports.cpp:116`: "Persisted BEFORE the first attempt so a quit/crash cannot lose it") | `DeliveryShortWrite.cfg` | `write()` returns the path of an empty or cut file (`sidecar_queue.cpp:100-102`); at the give-up or the quit the report has a path and is not offered to the disk again |
| `SuppressedIsRepresented` (`client.cpp:331-335`) | `UncleanRestored.cfg` | `has_restored_crash_` is set by a crash of any session |
| `ShutdownIsNotReported` (`tombstone.h:160-162`) | `UncleanOverlap.cfg` | `tombstone_shutdown` may return before the marker is removed |
| `CrashIsOnDisk` (`client_reports.cpp:283-287`) | `CaptureCrashLog.cfg` | `report_crash` returns while the chunk with its entry is in the hands of another flush |
| `EveryCrashDies` (`native_crash.h:43-47`) | `NativeCrashHang.cfg` | the old handler faults, the handler it runs into returns, the signal is blocked or faults again, for ever |
| `MapOfCurrentUser` (`tombstone.h:199-200`) | `PreInitMap.cfg` | before init: a login, a map, another login; the replay makes the second login first and then sets the map of the first player |
| `NothingWhileRefused` (`tombstone.h:205-206`) | `PreInitConsent.cfg` | before init: consent is refused, a breadcrumb is added, consent is granted; the replay knows the last choice only and records it |

In the passing runs, the properties next to these (`MarkerRetiredIsMerged`,
`DeviceSentIsDelivered`, `BaselineIsDelivered`, `CleanIsNotReported`,
`NoDoubleCounting`, `EndedIsFlushed`, `CrashDies`, `ReplayIsLive`) say what does hold: each
names the race it excludes.

A lost beat is a case of its own: the comment at `client.cpp:562-564` says the
in-flight record "tolerates a lost beat by simply re-carrying". With two beats
out, the ack of the second commits the map that was lost with the first;
`BaselineIsDelivered` excludes lost beats for that reason.

Other sentences are contradicted by what the code does and the models have; here
the properties that hold assert what the code does, so their passing is no support
for the sentence.

- Events: `track_event` is "persisted offline on final failure"
  (`tombstone.h:342-343`), and the wire protocol lists
  `pending/{crashes,bug-reports,events}` (`docs/WIRE-PROTOCOL.md:146`). The code
  writes a sidecar for no envelope: events are queued without one
  (`client.cpp:814`), and the give-up and the quit path leave batch envelopes out
  (`worker.cpp:302-310`). Events that could not be sent are lost with the process.
  `OnlyReportsOnDisk` asserts that; the promise is broken in every run in which an
  envelope is given up.
- Flush: `tombstone_flush` is to block until the queue is drained
  (`tombstone.h:441-445`), but an envelope that another drain has cut and not yet
  queued is in neither place it waits for: `FlushOkMeansSent` excludes exactly
  that case.
- Consent: `set_consent(0)` stops the capture, not the upload of what the
  batches and the queue hold (`tombstone.h:205-206`): `PostDelivered` and the
  drains do not look at `consent_`. And a breadcrumb whose capture had passed the
  gate is added behind the purge: `RevokedTrailIsPurged` names it (`late`).
- Cut lists: a malformed array of requests is to yield none
  (`json_scan.h:62-64`), but of an array that is cut the objects before the cut are
  returned (`json_scan.cpp:282-321`). `ListIsRead` asserts what the code does.

And of some inputs the code reads something else than was written. No comment
claims otherwise; the properties name the case and allow what comes out.

- A character escaped as a surrogate pair is read as two characters
  (`json_scan.cpp:34-45`, `110-124`), so a player, match or server whose name has one
  is not found in an answer that escapes it (`ReadAs`).
- A `Retry-After` of more than nine digits is ignored (`retry_after.cpp:22-26`), and
  what an earlier answer asked for is forgotten: 120 s, then a failure without a
  header, waits for the ladder alone, 4 s say (`RetryIsPolite`).
- An image without a build id shows the id of an image without a load segment that
  came just before it (`native_crash.cpp:184-207`), and of a module name with a space
  the parser takes the first word, and the rest for the offset and the id (`288`
  against `497-505`): `FrameOf` and `SameFrame`.
- A dump with a hole is parsed as if it had none: when the line end and the keyword
  after it are missing, `signal 11` and a code of 1 are read as signal 111. And a
  number cut by the end of the file reads as its first digits.

## 5. What is proved

Every theorem below holds for all values of the constants that satisfy the
`ASSUME` of its module, and that assumption is all it rests on: finite and
disjoint kinds of payload and positive bounds, with any set of reports whose
writes may fail and a rotation that may fail or not (`DeliveryAssumption`); ids
that are not the placeholders for none (`HeartbeatAssumption`); a positive
number of sessions (`UncleanShutdownAssumption`); positive bounds, a trim that
leaves less than the file may hold, finitely many threads, the worker among
them, none with the name of a place of lines (`SessionLogAssumption`,
`CaptureAssumption`); positive bounds and item sizes, finitely many threads
(`TelemetryAssumption`); no thread crashes more than twice, as a handler nests
in another once (`NativeCrashAssumption`); a listed request is a request, one
without a nonce has no expiry, a grant of a PUT has no form, and a worker makes
1 to 6 attempts, as the cap of 300 seconds is above the ladder up to there
(`PullRequestsAssumption`; the program has 5). The theorems of
`PullRequestsProofs` have hypotheses on top, named there. The bounds on the
exploration (`MaxCalls`, `MaxLaunches`, `MaxSessions`, `Budgets`) are constants
too: a theorem holds however large they are. Each invariant named here was
checked by TLC on the instance of its run before it was proved.

| Module | Invariant | Theorems, and the property each states |
| --- | --- | --- |
| `DeliveryProofs` | `IInv` | `TypeCorrect` (`TypeOK`), `BackedReportsSurvive` (`BackedNeverLost`), `OnlyReportsPersisted` (`OnlyReportsOnDisk`) |
| `DeliveryProofs`, second part | `CustodyInv` | `CustodyRefined` (`RefinesCustody`), `SentOnceAtATime` (`OneJobPerPayload`), `LogsOfTheRightSide` (`FreshLogForFreshReports`), `LossHasAReason` (the action property `NoSilentLoss`) |
| `HeartbeatProofs` | `HeartbeatInv` | `HeartbeatTypes` (`TypeOK`), `PlayersNeverMix` (`PlayersStayApart`), `MarkerIsDelivered` (`MarkerRetiredIsMerged`), `DeviceIsDelivered` (`DeviceSentIsDelivered`), `MapIsDelivered` (`BaselineIsDelivered`) |
| `UncleanProofs` | `UncleanInv` | `CleanShutdownHolds` (`CleanIsNotReported`), `CountedOnce` (`NoDoubleCounting`), `NoDeathForgotten` (`DeathAccountedFor`), `DumpWins` (`DumpBeatsHeuristic`) |
| `CaptureProofs` | `CaptureInv` | `CaptureTypes` (`TypeOK`), `WindowHolds` (`DedupeHolds`), `TrailIsPurged` (`RevokedTrailIsPurged`), `FlushedAtTheEnd` (`EndedIsFlushed`), `LinesInOrder` (`LogOrder`) |
| `CaptureProofs`, second part | `InOnePlace`, `Announcing` | `LinesAccounted` (`LinesAccountedFor`) |
| `TelemetryProofs` | `TelemetryInv` | `TelemetryTypes` (`TypeOK`), `InOnePlace` (`OnePlace`), `StoreIsEmptied` (`NothingStranded`), `OrderHolds` (`CaptureOrder`), `GateIsKept` (`GateHolds`), `FlushedIsSent` (the action property `FlushOkMeansSent`) |
| `NativeCrashProofs` | `IInv` | `HandsOn` (`HandedOn`), `OneHandlerWrites` (`OneWriter`, defined there) |
| `PullRequestsProofs` | `PullInv` | `FulfilmentsMatch` (`FulfilMatches`), `LogsGoWhereGranted` (`UploadsAsGranted`), `RetriesArePolite` (`RetryIsPolite`) |

### Delivery: what the disk backs

None of the three properties of the first part of `DeliveryProofs` is inductive alone.
`BackedNeverLost` is endangered at two places. `SettleFinal`
removes a sidecar, and is harmless because the verdict it acts on is the
server's answer: `VerdictAnswered` carries that fact from `PostReturns` to
`SettleFinal`, and needs `WorkerAlone` (the one job in flight is the one that
was posted) and `JobsGood` (only a report's own POST is backed: a log upload
carries no sidecar to remove). `CaptureReport` and `CrashInWrite` write a file,
and are harmless because a report is written once: `FilesSubmitted` says that a
file belongs to a report already handed over, so a new capture overwrites
nothing. `OnlyReportsOnDisk` needs `MayPersist` to let reports through only.
`TypeOK` needs `JobsGood` for the queue, whose bound rests on the lemmas
`EnqueuedKeeps` and `TakenKeeps` about the two queue operations. "Backed" is meant
strictly: `backed` has the reports of which a write put the whole body on disk, not
those for which `write()` returned a path. A later short write cannot undo it, as a
report with a path is never written again (`FilesSubmitted`, `MayPersist`).

### Delivery: who has custody

`CustodyInv` adds where the POST of a payload is. `Apart` says that no two of
the places (the hand of a caller, the scan still to be restored, the queue, the
worker) hold the POST of one payload; `ConcludedGone`, that what has its verdict
is in none; `JobsTrue`, that a job's `sidecar` and `fromPrevious` say the truth
about the disk and the launch, although they were set when the job was made: a job
with a path has a whole file, an answer, or is of a report in `cut`; `Settled`, that a
final verdict means an answer or a torn file. `OneJobPerPayload` is `Apart` and
`ConcludedGone`; the logs follow from `TrueOrigin` and `LogsOfLaunches`, which say what
is left when a rotation fails: the two files share no launch, and `session.log` may
have older lines than this session's.

`LossHasAReason` has four reasons, and the fourth is the file cut by an unchecked
write; without it the theorem is false, as `DeliveryShortWrite.cfg` shows.

The refinement is proved report by report. Initial states map to initial states,
as every report is unsent. For a step, `CustodyMoves` splits on the custody a
report has before it: a lost report stays lost (`LostStays`: nothing in memory or
on disk brings it back, since only a new capture or a scan makes a job, and both
are excluded), a durable one stays durable or is closed (`DurableStays`, from
`BackedNeverLost` and the fate of files in `FilesStep`), a closed one stays closed as
answers are never taken back, and an unsent or volatile one may go anywhere its
edges lead. A step may move several reports at once, as a crash does; `Step` of
`ReportCustody` allows that.

### Heartbeat: what the server will have

The properties speak of a beat's ack, long after the beat was built. Their
inductive form speaks of every beat that is out (`Beats`: the one being built,
the queued, the flying). `MarkerInv`: a pending marker rides all of them.
`DeviceInv`: all carry the current device, unless it was acked before. `MapInv`:
`WillHave(u, m)`, the map the server will have for `u` when all beats now out have
arrived, is the map in flight, or the baseline if there is none. Each is
conditional on the race that breaks it (`mishaps`), as its property is.

### UncleanShutdown: who has died

`Order` numbers the sessions and keeps a finder behind what it finds,
`MarkerTrue` says that the marker names a session of this process or one that
died, `FoundFacts` that a found session is dead and that its finder has restored
the crashes it left, and `DumpTrue` follows a whole dump from the handler to the
report: `DumpBeatsHeuristic` holds since a finder of a dumped session
has its dump, which needs that a handler whose file was unlinked dumps nothing
any more.

### Capture: calls that take several locks

`CallShape` says where a call can be, and that a capture that a revocation
overtook is marked `late`; then `Purged` is what the ring has after the purge.
`Remembered` says that the window covers each report let through since it was last
emptied (the clock is read before the lock, so the last time in the window may
be older than that of the call, never of one that passed). `Flushed`: a flush
that has taken the buffer leaves nothing its call answers for. For `LogOrder`,
the buffer is in order (`Rising`), each chunk is older than the buffer, two chunks
held at once are of flushes that overlapped, and what is in the file may be
followed by every chunk.

`LinesAccountedFor` counts the copies of a line over all places and equates the
number of refused lines with a sum over the markers of memory, of two files and of
what is gone. Its first half is inductive as `InOnePlace`: no place has a line
twice, no two places share one, and together they and `gone` have all that were
accepted. What moves lines is a join or a cut from the front, and `JoinedLines` and
`CutLines` say what those do to the lines of a sequence; so a write, whether or
not its bytes get there and whatever the trim cuts, only moves lines between the
file, the chunk and `gone` (`WriteMoves`), and a rotation that is torn or cannot
rename only moves them on. `CopiesCounted` makes the count of it.

The second half rests on `Announcing`. The sum is a fold over a set, which
`SumsExist` shows to be well defined (by `RecursionExists`) and `DropsRemove`, by
induction on the size of the set, to be that of any one element and the rest, in
whatever order the fold takes them. Since only markers count (`DropsOfMarkers`), it
is enough to show that no step but `take_pending` changes the set of markers, and
that the marker made there is a new one: each carries the number of its flush,
which two equal counts would otherwise not keep apart.

### Telemetry: where an item is

An item has a place (`Spots`: the store, a batch, a hand, a queue, a post, done),
and `Held` says what a place holds. Each action that moves an item is shown to be a
`Transfer`: a set of items leaves the spots `F`, or is new, some of them
arrive at one spot and the rest are done, and no other spot changes. Two facts
about all transfers do the rest: `TransferHolds` (no item is lost or doubled,
`HeldOnce`) and `TransferOwed` (a flush's debt follows its items). `OnePlace` needs in
addition that an item has one index in its place: `StoreOrder`, `CaptureOrder`
and `QueueApart` (no two envelopes of a queue share an item).

`CaptureOrder` is inductive only with `ReplayOrder`: what is still to be replayed is
behind all that the client of the replay has in its batches and its drainers'
hands; it is so because nobody else holds that client before it is published
(`InitShape`). `GateInv` adds to the gate that an actor past the test of the gate
has an open one. `OwedInv` says where the items can be that a flush owes: not in
a batch it has drained already, so that at its end, with the queue and the post
empty, they are done or in the hands of another actor.

What `drain_locked` cuts from a batch is an induction over the batch.
Operator-parametric induction is not to be had, so `DataInduction`
proves `SetInduction` (a set with 0 and the next of each has all the numbers, by
the pigeonhole principle) and, from it, that a recursion on the numbers up to n
defines a function (`RecursionExists`). With them, `EnvelopesCut` shows for every
batch that the envelopes hold the items of the batch, each once and in order,
and that each fits (`BytesGrow`, `PackedCuts`).

### NativeCrash: one handler writes, and hands on

`HandedOn` speaks of a process that has died; what makes it true is in the
invariant of the living one. `Nesting`: handlers nest two deep at most, the outer
one inside the old handler it called, and never for the same signal. `Guarding`:
the guard was taken by the outer handler of one thread, and that handler is still
on its stack. `Waiting`: a signal is blocked only behind the handler that raised
it, and a signal is back at its default only if it is pending. `Handing`: past the
hand-off, an old handler that was there has been called. `Dumping`: the dump is what
the disk has taken, write by write, of the first writes of the crash that has the
guard, as many as its handler has tried. With one crash in the process, the thread that dies is
the owner of the guard at its last step, and the signal it dies of is the one it
raised. `OneWriter` is what `Guarding` and `Dumping` say together, without the
restriction to one crash: the crashes of other threads, and a second one of the same
thread, never write to the dump of the first.

The theorems are about any disk: a piece of the dump is any prefix of its write
(`Taken`). What the parser makes of the pieces is `ParsedIsWritten`, and TLC's.

### PullRequests: what may be asserted, and to whom

Every job of the next state is a job of this one, a `Fresh` one or a `Retried` one
(`StepFollows`, a lemma per action), so the invariant is about single jobs
(`Sound`), and about what the worker holds between two steps (`Answers`, `Histories`):
the requests it has read are requests, the user it read is one the client has had
(the match context is read later, under another lock, and is one it has had),
and the grant in its hand was made. `FulfilMatches` follows from the
guard `TargetsClient` with the very values that are then asserted: reading the
identity twice would break it. `RetryIsPolite` follows from the ladder (2 ^ n, at most
32) below the cap.

What the scanners find in a text is a hypothesis: the three theorems hold of the
behaviours in which a list of requests is read as far as it arrived whole
(`ListIsRead`) and no part of a grant is read as another (`PartsAreRead`: a url, a
method or a form that is found is the one the server wrote; any of them may be
missed). Both are conjuncts of `ScanIsFaithful`, which the run `pull` checks for all
texts of its instance. That a grant is then taken for all or nothing is not assumed
but proved from `find_log_upload` (`GrantCases`, `UploadFollows`): a POST whose form is
missing, cut, too long or refused uploads nothing, and is never taken for a bare PUT.
`RetriesArePolite` assumes in addition that each `Retry-After` header of up to nine
digits is read as meant (`HeadersAreRead`, a formula about the constant
`RetryHeaders` and the parser, which TLC evaluates for the headers of the run). None
of these is provable here: they are folds over texts of any length.

### Checked by TLC only

- Liveness (`QuitEnds`, `LeavesMemory`, `CarryConverges`, `ComesToRest`, `CrashDies`):
  fairness and `ENABLED` are out of the prover's reach.
- `ParsedIsWritten`, `ScanIsFaithful` and `ReplayIsLive`: what a parser, a scanner
  or a fold computes for every text or every sequence of calls. They are
  checked on the texts and calls of their instances.
- What does not hold (section 4): TLC gives the executions.

## 6. What is not modelled

- Network and system calls (transport, platform, logging), and the option
  plumbing of init. The models see the outcomes: an answer, whole or cut, or an
  error.
- Bodies of reports and batches: one thread builds each from a snapshot, field
  after field. Signatures, tags and the device identity are values. The bodies
  whose content is decided on (pull requests and fulfilments) are modelled.
- Floating point: `FrameAccumulator`, the sampler's draw, the numbers of
  metrics. TLC has none, and no protocol rests on them.
- Of the JSON code `find_bool_field`, numbers with fractions and the truncation
  of UTF-8; of the native handler the alternate stack, the registers and the
  names of signals; of time, whether a delay is over.
- In `PreInit` an event and a metric are one kind of capture, sampling is off,
  and the Steam id goes with the user id; what init itself captures before the
  replay (tracking, the first beat) is not in it.
- The log is by lines, not by bytes. One `set_device` runs at
  a time. The server's de-duplication of a report delivered twice is taken from
  the comment in `SidecarQueue::remove`.
- Log upload by a bug report of the log it attaches is `Delivery`'s; `Capture`
  has that of crash reports only, as only they write to the log.

## 7. Plan

In this order, most important first.

1. Consent and init: what init itself captures (tracking, first beat) against a
   consent revoked before it.
2. Composition: the report of a previous death (`UncleanShutdown`) delivered
   through `Delivery`, abstracted to `ReportCustody`.

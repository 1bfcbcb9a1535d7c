------------------------------ MODULE Telemetry ------------------------------
(***************************************************************************)
(* The way of a telemetry item (track_event, track_metric): the pre-init   *)
(* store of the C interface, the replay at tombstone_init, the event and   *)
(* the metric batch of the client, the start gate, the three places that   *)
(* drain the batches (the worker, tombstone_flush and report_crash, the    *)
(* destructor), the outbound queue, and the round-trip metric that an      *)
(* upload records about itself.                                            *)
(*                                                                         *)
(* Game threads call the C interface; each client has one worker thread    *)
(* and one heartbeat thread.                                               *)
(* tombstone_shutdown unpublishes a client, whose destructor runs in the   *)
(* last thread that holds it, while a new client may already be live.      *)
(*                                                                         *)
(* The queue holds envelopes and heartbeats (Delivery has the reports, the *)
(* sidecars and the logs, Heartbeat has what a beat carries).  The wait of *)
(* the worker has a bound of a second, so that Worker::wake only shortens  *)
(* it; here it may end at any time.                                        *)
(***************************************************************************)
EXTENDS Integers, Sequences, FiniteSets, SequencesExt

CONSTANTS
    Threads,         \* the game threads
    MaxClients,      \* bound on the calls of tombstone_init explored
    MaxCalls,        \* bound on the calls of the interface and the beats explored
    MaxTracks,       \* PreInitStore::max_tracks
    MaxBatch,        \* Batch::max_items
    FlushCount,      \* Batch::flush_count
    MaxBytes,        \* Batch::max_batch_bytes
    EmptyBytes,      \* the size of an envelope without items
    ItemBytes,       \* the size of item n, of the round-trip metrics for 0
    MaxQueue,        \* Worker::max_queue_size
    MaxAttempts,     \* Worker::max_attempts
    RttMetric        \* options.enable_rtt_metric

ASSUME TelemetryAssumption ==
    /\ {MaxClients, MaxCalls, MaxTracks, MaxBatch, FlushCount, MaxBytes, EmptyBytes,
        MaxQueue, MaxAttempts} \subseteq Nat \ {0}
    /\ ItemBytes \in [0 .. MaxCalls -> Nat \ {0}]
    /\ RttMetric \in BOOLEAN
    /\ IsFiniteSet(Threads) /\ Threads \cap Nat = {}

Clients == 1 .. MaxClients
Actors  == Threads \cup Clients    \* a client's number stands for its worker
Kinds   == {"event", "metric"}

\* Items are numbered in the order in which the SDK accepts them; all the
\* round-trip metrics are the item Rtt.
Rtt   == 0
Items == 1 .. MaxCalls

Envelope == [ kind : Kinds, items : Seq(Items \cup {Rtt}), attempt : 0 .. MaxAttempts - 1 ]

\* A heartbeat: signed, like the envelopes, and never retried.
Beat == [ kind |-> "beat", items |-> <<>>, attempt |-> 0 ]

Job == Envelope \cup {Beat}

Tracks  == Kinds
Drains  == {"flush", "crash"}
Settings == {"grant", "refuse", "start"}

VARIABLES
    (* tombstone_api.cpp *)
    gClient,     \* g_client, 0: none
    store,       \* g_preinit: [tracks, consent, start]
    replayed,    \* how many of its tracks replay_preinit has replayed
    (* game threads *)
    pc,          \* "idle" | "missed" | "snapped" | "adding" | "draining"
                 \*   | "init" | "replay" | "publish" | "quit" | "join"
    op,          \* the call a thread is in
    ref,         \* the client a thread holds, 0: none
    (* Client *)
    life,        \* "unborn" | "live" | "stopping" | "gone"
    consent,     \* consent_
    gate,        \* start_gate_
    batch,       \* event_batch_ and metric_batch_
    aged,        \* the oldest item of the batch is flush_age old
    (* drain_ready_batches and flush_all_batches, per actor *)
    stage,       \* "off" | "event" | "metric" | "end"
    hand,        \* the envelopes drained and not yet enqueued
    (* Worker *)
    worker,      \* "none" | "drain" | "wait" | "log" | "post" | "done"
    queue,       \* queue_
    inFlight,    \* the job being posted: a sequence of at most one
    (* history *)
    calls,       \* calls and beats made
    items,       \* items accepted
    done,        \* items answered by the server or dropped
    owed,        \* what was in the batches when a thread called tombstone_flush
    result       \* what the last tombstone_flush of a thread returned

apiVars    == <<gClient, store, replayed>>
callVars   == <<pc, op, ref>>
clientVars == <<life, consent, gate>>
batchVars  == <<batch, aged>>
drainVars  == <<stage, hand>>
workerVars == <<worker, queue, inFlight>>
flushVars  == <<owed, result>>
historyVars == <<calls, items, done, flushVars>>
vars == <<apiVars, callVars, clientVars, batchVars, drainVars, workerVars, historyVars>>

EmptyStore == [ tracks |-> <<>>, consent |-> "unset", start |-> FALSE ]

Init ==
    /\ gClient = 0 /\ store = EmptyStore /\ replayed = 0
    /\ pc = [t \in Threads |-> "idle"]
    /\ op = [t \in Threads |-> "none"]
    /\ ref = [t \in Threads |-> 0]
    /\ life = [c \in Clients |-> "unborn"]
    /\ consent = [c \in Clients |-> FALSE]
    /\ gate = [c \in Clients |-> FALSE]
    /\ batch = [c \in Clients |-> [k \in Kinds |-> <<>>]]
    /\ aged = [c \in Clients |-> [k \in Kinds |-> FALSE]]
    /\ stage = [a \in Actors |-> "off"]
    /\ hand = [a \in Actors |-> <<>>]
    /\ worker = [c \in Clients |-> "none"]
    /\ queue = [c \in Clients |-> <<>>]
    /\ inFlight = [c \in Clients |-> <<>>]
    /\ calls = 0 /\ items = 0 /\ done = {}
    /\ owed = [t \in Threads |-> {}]
    /\ result = [t \in Threads |-> "none"]

(***************************************************************************)
(* Batch.                                                                  *)
(***************************************************************************)
\* Batch::add on its deque: at the cap the oldest item makes room.
Added(s, n) == Append(IF Len(s) >= MaxBatch THEN Tail(s) ELSE s, n)

\* What Batch::add drops.
Displaced(s) == IF Len(s) >= MaxBatch THEN {Head(s)} ELSE {}

\* Adds an item to a batch; the age counts from the add to an empty batch.
Add(c, k, n) ==
    /\ batch' = [batch EXCEPT ![c][k] = Added(@, n)]
    /\ aged' = [aged EXCEPT ![c][k] = @ /\ batch[c][k] # <<>>]

\* The oldest item of a batch becomes flush_age old.
Age(c, k) ==
    /\ batch[c][k] # <<>> /\ ~ aged[c][k]
    /\ aged' = [aged EXCEPT ![c][k] = TRUE]
    /\ UNCHANGED <<apiVars, callVars, clientVars, batch, drainVars, workerVars,
                   historyVars>>

Ready(c, k, force) ==
    /\ batch[c][k] # <<>>
    /\ force \/ Len(batch[c][k]) >= FlushCount \/ aged[c][k]

\* The size of an envelope of the items s: a comma stands between two items.
Bytes(s) ==
    LET bytes[i \in 0 .. Len(s)] ==
          IF i = 0 THEN EmptyBytes - 1 ELSE bytes[i - 1] + ItemBytes[s[i]] + 1
    IN  bytes[Len(s)]

\* Mutant: the comma is forgotten.
FitsWithoutComma(e, n) == Bytes(e.items) + ItemBytes[n] <= MaxBytes

\* Whether drain_locked adds item n to an envelope that has items already.
Fits(e, n) == Bytes(e.items) + ItemBytes[n] + 1 <= MaxBytes

\* drain_locked puts an item into the last envelope, or it is the first of the next
\* one, whatever its size.
Packed(k, cut, n) ==
    IF cut # <<>> /\ Fits(cut[Len(cut)], n)
      THEN [cut EXCEPT ![Len(cut)].items = Append(@, n)]
      ELSE Append(cut, [kind |-> k, items |-> <<n>>, attempt |-> 0])

\* The envelopes drain_locked cuts from a batch, oldest items first.
Envelopes(k, s) ==
    LET cut[i \in 0 .. Len(s)] == IF i = 0 THEN <<>> ELSE Packed(k, cut[i - 1], s[i])
    IN  cut[Len(s)]

(***************************************************************************)
(* Draining, by an actor a from the batches of client c.                   *)
(***************************************************************************)
\* Batch::drain_envelopes_if_ready: the whole snapshot under one lock.
DrainBatch(a, c, k, force) ==
    /\ hand[a] = <<>>
    /\ IF Ready(c, k, force)
         THEN /\ hand' = [hand EXCEPT ![a] = Envelopes(k, batch[c][k])]
              /\ batch' = [batch EXCEPT ![c][k] = <<>>]
              /\ aged' = [aged EXCEPT ![c][k] = FALSE]
         ELSE UNCHANGED <<hand, batch, aged>>

\* Mutant: a forced drain does not look at the gate.
MayDrainForced(c, force) == gate[c] \/ force

\* The test of the gate in drain_ready_batches and flush_all_batches.
MayDrain(c, force) == gate[c]

\* drain_ready_batches and flush_all_batches test the gate, then drain the
\* events.  A gate that opens after the test is met by the next drain.
DrainEvents(a, c, force) ==
    /\ stage[a] = "event"
    /\ IF MayDrain(c, force)
         THEN /\ DrainBatch(a, c, "event", force)
              /\ stage' = [stage EXCEPT ![a] = "metric"]
         ELSE /\ stage' = [stage EXCEPT ![a] = "end"]
              /\ UNCHANGED <<hand, batch, aged>>
    /\ UNCHANGED <<queue, done>>

DrainMetrics(a, c, force) ==
    /\ stage[a] = "metric"
    /\ DrainBatch(a, c, "metric", force)
    /\ stage' = [stage EXCEPT ![a] = "end"]
    /\ UNCHANGED <<queue, done>>

ItemsOf(envelopes) ==
    (UNION { Range(envelopes[i].items) : i \in DOMAIN envelopes }) \ {Rtt}

\* Worker::enqueue: a full queue drops its oldest job.
Enqueued(q, e)   == Append(IF Len(q) >= MaxQueue THEN Tail(q) ELSE q, e)
QueueDropped(q)  == IF Len(q) >= MaxQueue THEN ItemsOf(<<Head(q)>>) ELSE {}

\* maybe_flush_batch hands its envelopes to the queue one by one.
EnqueueNext(a, c) ==
    /\ hand[a] # <<>>
    /\ queue' = [queue EXCEPT ![c] = Enqueued(@, Head(hand[a]))]
    /\ done' = done \cup QueueDropped(queue[c])
    /\ hand' = [hand EXCEPT ![a] = Tail(@)]
    /\ UNCHANGED <<stage, batchVars>>

Drain(a, c, force) ==
    \/ DrainEvents(a, c, force)
    \/ DrainMetrics(a, c, force)
    \/ EnqueueNext(a, c)

Drained(a) == stage[a] = "end" /\ hand[a] = <<>>

(***************************************************************************)
(* A call of the interface: it takes a reference to the published client,  *)
(* acts on it without the mutex, and lets it go.                           *)
(***************************************************************************)
\* tombstone_init holds g_client_mutex from the test of g_client to the
\* publication of the new client.
MutexFree == \A t \in Threads : pc[t] \notin {"init", "replay", "publish"}

\* The thread lets its client go.  Without g_client the last holder destroys it.
Return(t) ==
    LET last == ref[t] \notin {0, gClient}
                  /\ \A u \in Threads \ {t} : ref[u] # ref[t]
    IN /\ pc' = [pc EXCEPT ![t] = IF last THEN "quit" ELSE "idle"]
       /\ ref' = [ref EXCEPT ![t] = IF last THEN @ ELSE 0]
       /\ op' = [op EXCEPT ![t] = "none"]
       /\ stage' = [stage EXCEPT ![t] = IF last THEN "event" ELSE "off"]

\* client_snapshot.  Without a client only some calls do anything.
Call(t, o) ==
    /\ pc[t] = "idle" /\ MutexFree /\ calls < MaxCalls
    /\ gClient = 0 => o \notin Drains
    /\ calls' = calls + 1
    /\ op' = [op EXCEPT ![t] = o]
    /\ ref' = [ref EXCEPT ![t] = gClient]
    /\ pc' = [pc EXCEPT ![t] = IF gClient = 0 THEN "missed" ELSE "snapped"]
    /\ UNCHANGED <<apiVars, clientVars, batchVars, drainVars, workerVars,
                   items, done, flushVars>>

\* PreInitStore::add_event, add_metric: a full store drops the newcomer.
Buffered(s, o, n) ==
    CASE o \in Tracks -> IF Len(s.tracks) < MaxTracks
                           THEN [s EXCEPT !.tracks = Append(@, [n |-> n, kind |-> o])]
                           ELSE s
      [] o = "start"  -> [s EXCEPT !.start = TRUE]
      [] OTHER        -> [s EXCEPT !.consent = o]

\* Mutant: no second look.
NoneYetUnchecked == TRUE

\* The second look of with_client_or_buffer at g_client.
NoneYet == gClient = 0

\* with_client_or_buffer, its second look at g_client under the mutex: there is
\* still no client, and the call goes to the store.
Buffer(t) ==
    /\ pc[t] = "missed" /\ MutexFree /\ NoneYet
    /\ store' = Buffered(store, op[t], items + 1)
    /\ IF op[t] \in Tracks
         THEN /\ items' = items + 1
              /\ done' = IF store' = store THEN done \cup {items + 1} ELSE done
         ELSE UNCHANGED <<items, done>>
    /\ Return(t)
    /\ UNCHANGED <<gClient, replayed, clientVars, batchVars, hand, workerVars, calls, flushVars>>

\* ... or one was published in between, and the call is made on it.
Retake(t) ==
    /\ pc[t] = "missed" /\ MutexFree /\ gClient # 0
    /\ ref' = [ref EXCEPT ![t] = gClient]
    /\ pc' = [pc EXCEPT ![t] = "snapped"]
    /\ UNCHANGED <<apiVars, op, clientVars, batchVars, drainVars, workerVars, historyVars>>

\* track_event, track_metric: the consent test and the sampler.
TrackPasses(t) ==
    /\ pc[t] = "snapped" /\ op[t] \in Tracks /\ consent[ref[t]]
    /\ pc' = [pc EXCEPT ![t] = "adding"]
    /\ UNCHANGED <<apiVars, op, ref, clientVars, batchVars, drainVars, workerVars,
                   historyVars>>

TrackIgnored(t) ==
    /\ pc[t] = "snapped" /\ op[t] \in Tracks
    /\ Return(t)
    /\ UNCHANGED <<apiVars, clientVars, batchVars, hand, workerVars, historyVars>>

TrackAdds(t) ==
    /\ pc[t] = "adding"
    /\ Add(ref[t], op[t], items + 1)
    /\ items' = items + 1
    /\ done' = done \cup (Displaced(batch[ref[t]][op[t]]) \ {Rtt})
    /\ Return(t)
    /\ UNCHANGED <<apiVars, clientVars, hand, workerVars, calls, flushVars>>

\* Client::set_consent and Client::start_session.
Choose(t) ==
    /\ pc[t] = "snapped" /\ op[t] \in Settings
    /\ consent' = IF op[t] = "start" THEN consent
                    ELSE [consent EXCEPT ![ref[t]] = (op[t] = "grant")]
    /\ gate' = IF op[t] = "start" THEN [gate EXCEPT ![ref[t]] = TRUE] ELSE gate
    /\ Return(t)
    /\ UNCHANGED <<apiVars, life, batchVars, hand, workerVars, historyVars>>

(***************************************************************************)
(* tombstone_flush, and the pre-flush of Client::report_crash.             *)
(***************************************************************************)
BeginDrain(t) ==
    /\ pc[t] = "snapped" /\ op[t] \in Drains
    /\ op[t] = "crash" => consent[ref[t]]
    /\ pc' = [pc EXCEPT ![t] = "draining"]
    /\ stage' = [stage EXCEPT ![t] = "event"]
    /\ owed' = [owed EXCEPT ![t] =
                  IF op[t] = "flush" /\ gate[ref[t]]
                    THEN (UNION { Range(batch[ref[t]][k]) : k \in Kinds }) \ {Rtt}
                    ELSE {}]
    /\ UNCHANGED <<apiVars, op, ref, clientVars, batchVars, hand, workerVars,
                   calls, items, done, result>>

\* Without consent, or as a duplicate.
CrashIgnored(t) ==
    /\ pc[t] = "snapped" /\ op[t] = "crash"
    /\ Return(t)
    /\ UNCHANGED <<apiVars, clientVars, batchVars, hand, workerVars, historyVars>>

ThreadDrains(t) ==
    /\ pc[t] \in {"draining", "quit"}
    /\ Drain(t, ref[t], TRUE)
    /\ UNCHANGED <<apiVars, callVars, clientVars, worker, inFlight, calls, items, flushVars>>

\* Mutant: a job that is being posted is not waited for.
AllSentQueueOnly(c) == queue[c] = <<>>

\* What Worker::flush waits for.
AllSent(c) == queue[c] = <<>> /\ inFlight[c] = <<>>

\* Worker::flush returns, because all is sent or because the time is over.
FlushReturns(t) ==
    /\ pc[t] = "draining" /\ op[t] = "flush" /\ Drained(t)
    /\ result' = [result EXCEPT ![t] = IF AllSent(ref[t]) THEN "ok" ELSE "timeout"]
    /\ Return(t)
    /\ UNCHANGED <<apiVars, clientVars, batchVars, hand, workerVars, calls, items, done, owed>>

\* report_crash goes on to its write-ahead sidecar (Delivery).
CrashReturns(t) ==
    /\ pc[t] = "draining" /\ op[t] = "crash" /\ Drained(t)
    /\ Return(t)
    /\ UNCHANGED <<apiVars, clientVars, batchVars, hand, workerVars, historyVars>>

(***************************************************************************)
(* tombstone_init.                                                         *)
(***************************************************************************)
\* Client::init takes consent and the gate from the options (auto_start_session opens it
\* at once), and the worker starts.  Choices made before init are in the store.
InitClient(t) ==
    /\ pc[t] = "idle" /\ MutexFree /\ gClient = 0 /\ calls < MaxCalls
    /\ \E c \in Clients, auto, granted \in BOOLEAN :
         /\ life[c] = "unborn" /\ \A d \in 1 .. c - 1 : life[d] # "unborn"
         /\ life' = [life EXCEPT ![c] = "live"]
         /\ gate' = [gate EXCEPT ![c] = auto]
         /\ consent' = [consent EXCEPT ![c] = granted]
         /\ worker' = [worker EXCEPT ![c] = "drain"]
         /\ stage' = [stage EXCEPT ![c] = "event"]
         /\ ref' = [ref EXCEPT ![t] = c]
    /\ pc' = [pc EXCEPT ![t] = "init"]
    /\ op' = [op EXCEPT ![t] = "init"]
    /\ calls' = calls + 1
    /\ replayed' = 0
    /\ UNCHANGED <<gClient, store, batchVars, hand, queue, inFlight, items, done, flushVars>>

\* The consent after the replay of the stored choice, if there is one.
ReplayedConsent(c) == IF store.consent = "unset" THEN consent[c] ELSE store.consent = "grant"

\* replay_preinit: the consent choice comes first.
ReplayConsent(t) ==
    /\ pc[t] = "init"
    /\ consent' = [consent EXCEPT ![ref[t]] = ReplayedConsent(ref[t])]
    /\ pc' = [pc EXCEPT ![t] = "replay"]
    /\ UNCHANGED <<apiVars, op, ref, life, gate, batchVars, drainVars, workerVars,
                   historyVars>>

\* Mutant: the newest first.
NextTrackNewest == store.tracks[Len(store.tracks) - replayed]

\* The track that is replayed next.
NextTrack == store.tracks[replayed + 1]

\* Each buffered track goes through track_event or track_metric.
ReplayTrack(t) ==
    /\ pc[t] = "replay" /\ replayed < Len(store.tracks)
    /\ replayed' = replayed + 1
    /\ IF consent[ref[t]]
         THEN /\ Add(ref[t], NextTrack.kind, NextTrack.n)
              /\ done' = done \cup (Displaced(batch[ref[t]][NextTrack.kind]) \ {Rtt})
         ELSE /\ done' = done \cup {NextTrack.n}
              /\ UNCHANGED batchVars
    /\ UNCHANGED <<gClient, store, callVars, clientVars, drainVars, workerVars,
                   calls, items, flushVars>>

\* A start_session made before init comes last.
ReplayStart(t) ==
    /\ pc[t] = "replay" /\ replayed = Len(store.tracks)
    /\ gate' = [gate EXCEPT ![ref[t]] = @ \/ store.start]
    /\ pc' = [pc EXCEPT ![t] = "publish"]
    /\ UNCHANGED <<apiVars, op, ref, life, consent, batchVars, drainVars, workerVars,
                   historyVars>>

\* Mutant: the tracks stay.
ClearedChoices(s) == [ EmptyStore EXCEPT !.tracks = s.tracks ]

\* PreInitStore::clear.
Cleared(s) == EmptyStore

Publish(t) ==
    /\ pc[t] = "publish"
    /\ store' = Cleared(store) /\ replayed' = 0
    /\ gClient' = ref[t]
    /\ pc' = [pc EXCEPT ![t] = "idle"]
    /\ op' = [op EXCEPT ![t] = "none"]
    /\ ref' = [ref EXCEPT ![t] = 0]
    /\ UNCHANGED <<clientVars, batchVars, drainVars, workerVars, historyVars>>

(***************************************************************************)
(* tombstone_shutdown and ~Client.                                         *)
(***************************************************************************)
Shutdown(t) ==
    /\ pc[t] = "idle" /\ MutexFree /\ gClient # 0 /\ calls < MaxCalls
    /\ calls' = calls + 1
    /\ gClient' = 0
    /\ IF \A u \in Threads : ref[u] # gClient
         THEN /\ ref' = [ref EXCEPT ![t] = gClient]
              /\ pc' = [pc EXCEPT ![t] = "quit"]
              /\ stage' = [stage EXCEPT ![t] = "event"]
         ELSE UNCHANGED <<ref, pc, stage>>
    /\ UNCHANGED <<store, replayed, op, clientVars, batchVars, hand, workerVars,
                   items, done, flushVars>>

\* The quit flush is over, in time or not: Worker::stop.
QuitStops(t) ==
    /\ pc[t] = "quit" /\ Drained(t)
    /\ life' = [life EXCEPT ![ref[t]] = "stopping"]
    /\ pc' = [pc EXCEPT ![t] = "join"]
    /\ stage' = [stage EXCEPT ![t] = "off"]
    /\ UNCHANGED <<apiVars, op, ref, consent, gate, batchVars, hand, workerVars,
                   historyVars>>

\* The worker is joined, persist_leftovers drops the envelopes, and the client
\* goes with what its batches hold.
QuitJoins(t) ==
    LET c == ref[t]
    IN /\ pc[t] = "join" /\ worker[c] = "done"
       /\ life' = [life EXCEPT ![c] = "gone"]
       /\ done' = done \cup ItemsOf(queue[c])
                       \cup ((UNION { Range(batch[c][k]) : k \in Kinds }) \ {Rtt})
       /\ queue' = [queue EXCEPT ![c] = <<>>]
       /\ batch' = [batch EXCEPT ![c] = [k \in Kinds |-> <<>>]]
       /\ aged' = [aged EXCEPT ![c] = [k \in Kinds |-> FALSE]]
       /\ pc' = [pc EXCEPT ![t] = "idle"]
       /\ ref' = [ref EXCEPT ![t] = 0]
       /\ UNCHANGED <<apiVars, op, consent, gate, drainVars, worker, inFlight,
                      calls, items, flushVars>>

(***************************************************************************)
(* heartbeat_loop of client c.                                             *)
(***************************************************************************)
\* ~Client stops the heartbeat thread before it flushes.
HeartbeatRuns(c) ==
    life[c] = "live" /\ \A t \in Threads : pc[t] \in {"quit", "join"} => ref[t] # c

\* With consent, and once the gate is open, a beat every interval.
HeartbeatSent(c) ==
    /\ HeartbeatRuns(c) /\ consent[c] /\ gate[c] /\ calls < MaxCalls
    /\ calls' = calls + 1
    /\ queue' = [queue EXCEPT ![c] = Enqueued(@, Beat)]
    /\ done' = done \cup QueueDropped(queue[c])
    /\ UNCHANGED <<apiVars, callVars, clientVars, batchVars, drainVars, worker, inFlight,
                   items, flushVars>>

(***************************************************************************)
(* Worker::run of client c.                                                *)
(***************************************************************************)
WorkerDrains(c) ==
    /\ worker[c] = "drain"
    /\ Drain(c, c, FALSE)
    /\ UNCHANGED <<apiVars, callVars, clientVars, worker, inFlight, calls, items, flushVars>>

WorkerDrained(c) ==
    /\ worker[c] = "drain" /\ Drained(c)
    /\ worker' = [worker EXCEPT ![c] = "wait"]
    /\ stage' = [stage EXCEPT ![c] = "off"]
    /\ UNCHANGED <<apiVars, callVars, clientVars, batchVars, hand, queue, inFlight,
                   historyVars>>

\* take_ready_job takes the first job that is due.  A retry may be due or not.
MayTake(q, i) == \A j \in 1 .. i - 1 : q[j].attempt > 0

\* The paced flush of the session log runs without the mutex, after the test of
\* running_: a job may be taken after stop() has cleared it.
WorkerFlushesLog(c) ==
    /\ worker[c] = "wait" /\ life[c] = "live"
    /\ worker' = [worker EXCEPT ![c] = "log"]
    /\ UNCHANGED <<apiVars, callVars, clientVars, batchVars, drainVars, queue, inFlight,
                   historyVars>>

MayGoOn(c) == worker[c] = "log" \/ (worker[c] = "wait" /\ life[c] = "live")

WorkerTakes(c) ==
    /\ MayGoOn(c)
    /\ \E i \in DOMAIN queue[c] :
         /\ MayTake(queue[c], i)
         /\ inFlight' = [inFlight EXCEPT ![c] = <<queue[c][i]>>]
         /\ queue' = [queue EXCEPT ![c] = RemoveAt(@, i)]
    /\ worker' = [worker EXCEPT ![c] = "post"]
    /\ UNCHANGED <<apiVars, callVars, clientVars, batchVars, drainVars, historyVars>>

\* No job is due: the loop goes on with the next drain.
WorkerIdles(c) ==
    /\ MayGoOn(c)
    /\ MayTake(queue[c], Len(queue[c]) + 1)
    /\ worker' = [worker EXCEPT ![c] = "drain"]
    /\ stage' = [stage EXCEPT ![c] = "event"]
    /\ UNCHANGED <<apiVars, callVars, clientVars, batchVars, hand, queue, inFlight,
                   historyVars>>

WorkerExits(c) ==
    /\ worker[c] = "wait" /\ life[c] = "stopping"
    /\ worker' = [worker EXCEPT ![c] = "done"]
    /\ UNCHANGED <<apiVars, callVars, clientVars, batchVars, drainVars, queue, inFlight,
                   historyVars>>

\* process has handled the job: no longer in flight, and the loop goes on.
Idle(c) ==
    /\ inFlight' = [inFlight EXCEPT ![c] = <<>>]
    /\ worker' = [worker EXCEPT ![c] = "drain"]
    /\ stage' = [stage EXCEPT ![c] = "event"]

\* Mutant: every upload makes a round-trip metric.
EmitsAlways(e) == RttMetric

\* An upload of events and a heartbeat do; suppress_rtt exempts the metric batch.
EmitsRtt(e) == RttMetric /\ e.kind # "metric"

\* A 2xx answer.  record_rtt_metric is a track_metric.
PostDelivered(c) ==
    LET e == inFlight[c][1]
        records == EmitsRtt(e) /\ consent[c]
    IN /\ worker[c] = "post"
       /\ Idle(c)
       /\ IF records THEN Add(c, "metric", Rtt) ELSE UNCHANGED batchVars
       /\ done' = done \cup ItemsOf(<<e>>)
                       \cup (IF records THEN Displaced(batch[c]["metric"]) \ {Rtt} ELSE {})
       /\ UNCHANGED <<apiVars, callVars, clientVars, hand, queue, calls, items, flushVars>>

\* Poison, or a transient failure of the last attempt, or of a beat: it is dropped.
PostDropped(c) ==
    /\ worker[c] = "post"
    /\ Idle(c)
    /\ done' = done \cup ItemsOf(inFlight[c])
    /\ UNCHANGED <<apiVars, callVars, clientVars, batchVars, hand, queue, calls, items, flushVars>>

\* A transient failure of an envelope: back to the queue with a backoff.
PostRetried(c) ==
    LET e == inFlight[c][1]
    IN /\ worker[c] = "post" /\ e # Beat /\ e.attempt + 1 < MaxAttempts
       /\ Idle(c)
       /\ queue' = [queue EXCEPT ![c] = Enqueued(@, [e EXCEPT !.attempt = @ + 1])]
       /\ done' = done \cup QueueDropped(queue[c])
       /\ UNCHANGED <<apiVars, callVars, clientVars, batchVars, hand, calls, items, flushVars>>

(***************************************************************************)
(* The specification.                                                      *)
(***************************************************************************)
\* The game makes a call.
GameCalls(t) ==
    \/ \E o \in Tracks \cup Drains \cup Settings : Call(t, o)
    \/ InitClient(t)
    \/ Shutdown(t)

\* A call that was made goes on.
CallGoesOn(t) ==
    \/ Buffer(t) \/ Retake(t)
    \/ TrackPasses(t) \/ TrackIgnored(t) \/ TrackAdds(t) \/ Choose(t)
    \/ BeginDrain(t) \/ CrashIgnored(t) \/ ThreadDrains(t)
    \/ FlushReturns(t) \/ CrashReturns(t)
    \/ ReplayConsent(t) \/ ReplayTrack(t) \/ ReplayStart(t) \/ Publish(t)
    \/ QuitStops(t) \/ QuitJoins(t)

WorkerStep(c) ==
    \/ WorkerDrains(c) \/ WorkerDrained(c) \/ WorkerFlushesLog(c)
    \/ WorkerTakes(c) \/ WorkerIdles(c) \/ WorkerExits(c)
    \/ PostDelivered(c) \/ PostDropped(c) \/ PostRetried(c)

\* The bound on the calls is used up and every call has returned.
Over ==
    /\ calls = MaxCalls /\ \A t \in Threads : pc[t] = "idle"
    /\ UNCHANGED vars

Next ==
    \/ Over
    \/ \E t \in Threads : GameCalls(t) \/ CallGoesOn(t)
    \/ \E c \in Clients : WorkerStep(c) \/ HeartbeatSent(c)
    \/ \E c \in Clients, k \in Kinds : Age(c, k)

Spec == Init /\ [][Next]_vars

\* Calls end, time passes, the worker thread runs (waits and requests have a
\* bound), and a backoff expires while the worker keeps looking at the queue.
FairSpec ==
    /\ Spec
    /\ \A t \in Threads : WF_vars(CallGoesOn(t))
    /\ \A c \in Clients : WF_vars(WorkerStep(c)) /\ SF_vars(WorkerTakes(c))
    /\ \A c \in Clients, k \in Kinds : WF_vars(Age(c, k))

(***************************************************************************)
(* Properties.                                                             *)
(***************************************************************************)
\* Where item n is: every place that holds it counts.
InStore(n)  == { <<"store", i>> : i \in { j \in DOMAIN store.tracks :
                                            j > replayed /\ store.tracks[j].n = n } }
InBatch(n)  == UNION { { <<"batch", c, k, i>> : i \in { j \in DOMAIN batch[c][k] :
                                                         batch[c][k][j] = n } } :
                         c \in Clients, k \in Kinds }
InHand(n)   == { <<"hand", a>> : a \in { b \in Actors : n \in ItemsOf(hand[b]) } }
InQueue(n)  == UNION { { <<"queue", c, i>> : i \in { j \in DOMAIN queue[c] :
                                                      n \in Range(queue[c][j].items) } } :
                         c \in Clients }
InFlight(n) == { <<"post", c>> : c \in { d \in Clients : n \in ItemsOf(inFlight[d]) } }
IsDone(n)   == IF n \in done THEN {<<"done">>} ELSE {}

Places(n) == InStore(n) \cup InBatch(n) \cup InHand(n) \cup InQueue(n) \cup InFlight(n)
                \cup IsDone(n)

\* No envelope exceeds max_batch_bytes, save that of a single item that does: "isolate
\* an invalid oversized item so its rejection cannot discard valid neighbours".
EnvelopesFit ==
    \A e \in UNION { Range(s) : s \in Range(hand) \cup Range(queue) \cup Range(inFlight) } :
        e = Beat \/ Bytes(e.items) <= MaxBytes \/ Len(e.items) = 1

\* The type invariant, with the bounds of the store, the batches, the queue and
\* the envelopes.
TypeOK ==
    /\ gClient \in 0 .. MaxClients
    /\ store.tracks \in Seq([ n : Items, kind : Kinds ]) /\ Len(store.tracks) <= MaxTracks
    /\ store.consent \in {"unset", "grant", "refuse"} /\ store.start \in BOOLEAN
    /\ replayed \in 0 .. MaxTracks
    /\ pc \in [ Threads -> {"idle", "missed", "snapped", "adding", "draining",
                            "init", "replay", "publish", "quit", "join"} ]
    /\ op \in [ Threads -> Tracks \cup Drains \cup Settings \cup {"none", "init"} ]
    /\ ref \in [ Threads -> 0 .. MaxClients ]
    /\ life \in [ Clients -> {"unborn", "live", "stopping", "gone"} ]
    /\ consent \in [ Clients -> BOOLEAN ] /\ gate \in [ Clients -> BOOLEAN ]
    /\ batch \in [ Clients -> [ Kinds -> Seq(Items \cup {Rtt}) ] ]
    /\ \A c \in Clients, k \in Kinds : Len(batch[c][k]) <= MaxBatch
    /\ aged \in [ Clients -> [ Kinds -> BOOLEAN ] ]
    /\ stage \in [ Actors -> {"off", "event", "metric", "end"} ]
    /\ hand \in [ Actors -> Seq(Envelope) ]
    /\ worker \in [ Clients -> {"none", "drain", "wait", "log", "post", "done"} ]
    /\ queue \in [ Clients -> Seq(Job) ]
    /\ \A c \in Clients : Len(queue[c]) <= MaxQueue
    /\ inFlight \in [ Clients -> Seq(Job) ]
    /\ calls \in 0 .. MaxCalls /\ items \in 0 .. MaxCalls
    /\ done \subseteq Items
    /\ owed \in [ Threads -> SUBSET Items ]
    /\ result \in [ Threads -> {"none", "ok", "timeout"} ]
    /\ EnvelopesFit

\* Every item accepted is in exactly one place until it is answered or dropped:
\* neither the race of a capture with init and replay, nor a drain beside an
\* add, nor a re-init after a shutdown loses or doubles one.
OnePlace == \A n \in 1 .. items : Cardinality(Places(n)) = 1

\* While a client is published the pre-init store is empty: no call that raced
\* with tombstone_init leaves something there that the next session would replay
\* (with_client_or_buffer looks at g_client again under the mutex).
NothingStranded == gClient # 0 => store = EmptyStore

\* Captures stay in the order in which they were accepted, from the envelopes a
\* drain holds to the batch it cut them from: what was captured before init
\* comes first (replay_preinit runs before the client is published), and no add
\* slips between the envelopes of one drain.
InOrder(s) == \A i, j \in DOMAIN s : i < j /\ Rtt \notin {s[i], s[j]} => s[i] < s[j]

Precedes(s, r) == \A i \in DOMAIN s, j \in DOMAIN r : Rtt \notin {s[i], r[j]} => s[i] < r[j]

\* The client whose batches an actor drains.
ClientOf(a) == IF a \in Threads THEN ref[a] ELSE a

CaptureOrder ==
    /\ \A c \in Clients, k \in Kinds : InOrder(batch[c][k])
    /\ \A a \in Actors : \A i \in DOMAIN hand[a] :
          /\ InOrder(hand[a][i].items)
          /\ \A j \in DOMAIN hand[a] : i < j => Precedes(hand[a][i].items, hand[a][j].items)
          /\ Precedes(hand[a][i].items, batch[ClientOf(a)][hand[a][i].kind])

\* Until its start gate opens, no batch of a client has left it, be it through
\* the worker, a flush, a crash report or the destructor.
GateHolds ==
    \A c \in Clients : ~ gate[c] =>
        /\ hand[c] = <<>> /\ queue[c] = <<>> /\ inFlight[c] = <<>>
        /\ \A t \in Threads : ref[t] = c => hand[t] = <<>>

\* When tombstone_flush returns OK, whatever the batches held at the call has
\* been answered or dropped, except what another thread or the worker had
\* drained before the flush did and has yet to enqueue.
FlushOkMeansSent ==
    [][ \A t \in Threads :
          pc[t] = "draining" /\ op[t] = "flush" /\ pc'[t] # "draining" /\ result'[t] = "ok" =>
            \A n \in owed[t] :
              n \in done \/ \E a \in Actors \ {t} : n \in ItemsOf(hand[a]) ]_vars

\* What an upload records about itself sets off no endless chain, and no item waits in
\* a batch for another to follow it: once no call and no beat adds anything, a client
\* with an open gate comes to rest with empty batches and an empty queue.  (A client
\* with consent beats for as long as it lives, and each beat delivered adds a metric:
\* such a client never rests.  What is shown is that the last beat is the end of what
\* it sets off.)
AtRest(c) ==
    gate[c] => AllSent(c) /\ hand[c] = <<>> /\ \A k \in Kinds : batch[c][k] = <<>>

ComesToRest == <>[](\A c \in Clients : AtRest(c))

=============================================================================

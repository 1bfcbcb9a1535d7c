-------------------------------- MODULE Capture --------------------------------
(***************************************************************************)
(* The capture calls of a client and what they share: the consent flag,    *)
(* the breadcrumb ring, the crash dedupe window and the session log.  Each *)
(* call takes the locks of those one after the other, so the calls of      *)
(* several game threads, the worker's paced flush and log uploads, a       *)
(* revocation of consent and the end of the process meet between any two   *)
(* of its steps.                                                           *)
(*                                                                         *)
(* A report is done with once it is enqueued: Delivery has its sidecar and *)
(* its upload, Telemetry the batches flushed before it.                    *)
(***************************************************************************)
EXTENDS SessionLog, FiniteSetsExt

CONSTANTS
    Worker,        \* the one of Threads that is the client's worker
    Signatures,    \* crash signatures
    RingSize,      \* capacity of the breadcrumb ring
    MaxTracked,    \* max_tracked_signatures of the dedupe window
    Window,        \* its length
    Budgets        \* bounds of the scenarios explored: how often each thing happens

\* What a budget bounds: the calls (crash: report_crash without a log, attach: with
\* one), the flushes that are not part of a report, the ticks of the clock, the file
\* operations that fail, the deaths.
Kinds == {"line", "crumb", "bug", "crash", "attach", "consent", "flush", "tick",
          "fault", "launch"}

\* The names of the places of lines, besides the threads.
Stores == {"buffer", "file", "previous"}

ASSUME CaptureAssumption ==
    /\ Worker \in Threads /\ IsFiniteSet(Threads) /\ Threads \cap Stores = {}
    /\ {RingSize, MaxTracked} \subseteq Nat \ {0}
    /\ Window \in Nat
    /\ Budgets \subseteq [Kinds -> Nat]

Callers == Threads \ {Worker}

\* A crumb: the revocations before its capture passed the gate, and whether one
\* came while that capture was under way.  Both are history.
Crumb == [ era : Nat \cup {-1}, late : BOOLEAN ]

NoCrumb == [ era |-> -1, late |-> FALSE ]   \* a scrubbed slot

\* What a thread is doing; line is the first line of its crash entry, 0 if none.
Idle == [ op |-> "idle", at |-> "gate", era |-> 0, late |-> FALSE, sig |-> "none",
          now |-> 0, line |-> 0, log |-> FALSE ]

VARIABLES
    consent,    \* consent_
    ring,       \* breadcrumbs_: slots, head, count
    recent,     \* dedupe_.recent_: last_sent and suppressed, by signature
    now,        \* the steady clock
    frame,      \* per thread, the call it is in
    closing,    \* ~Client is running: no call holds the client any more
    (* history and bounds *)
    era,        \* revocations so far
    awaited,    \* the crash lines whose report still waits for its log upload
    left,       \* the calls that ended with a line to put on disk, and its place then
    passed,     \* the crash reports made: signature, time, clears of recent_ before
    clears,     \* times recent_ was emptied for its bound
    session,    \* the number of the process
    budget      \* what is left of the budget

callVars  == <<consent, ring, recent, now, frame, closing>>
pastVars  == <<era, awaited, left, passed, clears>>
boundVars == <<session, budget>>
vars == <<logVars, callVars, pastVars, boundVars>>

Spend(kind) == budget[kind] > 0 /\ budget' = [budget EXCEPT ![kind] = @ - 1]

Goto(t, at) == frame' = [frame EXCEPT ![t].at = at]

Return(t) == frame' = [frame EXCEPT ![t] = Idle]

-----------------------------------------------------------------------------
(* BreadcrumbRing *)

EmptyRing == [ slots |-> [i \in 0 .. RingSize - 1 |-> NoCrumb], head |-> 0, count |-> 0 ]

AddedMutant(r, crumb) ==
    [ slots |-> [r.slots EXCEPT ![r.head] = crumb],
      head  |-> r.head + 1,
      count |-> IF r.count < RingSize THEN r.count + 1 ELSE r.count ]

Added(r, crumb) ==
    [ slots |-> [r.slots EXCEPT ![r.head] = crumb],
      head  |-> (r.head + 1) % RingSize,
      count |-> IF r.count < RingSize THEN r.count + 1 ELSE r.count ]

\* snapshot, oldest first.
Snapshot(r) ==
    LET start == (r.head + RingSize - r.count) % RingSize
    IN  [i \in 1 .. r.count |-> r.slots[(start + i - 1) % RingSize]]

-----------------------------------------------------------------------------
(* The gate: capture_allowed, at the start of every capture call *)

Begin(t, op, at, log) ==
    /\ frame[t].op = "idle" /\ ~closing
    /\ Spend(op)
    /\ consent
    /\ frame' = [frame EXCEPT ![t] = [Idle EXCEPT !.op = op, !.at = at, !.era = era,
                                                  !.log = log]]

unbegun == <<logVars, consent, ring, recent, now, closing, pastVars, session>>

\* add_breadcrumb and set_level; log_line; report_bug.
AddBreadcrumb(t) == Begin(t, "crumb", "add", FALSE) /\ UNCHANGED unbegun

LogLine(t) == Begin(t, "line", "append", TRUE) /\ UNCHANGED unbegun

ReportBug(t) == Begin(t, "bug", "snapshot", FALSE) /\ UNCHANGED unbegun

\* report_crash; attach_log is log.
ReportCrash(t, log) ==
    Begin(t, IF log THEN "attach" ELSE "crash", "clock", log) /\ UNCHANGED unbegun

-----------------------------------------------------------------------------
(* The steps of the capture calls *)

quietly == <<consent, now, closing, era, session, budget>>

\* record_breadcrumb, the last step of a call that adds one.
RecordBreadcrumb(t) ==
    /\ frame[t].at = "add"
    /\ ring' = Added(ring, [era |-> frame[t].era, late |-> frame[t].late])
    /\ Return(t)
    /\ UNCHANGED <<logVars, recent, awaited, left, passed, clears, quietly>>

\* report_crash computes the signature and reads the clock ...
ReadClock(t) ==
    /\ frame[t].at = "clock"
    /\ \E sig \in Signatures :
          frame' = [frame EXCEPT ![t].at = "dedupe", ![t].sig = sig, ![t].now = now]
    /\ UNCHANGED <<logVars, ring, recent, awaited, left, passed, clears, quietly>>

AllowsMutant(sig, at) == sig \notin DOMAIN recent \/ at - recent[sig].last >= Window - 1

\* DedupeWindow::check lets the report through.
Allows(sig, at) == sig \notin DOMAIN recent \/ at - recent[sig].last >= Window

\* ... before it takes the lock of the window.
Check(t) ==
    /\ frame[t].at = "dedupe"
    /\ LET sig  == frame[t].sig
           full == sig \notin DOMAIN recent /\ Cardinality(DOMAIN recent) >= MaxTracked
           kept == IF full THEN {} ELSE DOMAIN recent
       IN  IF Allows(sig, frame[t].now)
           THEN /\ recent' = [s \in kept \cup {sig} |->
                                IF s = sig THEN [last |-> frame[t].now, suppressed |-> 0]
                                ELSE recent[s]]
                /\ clears' = IF full THEN clears + 1 ELSE clears
                /\ passed' = passed \cup {[sig |-> sig, now |-> frame[t].now,
                                           clears |-> clears', session |-> session,
                                           nth |-> Cardinality(passed)]}
                /\ Goto(t, IF frame[t].log THEN "append" ELSE "snapshot")
           ELSE /\ recent' = [recent EXCEPT ![sig].suppressed = @ + 1]
                /\ Goto(t, "add")
                /\ UNCHANGED <<clears, passed>>
    /\ UNCHANGED <<logVars, ring, awaited, left, quietly>>

\* A log_line appends one line, a report its hint and its trace.
AppendLog(t) ==
    /\ frame[t].at = "append"
    /\ AppendLines(IF frame[t].op = "attach" THEN 2 ELSE 1)
    /\ frame' = [frame EXCEPT
                   ![t].at = IF frame[t].op = "attach" THEN "snapshot" ELSE "add",
                   ![t].line = IF accepted' > accepted THEN accepted + 1 ELSE 0]
    /\ UNCHANGED <<ring, recent, awaited, left, passed, clears, quietly>>

EnqueueMutant(t) ==
    /\ frame[t].at = "snapshot"
    /\ awaited' = IF frame[t].log /\ frame[t].line # 0
                  THEN awaited \cup {frame[t].line} ELSE awaited
    /\ IF frame[t].log THEN Goto(t, "return") ELSE Return(t)
    /\ UNCHANGED <<logVars, ring, recent, left, passed, clears, quietly>>

\* The body is built, with its trail, and enqueued; a report with a log goes on
\* to its final flush.
Enqueue(t) ==
    /\ frame[t].at = "snapshot"
    /\ awaited' = IF frame[t].log /\ frame[t].line # 0
                  THEN awaited \cup {frame[t].line} ELSE awaited
    /\ IF frame[t].log THEN Goto(t, "take") ELSE Return(t)
    /\ UNCHANGED <<logVars, ring, recent, left, passed, clears, quietly>>

-----------------------------------------------------------------------------
(* set_consent *)

ExchangeMutant(t, granted) ==
    /\ ~closing /\ granted # consent
    /\ \/ /\ frame[t].op = "idle" /\ ~granted
          /\ ring' = EmptyRing
          /\ frame' = [frame EXCEPT ![t].op = "revoke", ![t].at = "swap"]
          /\ UNCHANGED <<consent, era, budget>>
       \/ /\ IF granted THEN frame[t].op = "idle" ELSE frame[t].at = "swap"
          /\ Spend("consent")
          /\ consent' = granted
          /\ era' = IF granted THEN era ELSE era + 1
          /\ frame' = [u \in Threads |->
                         IF granted THEN frame[u]
                         ELSE IF u = t THEN Idle
                         ELSE [frame[u] EXCEPT !.late = frame[u].op # "idle"]]
          /\ UNCHANGED ring
    /\ UNCHANGED <<logVars, recent, now, closing, awaited, left, passed, clears, session>>

\* consent_.exchange(granted), when it changes anything: what is under way now is
\* late.
Exchange(t, granted) ==
    /\ frame[t].op = "idle" /\ ~closing
    /\ granted # consent
    /\ Spend("consent")
    /\ consent' = granted
    /\ era' = IF granted THEN era ELSE era + 1
    /\ frame' = [u \in Threads |->
                   IF granted THEN frame[u]
                   ELSE IF u = t THEN [Idle EXCEPT !.op = "revoke", !.at = "purge"]
                   ELSE [frame[u] EXCEPT !.late = frame[u].op # "idle"]]
    /\ UNCHANGED <<logVars, ring, recent, now, closing, awaited, left, passed, clears,
                   session>>

\* breadcrumbs_.clear(), after the exchange.
Purge(t) ==
    /\ frame[t].at = "purge"
    /\ ring' = EmptyRing
    /\ Return(t)
    /\ UNCHANGED <<logVars, recent, awaited, left, passed, clears, quietly>>

-----------------------------------------------------------------------------
(* Flushes: the final flush of report_crash, tombstone_flush, the worker's   *)
(* paced flush, the worker's read of the log for an upload, and ~Client      *)

\* tombstone_flush of a game thread, or the worker's paced flush.
BeginFlush(t) ==
    /\ frame[t].op = "idle"
    /\ t \in Callers => ~closing
    /\ \A u \in Callers : frame[u].at # "over"
    /\ Spend("flush")
    /\ frame' = [frame EXCEPT ![t] = [Idle EXCEPT !.op = "flush", !.at = "take"]]
    /\ UNCHANGED <<logVars, consent, ring, recent, now, closing, pastVars, session>>

\* A log was granted to an enqueued crash report: read_current.
BeginUpload(line) ==
    /\ frame[Worker].op = "idle"
    /\ \A u \in Callers : frame[u].at # "over"
    /\ line \in awaited
    /\ awaited' = awaited \ {line}
    /\ frame' = [frame EXCEPT ![Worker] = [Idle EXCEPT !.op = "upload", !.at = "take",
                                                       !.line = line]]
    /\ UNCHANGED <<logVars, consent, ring, recent, now, closing, era, left, passed, clears,
                   boundVars>>

\* ~Client: the last call has returned.
BeginQuit(t) ==
    /\ t \in Callers
    /\ ~closing
    /\ \A u \in Callers : frame[u].op = "idle"
    /\ closing' = TRUE
    /\ frame' = [frame EXCEPT ![t] = [Idle EXCEPT !.op = "quit", !.at = "take"]]
    /\ UNCHANGED <<logVars, consent, ring, recent, now, pastVars, boundVars>>

\* Where a line is now.
PlaceOf(line) ==
    IF line \in Ids(buffer) THEN "memory"
    ELSE IF \E t \in Threads : line \in Ids(chunk[t]) THEN "chunk" ELSE "disk"

\* What is behind a flush: the upload's read of the file, the worker's join,
\* or the return of the call.
AfterFlush(t) ==
    CASE frame[t].op = "upload" -> "read"
      [] frame[t].op = "quit"   -> "join"
      [] OTHER                  -> "return"

TakeChunk(t) ==
    /\ frame[t].at = "take"
    /\ TakePending(t)
    /\ Goto(t, IF buffer = <<>> THEN AfterFlush(t) ELSE "write")
    /\ UNCHANGED <<ring, recent, awaited, left, passed, clears, quietly>>

PutChunk(t) ==
    /\ frame[t].at = "write"
    /\ \/ WriteChunk(t) /\ UNCHANGED budget
       \/ Spend("fault") /\ WriteFails(t)
    /\ Goto(t, AfterFlush(t))
    /\ UNCHANGED <<consent, ring, recent, now, closing, pastVars, session>>

\* The call returns, or the upload reads the file.
EndFlush(t) ==
    /\ frame[t].at \in {"return", "read"}
    /\ left' = IF frame[t].line = 0 THEN left
               ELSE left \cup {<<frame[t].op, PlaceOf(frame[t].line)>>}
    /\ Return(t)
    /\ UNCHANGED <<logVars, ring, recent, awaited, passed, clears, quietly>>

\* The worker has been joined: ~Client is over.
EndQuit(t) ==
    /\ frame[t].at = "join"
    /\ frame[Worker].op = "idle"
    /\ left' = left \cup {<<"quit", PlaceOf(e.id)>> : e \in {x \in InMemory : x.id # 0}}
    /\ Goto(t, "over")
    /\ UNCHANGED <<logVars, ring, recent, awaited, passed, clears, quietly>>

\* The process ends, at any point, and starts again.
Relaunch(moved, torn) ==
    /\ session' = session + 1
    /\ Spend("launch")
    /\ moved \/ budget["fault"] > 0
    /\ Rotate(moved, torn)
    /\ consent' = TRUE /\ ring' = EmptyRing /\ recent' = <<>> /\ closing' = FALSE
    /\ frame' = [t \in Threads |-> Idle] /\ awaited' = {}
    /\ UNCHANGED <<now, era, left, passed, clears>>

Tick ==
    /\ Spend("tick")
    /\ now' = now + 1
    /\ UNCHANGED <<logVars, consent, ring, recent, frame, closing, pastVars, session>>
-----------------------------------------------------------------------------

Init ==
    /\ LogInit
    /\ consent = TRUE /\ ring = EmptyRing /\ recent = <<>> /\ now = 0
    /\ frame = [t \in Threads |-> Idle] /\ closing = FALSE
    /\ era = 0 /\ awaited = {} /\ left = {} /\ passed = {} /\ clears = 0
    /\ session = 1 /\ budget \in Budgets

CallStep(t) ==
    \/ AddBreadcrumb(t) \/ LogLine(t) \/ ReportBug(t)
    \/ \E log \in BOOLEAN : ReportCrash(t, log)
    \/ RecordBreadcrumb(t) \/ ReadClock(t) \/ Check(t) \/ AppendLog(t) \/ Enqueue(t)
    \/ \E granted \in BOOLEAN : Exchange(t, granted)
    \/ Purge(t)
    \/ BeginQuit(t) \/ EndQuit(t)

FlushStep(t) == BeginFlush(t) \/ TakeChunk(t) \/ PutChunk(t) \/ EndFlush(t)

\* No call is under way.
Rest ==
    /\ \A t \in Threads : frame[t].op = "idle" \/ frame[t].at = "over"
    /\ UNCHANGED vars

Next ==
    \/ \E t \in Callers : CallStep(t)
    \/ \E t \in Threads : FlushStep(t)
    \/ \E line \in awaited : BeginUpload(line)
    \/ \E moved, torn \in BOOLEAN : Relaunch(moved, torn)
    \/ Tick \/ Rest

Spec == Init /\ [][Next]_vars

-----------------------------------------------------------------------------
(* Properties *)

\* Types, and what a thread holds while it is between two steps.
TypeOK ==
    /\ LogTypeOK
    /\ consent \in BOOLEAN /\ closing \in BOOLEAN
    /\ ring.head \in 0 .. RingSize - 1 /\ ring.count \in 0 .. RingSize
    /\ \A i \in 0 .. RingSize - 1 : ring.slots[i] \in Crumb
    /\ DOMAIN recent \subseteq Signatures /\ Cardinality(DOMAIN recent) <= MaxTracked
    /\ {now, era, clears, session} \subseteq Nat /\ budget \in [Kinds -> Nat]
    /\ \A t \in Threads : chunk[t] # <<>> => frame[t].at = "write"
    /\ awaited \subseteq 1 .. accepted

\* Every place that holds lines, by name.
Places == [ place \in Stores \cup Threads |->
              CASE place = "buffer"   -> buffer
                [] place = "file"     -> file
                [] place = "previous" -> previous
                [] OTHER              -> chunk[place] ]

Copies(id) == UNION {{place} \X {i \in DOMAIN Places[place] : Places[place][i].id = id} :
                        place \in DOMAIN Places}

Announced == MapThenSumSet(LAMBDA e : e.drops,
                           gone \cup UNION {EntriesOf(Places[p]) : p \in DOMAIN Places})

\* No line is lost or written twice, whoever flushes: it is in the buffer, in one
\* chunk, in one of the two files, or was cut off, replaced or lost with the
\* process or a failed write.  Every line the full buffer refused is in the count
\* of exactly one overflow marker, or still to be announced.
LinesAccountedFor ==
    /\ \A id \in 1 .. accepted :
          Cardinality(Copies(id)) = IF \E e \in gone : e.id = id THEN 0 ELSE 1
    /\ refused = dropped + Announced

\* The files keep the order of the calls, except between lines taken by two
\* flushes of which one had not written its chunk when the other took its own.
LogOrder ==
    \A s \in {file, previous} : \A i, j \in DOMAIN s :
       (i < j /\ s[j].id # 0 /\ s[i].id > s[j].id) => {s[i].flush, s[j].flush} \in overlaps

\* report_crash: "the on-disk log must include this crash"; read_current is
\* "flushed first"; ~Client flushes the log.  None of them ends with a line it
\* answers for still in the buffer - though another flush may have it in its hands.
EndedIsFlushed == \A ended \in left : ended[2] # "memory"

\* set_consent: "purge buffered breadcrumbs so the pre-revoke trail can't attach to
\* a crash captured after consent is re-granted": once the purge is done, nothing
\* in the ring (used slots or not) is from before the revocation, except what a
\* capture that had passed the gate adds behind it.  And what a report attaches
\* was added to the ring, never a slot that was scrubbed or not used yet.
RevokedTrailIsPurged ==
    /\ (\A t \in Threads : frame[t].at # "purge") =>
          \A i \in DOMAIN ring.slots :
             ring.slots[i] # NoCrumb => ring.slots[i].era = era \/ ring.slots[i].late
    /\ NoCrumb \notin EntriesOf(Snapshot(ring))

\* Two reports of a crash within the window are both let through only when the
\* bounded map was emptied between them, even when the clock was read before the
\* lock was taken.
DedupeHolds ==
    \A p, q \in passed :
       (p # q /\ p.sig = q.sig /\ p.session = q.session /\ p.clears = q.clears)
          => p.now - q.now >= Window \/ q.now - p.now >= Window

\* "The on-disk log must include this crash even if the process dies before the
\* upload", as report_crash says of itself.
CrashIsOnDisk == \A ended \in left : ended[1] = "attach" => ended[2] = "disk"
=============================================================================

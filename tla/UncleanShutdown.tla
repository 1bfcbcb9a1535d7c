--------------------------- MODULE UncleanShutdown ---------------------------
(***************************************************************************)
(* How a session that died is found and reported by a later one: the       *)
(* session.lock marker (SessionMarker, Client::start_session_tracking),    *)
(* the native crash dump, the crash sidecars restored at init, and the     *)
(* order in which Client::init, ~Client and the death of the process touch *)
(* those files.                                                            *)
(*                                                                         *)
(* A session is one Client, numbered in the order of tombstone_init.  One  *)
(* process may run several: tombstone_shutdown unpublishes a client, but   *)
(* ~Client runs when the last call that holds it returns, and              *)
(* tombstone_init may come first.  The data directory is usable, unclean-  *)
(* shutdown detection is on, and sidecar writes succeed (Delivery has the  *)
(* failures).                                                              *)
(***************************************************************************)
EXTENDS Integers, FiniteSets

CONSTANTS
    MaxSessions,    \* bound on the calls of tombstone_init explored
    NativeHandler   \* options.enable_native_crash_handler, on a POSIX build

ASSUME UncleanShutdownAssumption ==
    MaxSessions \in Nat \ {0} /\ NativeHandler \in BOOLEAN

Sessions == 1 .. MaxSessions

\* What the marker and the dump file may hold, besides a session's data.
Absent  == -1    \* no file
Garbage == 0     \* an empty or unparsable file

\* A crash report: which session it says has died or crashed, which session
\* made it, and how it came about.
Report == [ about : Sessions, by : Sessions, kind : {"managed", "unclean", "native"} ]

VARIABLES
    (* processes *)
    phase,         \* "unborn" | "dump" | "install" | "scan" | "consent" | "live"
                   \*   | "retiring" | "ended" | "dead", per session
    tracking,      \* start_session_tracking: "no" | "report" | "done", per session
    previous,      \* previous_marker_ (0: none), per session
    previousDump,  \* previous_native_dump_ (0: none), per session
    restored,      \* the crash sidecars drain_sidecars found, per session
    installed,     \* g_state.installed of this process
    linked,        \* g_state.dump_fd refers to the file of that name
    (* disk *)
    marker,        \* session.lock
    dump,          \* native-crash.dump
    pending,       \* the crash sidecars
    (* history *)
    sent,          \* the reports made
    dumped,        \* the sessions whose death left a whole dump on disk
    suppressed,    \* the found dead sessions left out for a restored crash
    forgone,       \* the found dead sessions whose finder ended before reporting
    overlapped     \* a session was initialised before ~Client of another ran

fileVars    == <<marker, dump, pending>>
handlerVars == <<installed, linked>>
historyVars == <<sent, dumped, suppressed, forgone, overlapped>>
sessionVars == <<phase, tracking, previous, previousDump, restored>>
vars == <<sessionVars, handlerVars, fileVars, historyVars>>

Alive == {s \in Sessions : phase[s] \notin {"unborn", "ended", "dead"}}

Born == {s \in Sessions : phase[s] # "unborn"}

Move(s, next) == phase' = [phase EXCEPT ![s] = next]

-----------------------------------------------------------------------------
(* tombstone_init, under g_client_mutex *)

BeginMutant(s) ==
    /\ s = Cardinality(Born) + 1
    /\ \A t \in Alive : phase[t] = "retiring"
    /\ marker' = Absent
    /\ overlapped' = (overlapped \/ Alive # {})
    /\ Move(s, "dump")
    /\ UNCHANGED <<previous, tracking, previousDump, restored, handlerVars, dump, pending,
                   sent, dumped, suppressed, forgone>>

\* configure_storage: SessionMarker::take_previous reads and deletes the marker.
Begin(s) ==
    /\ s = Cardinality(Born) + 1
    /\ \A t \in Alive : phase[t] = "retiring"
    /\ previous' = [previous EXCEPT ![s] = IF marker \in Sessions THEN marker ELSE 0]
    /\ marker' = Absent
    /\ overlapped' = (overlapped \/ Alive # {})
    /\ Move(s, "dump")
    /\ UNCHANGED <<tracking, previousDump, restored, handlerVars, dump, pending,
                   sent, dumped, suppressed, forgone>>

TakeDumpMutant(s) ==
    /\ phase[s] = "dump"
    /\ dump' = IF NativeHandler THEN Absent ELSE dump
    /\ linked' = (linked /\ dump' = dump)
    /\ Move(s, "install")
    /\ UNCHANGED <<tracking, previous, previousDump, restored, installed, marker, pending,
                   historyVars>>

\* native_crash::take_previous reads and unlinks the dump, whoever has it open.
TakeDump(s) ==
    /\ phase[s] = "dump"
    /\ IF NativeHandler
       THEN /\ previousDump' = [previousDump EXCEPT
                                  ![s] = IF dump \in Sessions THEN dump ELSE 0]
            /\ dump' = Absent
            /\ linked' = (linked /\ dump = Absent)
       ELSE UNCHANGED <<previousDump, dump, linked>>
    /\ Move(s, "install")
    /\ UNCHANGED <<tracking, previous, restored, installed, marker, pending, historyVars>>

\* native_crash::install opens (and truncates) the dump file once per process.
Install(s) ==
    /\ phase[s] = "install"
    /\ IF NativeHandler /\ ~installed
       THEN installed' = TRUE /\ linked' = TRUE /\ dump' = Garbage
       ELSE UNCHANGED <<installed, linked, dump>>
    /\ Move(s, "scan")
    /\ UNCHANGED <<tracking, previous, previousDump, restored, marker, pending, historyVars>>

ScanMutant(s) ==
    /\ phase[s] = "scan"
    /\ Move(s, "consent")
    /\ UNCHANGED <<restored, tracking, previous, previousDump, handlerVars, fileVars,
                   historyVars>>

\* drain_sidecars; has_restored_crash_ is restored[s] # {}.
Scan(s) ==
    /\ phase[s] = "scan"
    /\ restored' = [restored EXCEPT ![s] = pending]
    /\ Move(s, "consent")
    /\ UNCHANGED <<tracking, previous, previousDump, handlerVars, fileVars, historyVars>>

\* replay_preinit is over and g_client is set.
Publish(s) ==
    /\ phase[s] = "consent"
    /\ tracking[s] # "report"
    /\ Move(s, "live")
    /\ UNCHANGED <<tracking, previous, previousDump, restored, handlerVars, fileVars,
                   historyVars>>

-----------------------------------------------------------------------------
(* start_session_tracking: at init, or at set_consent(1) *)

\* The first grant of consent latches session_tracking_started_ and writes the
\* marker.  A call that holds a retiring client may still be the one.
Track(s) ==
    /\ phase[s] \in {"consent", "live", "retiring"}
    /\ tracking[s] = "no"
    /\ marker' = s
    /\ tracking' = [tracking EXCEPT ![s] = "report"]
    /\ UNCHANGED <<phase, previous, previousDump, restored, handlerVars, dump, pending,
                   historyVars>>

Make(report) ==
    /\ pending' = pending \cup {report}
    /\ sent' = sent \cup {report}

\* report_unclean_shutdown: a restored crash beats a dump beats the heuristic.
ReportPrevious(s) ==
    /\ s \in Alive
    /\ tracking[s] = "report"
    /\ \/ /\ previous[s] # 0
          /\ restored[s] = {}
          /\ Make([about |-> previous[s], by |-> s,
                   kind |-> IF previousDump[s] # 0 THEN "native" ELSE "unclean"])
          /\ UNCHANGED suppressed
       \/ /\ previous[s] # 0
          /\ restored[s] # {}
          /\ suppressed' = suppressed \cup {previous[s]}
          /\ UNCHANGED <<pending, sent>>
       \/ previous[s] = 0 /\ UNCHANGED <<pending, sent, suppressed>>
    /\ previousDump' = IF previous[s] = 0 THEN previousDump
                       ELSE [previousDump EXCEPT ![s] = 0]
    /\ previous' = [previous EXCEPT ![s] = 0]
    /\ tracking' = [tracking EXCEPT ![s] = "done"]
    /\ UNCHANGED <<phase, restored, handlerVars, marker, dump, dumped, forgone, overlapped>>

-----------------------------------------------------------------------------
(* The session's life and its end *)

\* tombstone_report_crash (once per session here): a write-ahead sidecar.
ReportCrash(s) ==
    /\ phase[s] \in {"live", "retiring"}
    /\ tracking[s] # "no"
    /\ LET report == [about |-> s, by |-> s, kind |-> "managed"]
       IN  report \notin sent /\ Make(report)
    /\ UNCHANGED <<sessionVars, handlerVars, marker, dump, dumped, suppressed, forgone,
                   overlapped>>

\* Some client's worker gets an answer for a report and removes its sidecar.
Deliver(report) ==
    /\ report \in pending
    /\ \E s \in Alive : phase[s] \in {"consent", "live", "retiring"}
                          /\ (report.by = s \/ report \in restored[s])
    /\ pending' = pending \ {report}
    /\ UNCHANGED <<sessionVars, handlerVars, marker, dump, historyVars>>

\* tombstone_shutdown: g_client is emptied.
Shutdown(s) ==
    /\ phase[s] = "live"
    /\ Move(s, "retiring")
    /\ UNCHANGED <<tracking, previous, previousDump, restored, handlerVars, fileVars,
                   historyVars>>

\* What a session that ends takes with it: a death it had still to report.
Unreported(sessions) == {previous[s] : s \in sessions} \ {0}

RetireMutant(s) ==
    /\ phase[s] = "retiring"
    /\ tracking[s] # "report"
    /\ forgone' = forgone \cup Unreported({s})
    /\ Move(s, "ended")
    /\ UNCHANGED <<marker, tracking, previous, previousDump, restored, handlerVars, dump,
                   pending, sent, dumped, suppressed, overlapped>>

\* ~Client, when the last call that holds the client has returned.
Retire(s) ==
    /\ phase[s] = "retiring"
    /\ tracking[s] # "report"
    /\ marker' = Absent
    /\ forgone' = forgone \cup Unreported({s})
    /\ Move(s, "ended")
    /\ UNCHANGED <<tracking, previous, previousDump, restored, handlerVars, dump, pending,
                   sent, dumped, suppressed, overlapped>>

\* The process is gone, with all its sessions.
Gone ==
    /\ phase' = [s \in Sessions |-> IF s \in Alive THEN "dead" ELSE phase[s]]
    /\ forgone' = forgone \cup Unreported(Alive)
    /\ installed' = FALSE /\ linked' = FALSE
    /\ UNCHANGED <<tracking, previous, previousDump, restored, pending, sent, suppressed,
                   overlapped>>

\* The process exits with no client left, or is killed.
Exit == Alive = {} /\ installed /\ Gone /\ UNCHANGED <<marker, dump, dumped>>

Killed == Alive # {} /\ Gone /\ UNCHANGED <<marker, dump, dumped>>

\* It dies inside SessionMarker::write, after the file was truncated.
KilledInTrack(s) ==
    /\ phase[s] \in {"consent", "live", "retiring"}
    /\ tracking[s] = "no"
    /\ marker' = Garbage
    /\ Gone
    /\ UNCHANGED <<dump, dumped>>

\* A fatal signal: the handler writes the dump, whole or cut off, through its
\* descriptor, even if the last client is gone.
Signal(whole) ==
    /\ installed
    /\ LET subject == Cardinality(Born)
       IN  IF linked
           THEN /\ dump' = IF whole THEN subject ELSE Garbage
                /\ dumped' = IF whole THEN dumped \cup Alive ELSE dumped
           ELSE UNCHANGED <<dump, dumped>>
    /\ Gone
    /\ UNCHANGED marker
-----------------------------------------------------------------------------

Init ==
    /\ phase = [s \in Sessions |-> "unborn"] /\ tracking = [s \in Sessions |-> "no"]
    /\ previous = [s \in Sessions |-> 0] /\ previousDump = [s \in Sessions |-> 0]
    /\ restored = [s \in Sessions |-> {}]
    /\ installed = FALSE /\ linked = FALSE
    /\ marker = Absent /\ dump = Absent /\ pending = {}
    /\ sent = {} /\ dumped = {} /\ suppressed = {} /\ forgone = {} /\ overlapped = FALSE

InitStep(s) == Begin(s) \/ TakeDump(s) \/ Install(s) \/ Scan(s) \/ Publish(s)

\* No launch is left to explore and nothing runs.
Over == Alive = {} /\ ~installed /\ Born = Sessions /\ UNCHANGED vars

Next ==
    \/ \E s \in Sessions :
          \/ InitStep(s)
          \/ Track(s) \/ ReportPrevious(s)
          \/ ReportCrash(s) \/ Shutdown(s) \/ Retire(s)
          \/ KilledInTrack(s)
    \/ \E report \in pending : Deliver(report)
    \/ Exit \/ Killed
    \/ \E whole \in BOOLEAN : Signal(whole)
    \/ Over

Spec == Init /\ [][Next]_vars

-----------------------------------------------------------------------------
(* Properties *)

Deaths == {r \in sent : r.kind # "managed"}

\* A session that was shut down cleanly is never reported as dead, as long as
\* no session is initialised before ~Client of the one before it has run.
CleanIsNotReported ==
    ~overlapped => \A r \in Deaths : phase[r.about] = "dead"

\* report_unclean_shutdown: "No double counting" - a session whose own crash
\* report has survived on disk is not reported as dead on top of it.
NoDoubleCounting ==
    ~overlapped =>
       \A r \in Deaths : \A q \in pending : q.kind = "managed" => q.about # r.about

\* The death of a tracked session is never forgotten silently: its marker is on
\* disk or in memory, a report of it exists, or the code gave it up at one of
\* two known places (the finder ended before it had consent, or another restored
\* crash stood for it).
DeathAccountedFor ==
    ~overlapped =>
       \A p \in Sessions : (phase[p] = "dead" /\ tracking[p] # "no") =>
          \/ marker = p \/ \E s \in Alive : previous[s] = p
          \/ \E r \in sent : r.about = p
          \/ p \in suppressed \cup forgone

\* "A captured native crash dump beats the generic heuristic": no session whose
\* death left a whole dump in the file is reported as a mere unclean shutdown.
DumpBeatsHeuristic == \A r \in sent : r.kind = "unclean" => r.about \notin dumped

\* report_unclean_shutdown: the report is left out "when a crash sidecar from
\* that session was restored, the death is already represented".
SuppressedIsRepresented == \A p \in suppressed : \E r \in sent : r.about = p

\* tombstone_shutdown: "Clean shutdown: ... deletes the unclean-shutdown marker"
\* - a session that was shut down, and has ended, is never reported as dead.
ShutdownIsNotReported ==
    \A r \in Deaths : phase[r.about] # "ended"
=============================================================================

---------------------------- MODULE UncleanProofs ----------------------------
(***************************************************************************)
(* Proofs about UncleanShutdown, for every number of sessions and with or  *)
(* without the native handler: a session that was shut down is not         *)
(* reported dead, none is reported twice, none is forgotten, and a dump    *)
(* beats the heuristic.                                                    *)
(***************************************************************************)
EXTENDS UncleanShutdown, FiniteSetTheorems, TLAPS

-----------------------------------------------------------------------------
(* The inductive invariant *)

\* Types.
Types ==
    /\ phase \in [Sessions -> {"unborn", "dump", "install", "scan", "consent", "live",
                               "retiring", "ended", "dead"}]
    /\ tracking \in [Sessions -> {"no", "report", "done"}]
    /\ previous \in [Sessions -> 0 .. MaxSessions]
    /\ previousDump \in [Sessions -> 0 .. MaxSessions]
    /\ restored \in [Sessions -> SUBSET Report]
    /\ installed \in BOOLEAN /\ linked \in BOOLEAN /\ overlapped \in BOOLEAN
    /\ marker \in {Absent, Garbage} \cup Sessions /\ dump \in {Absent, Garbage} \cup Sessions
    /\ pending \subseteq sent /\ sent \subseteq Report
    /\ dumped \subseteq Sessions /\ suppressed \subseteq Sessions /\ forgone \subseteq Sessions

\* Sessions are numbered as they are initialised, only the newest is not retiring, and a
\* session finds and reports earlier ones only.
Order ==
    /\ \E k \in 0 .. MaxSessions : Born = 1 .. k
    /\ \A s \in Alive : phase[s] # "retiring" => \A t \in Born : t <= s
    /\ \A s \in Sessions : previous[s] # 0 => previous[s] < s
    /\ \A s \in Sessions : phase[s] = "unborn" => previous[s] = 0
    /\ \A s \in Sessions : tracking[s] # "no" => phase[s] \notin {"unborn", "dump", "install", "scan"}
    /\ \A r \in sent : /\ phase[r.by] # "unborn"
                       /\ IF r.kind = "managed" THEN r.about = r.by ELSE r.about < r.by
    /\ ~overlapped => \A s, t \in Alive : s = t

\* The marker names a session of this process, or one that died in the last process.
MarkerTrue ==
    /\ marker \in Sessions => marker \in Alive \/ (phase[marker] = "dead" /\ ~installed /\ Alive = {})
    /\ ~overlapped => \A s \in Alive : marker = IF tracking[s] = "no" THEN Absent ELSE s

\* A found session is dead and so is every one reported dead; the crashes a found session
\* had left on disk are among those its finder has restored.
FoundFacts ==
    /\ \A s \in Sessions : previous[s] # 0 => phase[previous[s]] = "dead"
    /\ \A r \in Deaths : phase[r.about] = "dead"
    /\ \A s \in Alive : \A q \in pending :
          phase[s] \notin {"dump", "install", "scan"} /\ q.kind = "managed"
             /\ q.about = previous[s] => q \in restored[s]
    /\ \A r \in Deaths : \A q \in pending : q.kind = "managed" => q.about # r.about

\* A whole dump waits in the file, or with the finder of its session, until it is
\* reported; a handler whose file is still in place can only dump sessions nobody has
\* found yet.
DumpTrue ==
    /\ installed => NativeHandler
    /\ linked => installed /\ dump # Absent
    /\ NativeHandler => \A s \in Sessions :
                           phase[s] \in {"scan", "consent", "live", "retiring"} => installed
    /\ \A p \in dumped : phase[p] = "dead" /\ NativeHandler
    /\ marker \in dumped => dump \in Sessions
    /\ \A s \in Alive : previous[s] \in dumped =>
                           IF phase[s] = "dump" THEN dump \in Sessions ELSE previousDump[s] # 0
    /\ linked => /\ \A s \in Alive : phase[s] = "dump" \/ previous[s] \notin Alive
                 /\ \A r \in sent : r.kind = "unclean" => r.about \notin Alive

\* The inductive invariant.
UncleanInv ==
    /\ Types /\ Order /\ MarkerTrue /\ (~ overlapped => FoundFacts)
    /\ DeathAccountedFor /\ DumpTrue /\ DumpBeatsHeuristic

-----------------------------------------------------------------------------
(* Types and the order of the sessions *)

\* A death leaves nobody alive and nobody unborn that was not.
LEMMA GoneFacts ==
    ASSUME Types, Gone
    PROVE  /\ \A t \in Sessions : phase'[t] = IF t \in Alive THEN "dead" ELSE phase[t]
           /\ Alive' = {} /\ Born' = Born /\ ~ installed' /\ ~ linked'
           /\ UNCHANGED <<tracking, previous, previousDump, restored, pending, sent, suppressed,
                          overlapped>>
           /\ forgone' = forgone \cup Unreported(Alive)
<1>1. /\ \A t \in Sessions : phase'[t] = IF t \in Alive THEN "dead" ELSE phase[t]
      /\ ~ installed' /\ ~ linked'
      /\ UNCHANGED <<tracking, previous, previousDump, restored, pending, sent, suppressed,
                     overlapped>>
      /\ forgone' = forgone \cup Unreported(Alive)
  BY DEF Gone, Types
<1>2. Alive' = {}
  BY <1>1 DEF Alive
<1>3. Born' = Born
  BY <1>1 DEF Born, Alive
<1>4. QED
  BY <1>1, <1>2, <1>3

\* Every way a process ends.
LEMMA DeathCases ==
    ASSUME Exit \/ Killed \/ (\E s \in Sessions : KilledInTrack(s))
             \/ \E whole \in BOOLEAN : Signal(whole)
    PROVE  Gone
BY DEF Exit, Killed, KilledInTrack, Signal

\* How many sessions there are, and which one the next is.
LEMMA Newest ==
    ASSUME Types, Order
    PROVE  /\ Cardinality(Born) \in 0 .. MaxSessions
           /\ \A t \in Sessions : phase[t] # "unborn" <=> t <= Cardinality(Born)
<1>1. PICK k \in 0 .. MaxSessions : Born = 1 .. k
  BY DEF Order
<1>2. Cardinality(1 .. k) = k
  <2>1. Cardinality(1 .. k) = IF 1 > k THEN 0 ELSE k - 1 + 1
    BY <1>1, FS_Interval
  <2>2. QED
    BY <1>1, <2>1
<1>3. Cardinality(Born) = k
  BY <1>1, <1>2
<1>4. \A t \in Sessions : t \in Born <=> t <= k
  BY <1>1 DEF Sessions
<1>5. QED
  BY <1>1, <1>3, <1>4 DEF Born

\* tombstone_init makes the next session, while any other is retiring.
LEMMA BeginFacts ==
    ASSUME Types, Order, NEW s \in Sessions, Begin(s)
    PROVE  /\ phase[s] = "unborn" /\ s \notin Alive
           /\ \A t \in Born : t < s
           /\ \A t \in Sessions : phase'[t] = IF t = s THEN "dump" ELSE phase[t]
           /\ Alive' = Alive \cup {s} /\ Born' = Born \cup {s}
           /\ \A t \in Sessions : previous'[t] = IF t # s THEN previous[t]
                                                 ELSE IF marker \in Sessions THEN marker ELSE 0
           /\ \A t \in Alive : phase[t] = "retiring"
           /\ Born' = 1 .. s
<1>1. s = Cardinality(Born) + 1 /\ s \in Nat
  BY DEF Begin, Sessions
<1>2. phase[s] = "unborn"
  BY <1>1, Newest
<1>3. \A t \in Born : t < s
  BY <1>1, Newest DEF Born, Sessions
<1>4. \A t \in Sessions : phase'[t] = IF t = s THEN "dump" ELSE phase[t]
  BY DEF Begin, Move, Types
<1>5. Alive' = Alive \cup {s} /\ Born' = Born \cup {s} /\ s \notin Alive
  BY <1>2, <1>4 DEF Alive, Born
<1>6. \A t \in Sessions : previous'[t] = IF t # s THEN previous[t]
                                         ELSE IF marker \in Sessions THEN marker ELSE 0
  BY DEF Begin, Types
<1>7. \A t \in Alive : phase[t] = "retiring"
  BY DEF Begin
<1>8. Born' = 1 .. s
  <2>1. \A t : t \in 1 .. s <=> t \in Sessions /\ (t = s \/ t <= Cardinality(Born))
    BY <1>1, Newest, UncleanShutdownAssumption DEF Sessions, UncleanShutdownAssumption
  <2>2. \A t \in Sessions : t \in Born' <=> t = s \/ t <= Cardinality(Born)
    BY <1>4, Newest DEF Born
  <2>3. Born' \subseteq Sessions
    BY DEF Born
  <2>4. QED
    BY <2>1, <2>2, <2>3
<1>9. QED
  BY <1>2, <1>3, <1>4, <1>5, <1>6, <1>7, <1>8

\* The steps of init after the first, the shutdown and the end of a session: one session
\* moves on, the others stay.
LEMMA MoveFacts ==
    ASSUME Types, NEW s \in Sessions,
           TakeDump(s) \/ Install(s) \/ Scan(s) \/ Publish(s) \/ Shutdown(s) \/ Retire(s)
    PROVE  /\ s \in Alive /\ s \in Born
           /\ \A t \in Sessions : t # s => phase'[t] = phase[t]
           /\ Born' = Born /\ Alive' = IF Retire(s) THEN Alive \ {s} ELSE Alive
           /\ TakeDump(s) => phase[s] = "dump" /\ phase'[s] = "install"
           /\ Install(s) => phase[s] = "install" /\ phase'[s] = "scan"
           /\ Scan(s) => phase[s] = "scan" /\ phase'[s] = "consent"
           /\ Publish(s) => phase[s] = "consent" /\ phase'[s] = "live"
           /\ Shutdown(s) => phase[s] = "live" /\ phase'[s] = "retiring"
           /\ Retire(s) => phase[s] = "retiring" /\ phase'[s] = "ended"
           /\ UNCHANGED <<previous, tracking, sent, dumped, suppressed, overlapped>>
           /\ pending' = pending /\ (~ Retire(s) => UNCHANGED <<marker, forgone>>)
<1>1. /\ TakeDump(s) => phase[s] = "dump" /\ phase' = [phase EXCEPT ![s] = "install"]
      /\ Install(s) => phase[s] = "install" /\ phase' = [phase EXCEPT ![s] = "scan"]
      /\ Scan(s) => phase[s] = "scan" /\ phase' = [phase EXCEPT ![s] = "consent"]
      /\ Publish(s) => phase[s] = "consent" /\ phase' = [phase EXCEPT ![s] = "live"]
      /\ Shutdown(s) => phase[s] = "live" /\ phase' = [phase EXCEPT ![s] = "retiring"]
      /\ Retire(s) => phase[s] = "retiring" /\ phase' = [phase EXCEPT ![s] = "ended"]
  BY DEF TakeDump, Install, Scan, Publish, Shutdown, Retire, Move
<1>2. /\ TakeDump(s) => phase'[s] = "install"
      /\ Install(s) => phase'[s] = "scan"
      /\ Scan(s) => phase'[s] = "consent"
      /\ Publish(s) => phase'[s] = "live"
      /\ Shutdown(s) => phase'[s] = "retiring"
      /\ Retire(s) => phase'[s] = "ended"
      /\ \A t \in Sessions : t # s => phase'[t] = phase[t]
  BY <1>1 DEF Types
<1>3. s \in Alive /\ s \in Born
  BY <1>1 DEF Alive, Born
<1>4. Born' = Born
  BY <1>1, <1>2, <1>3 DEF Born
<1>5. Alive' = IF Retire(s) THEN Alive \ {s} ELSE Alive
  BY <1>1, <1>2, <1>3 DEF Alive
<1>6. /\ UNCHANGED <<previous, tracking, sent, dumped, suppressed, overlapped>>
      /\ pending' = pending /\ (~ Retire(s) => UNCHANGED <<marker, forgone>>)
  BY DEF TakeDump, Install, Scan, Publish, Shutdown, Retire, historyVars, fileVars
<1>7. QED
  BY <1>1, <1>2, <1>3, <1>4, <1>5, <1>6

\* The steps that leave the phases alone.
LEMMA StayFacts ==
    ASSUME UNCHANGED phase
    PROVE  Alive' = Alive /\ Born' = Born
BY DEF Alive, Born

\* What a report is about.
LEMMA ReportTyped ==
    ASSUME NEW about \in Sessions, NEW by \in Sessions,
           NEW kind \in {"managed", "unclean", "native"}
    PROVE  [about |-> about, by |-> by, kind |-> kind] \in Report
BY DEF Report

\* report_unclean_shutdown makes one report, or none.
LEMMA ReportPreviousFacts ==
    ASSUME Types, NEW s \in Sessions, ReportPrevious(s)
    PROVE  /\ s \in Alive /\ tracking[s] = "report"
           /\ \A t \in Sessions : /\ previous'[t] = IF t = s THEN 0 ELSE previous[t]
                                  /\ tracking'[t] = IF t = s THEN "done" ELSE tracking[t]
                                  /\ t # s => previousDump'[t] = previousDump[t]
           /\ UNCHANGED <<phase, restored, handlerVars, marker, dump, dumped, forgone, overlapped>>
           /\ \/ previous[s] = 0 /\ UNCHANGED <<pending, sent, suppressed>>
              \/ /\ previous[s] # 0 /\ restored[s] # {} /\ UNCHANGED <<pending, sent>>
                 /\ suppressed' = suppressed \cup {previous[s]}
              \/ /\ previous[s] # 0 /\ restored[s] = {} /\ UNCHANGED suppressed
                 /\ \E r \in Report : /\ r.about = previous[s] /\ r.by = s
                                      /\ r.kind = IF previousDump[s] # 0 THEN "native"
                                                                         ELSE "unclean"
                                      /\ pending' = pending \cup {r} /\ sent' = sent \cup {r}
<1>1. \A t \in Sessions : /\ previous'[t] = IF t = s THEN 0 ELSE previous[t]
                          /\ tracking'[t] = IF t = s THEN "done" ELSE tracking[t]
                          /\ t # s => previousDump'[t] = previousDump[t]
  BY DEF ReportPrevious, Types
<1>2. /\ s \in Alive /\ tracking[s] = "report"
      /\ UNCHANGED <<phase, restored, handlerVars, marker, dump, dumped, forgone, overlapped>>
  BY DEF ReportPrevious
<1>3. CASE previous[s] = 0
  BY <1>1, <1>2, <1>3 DEF ReportPrevious
<1>4. CASE previous[s] # 0 /\ restored[s] # {}
  BY <1>1, <1>2, <1>4 DEF ReportPrevious
<1>5. CASE previous[s] # 0 /\ restored[s] = {}
  <2> DEFINE r == [about |-> previous[s], by |-> s,
                   kind |-> IF previousDump[s] # 0 THEN "native" ELSE "unclean"]
  <2>1. previous[s] \in Sessions
    BY <1>5 DEF Types, Sessions
  <2>2. r \in Report
    BY <2>1, ReportTyped
  <2>3. pending' = pending \cup {r} /\ sent' = sent \cup {r} /\ UNCHANGED suppressed
    BY <1>5 DEF ReportPrevious, Make
  <2>4. \E q \in Report : /\ q.about = previous[s] /\ q.by = s
                          /\ q.kind = IF previousDump[s] # 0 THEN "native" ELSE "unclean"
                          /\ pending' = pending \cup {q} /\ sent' = sent \cup {q}
    BY <2>2, <2>3
  <2>5. QED
    BY <1>1, <1>2, <1>5, <2>3, <2>4
<1>6. QED
  BY <1>3, <1>4, <1>5

\* tombstone_report_crash makes one report of the session's own crash.
LEMMA ReportCrashFacts ==
    ASSUME Types, NEW s \in Sessions, ReportCrash(s)
    PROVE  /\ s \in Alive /\ tracking[s] # "no" /\ phase[s] \in {"live", "retiring"}
           /\ \E r \in Report : /\ r.about = s /\ r.by = s /\ r.kind = "managed"
                                /\ pending' = pending \cup {r} /\ sent' = sent \cup {r}
           /\ UNCHANGED <<sessionVars, handlerVars, marker, dump, dumped, suppressed, forgone,
                          overlapped>>
<1>1. [about |-> s, by |-> s, kind |-> "managed"] \in Report
  BY ReportTyped
<1>2. QED
  BY <1>1 DEF ReportCrash, Make, Alive

\* One step keeps the types.
LEMMA TypesStep ==
    ASSUME Types, Order, Next
    PROVE  Types'
<1>a. MaxSessions \in Nat \ {0} /\ \A s \in Sessions : s \in 0 .. MaxSessions
  BY UncleanShutdownAssumption DEF UncleanShutdownAssumption, Sessions
<1> USE DEF Types
<1>1. ASSUME NEW s \in Sessions, Begin(s)
      PROVE  Types'
  <2>1. previous' \in [Sessions -> 0 .. MaxSessions]
    <3>1. (IF marker \in Sessions THEN marker ELSE 0) \in 0 .. MaxSessions
      BY <1>a
    <3>2. previous' = [previous EXCEPT ![s] = IF marker \in Sessions THEN marker ELSE 0]
      BY <1>1 DEF Begin
    <3>3. QED
      BY <3>1, <3>2
  <2>2. phase' \in [Sessions -> {"unborn", "dump", "install", "scan", "consent", "live",
                                 "retiring", "ended", "dead"}]
    BY <1>1 DEF Begin, Move
  <2>3. overlapped' \in BOOLEAN
    BY <1>1 DEF Begin
  <2>4. QED
    BY <1>1, <2>1, <2>2, <2>3 DEF Begin, handlerVars
<1>2. ASSUME NEW s \in Sessions, TakeDump(s)
      PROVE  Types'
  <2>1. /\ previousDump' \in [Sessions -> 0 .. MaxSessions]
        /\ dump' \in {Absent, Garbage} \cup Sessions /\ linked' \in BOOLEAN
    <3>1. CASE NativeHandler
      BY <1>2, <1>a, <3>1 DEF TakeDump
    <3>2. CASE ~ NativeHandler
      BY <1>2, <3>2 DEF TakeDump
    <3>3. QED
      BY <3>1, <3>2
  <2>2. phase' \in [Sessions -> {"unborn", "dump", "install", "scan", "consent", "live",
                                 "retiring", "ended", "dead"}]
    BY <1>2 DEF TakeDump, Move
  <2>3. QED
    BY <1>2, <2>1, <2>2 DEF TakeDump, historyVars
<1>3. ASSUME NEW s \in Sessions, Install(s)
      PROVE  Types'
  BY <1>3 DEF Install, Move, historyVars
<1>4. ASSUME NEW s \in Sessions, Scan(s)
      PROVE  Types'
  BY <1>4 DEF Scan, Move, historyVars, handlerVars, fileVars
<1>5. ASSUME NEW s \in Sessions, Publish(s) \/ Shutdown(s)
      PROVE  Types'
  BY <1>5 DEF Publish, Shutdown, Move, historyVars, handlerVars, fileVars
<1>6. ASSUME NEW s \in Sessions, Track(s)
      PROVE  Types'
  BY <1>6 DEF Track, historyVars, handlerVars
<1>7. ASSUME NEW s \in Sessions, ReportPrevious(s)
      PROVE  Types'
  <2>1. previous[s] # 0 => previous[s] \in Sessions
    BY DEF Sessions
  <2>2. /\ pending' \subseteq sent' /\ sent' \subseteq Report /\ suppressed' \subseteq Sessions
    BY <1>7, <2>1, ReportPreviousFacts
  <2>3. /\ previousDump' \in [Sessions -> 0 .. MaxSessions]
        /\ previous' \in [Sessions -> 0 .. MaxSessions]
        /\ tracking' \in [Sessions -> {"no", "report", "done"}]
    BY <1>7, <1>a DEF ReportPrevious
  <2>4. QED
    BY <1>7, <2>2, <2>3 DEF ReportPrevious, handlerVars
<1>8. ASSUME NEW s \in Sessions, ReportCrash(s)
      PROVE  Types'
  <2>1. pending' \subseteq sent' /\ sent' \subseteq Report
    BY <1>8, ReportCrashFacts
  <2>2. QED
    BY <1>8, <2>1 DEF ReportCrash, sessionVars, handlerVars
<1>b. \A s \in Sessions : previous[s] # 0 => previous[s] \in Sessions
  BY DEF Sessions
<1>9. ASSUME NEW s \in Sessions, Retire(s)
      PROVE  Types'
  BY <1>9, <1>b DEF Retire, Move, handlerVars, Unreported
<1>10. ASSUME NEW report \in pending, Deliver(report)
       PROVE  Types'
  BY <1>10 DEF Deliver, sessionVars, handlerVars, historyVars
<1>11. ASSUME Gone, dumped' \subseteq Sessions,
              marker' \in {Absent, Garbage} \cup Sessions, dump' \in {Absent, Garbage} \cup Sessions
       PROVE  Types'
  <2>1. forgone' \subseteq Sessions
    BY <1>11, <1>b DEF Gone, Unreported, Alive
  <2>2. phase' \in [Sessions -> {"unborn", "dump", "install", "scan", "consent", "live",
                                 "retiring", "ended", "dead"}]
    BY <1>11 DEF Gone
  <2>3. QED
    BY <1>11, <2>1, <2>2 DEF Gone
<1>12. CASE Exit \/ Killed \/ \E s \in Sessions : KilledInTrack(s)
  BY <1>11, <1>12 DEF Exit, Killed, KilledInTrack
<1>13. CASE \E whole \in BOOLEAN : Signal(whole)
  <2>1. PICK whole \in BOOLEAN : Signal(whole)
    BY <1>13
  <2>2. Gone /\ marker' = marker
    BY <2>1 DEF Signal
  <2>3. dumped' \subseteq Sessions
    BY <2>1 DEF Signal, Alive
  <2>4. dump' \in {Absent, Garbage} \cup Sessions
    <3>1. Cardinality(Born) \in Sessions \cup {Garbage}
      BY Newest DEF Sessions, Garbage
    <3>2. QED
      BY <2>1, <3>1 DEF Signal
  <2>5. QED
    BY <1>11, <2>2, <2>3, <2>4
<1>14. CASE Over
  BY <1>14 DEF Over, vars, sessionVars, handlerVars, fileVars, historyVars
<1>15. QED
  BY <1>1, <1>2, <1>3, <1>4, <1>5, <1>6, <1>7, <1>8, <1>9, <1>10, <1>12, <1>13, <1>14
     DEF Next, InitStep

\* One step keeps the order of the sessions.
LEMMA OrderStep ==
    ASSUME Types, Order, MarkerTrue, Next
    PROVE  Order'
<1>a. /\ \E k \in 0 .. MaxSessions : Born = 1 .. k
      /\ \A s \in Alive : phase[s] # "retiring" => \A t \in Born : t <= s
      /\ \A s \in Sessions : previous[s] # 0 => previous[s] < s
      /\ \A s \in Sessions : phase[s] = "unborn" => previous[s] = 0
      /\ \A s \in Sessions : tracking[s] # "no" => phase[s] \notin {"unborn", "dump", "install", "scan"}
      /\ \A r \in sent : /\ phase[r.by] # "unborn"
                         /\ IF r.kind = "managed" THEN r.about = r.by ELSE r.about < r.by
      /\ ~overlapped => \A s, t \in Alive : s = t
  BY DEF Order
<1>b. \A r \in sent : r.by \in Sessions
  BY DEF Types, Report
<1>1. ASSUME NEW s \in Sessions, Begin(s)
      PROVE  Order'
  <2>1. s \in 0 .. MaxSessions /\ \A t \in Sessions : t <= t
    BY UncleanShutdownAssumption DEF Sessions, UncleanShutdownAssumption
  <2>2. \E k \in 0 .. MaxSessions : Born' = 1 .. k
    BY <1>1, <2>1, BeginFacts
  <2>3. \A u \in Alive' : phase'[u] # "retiring" => \A t \in Born' : t <= u
    <3>1. ASSUME NEW u \in Alive', phase'[u] # "retiring", NEW t \in Born'
          PROVE  t <= u
      <4>1. u = s
        BY <1>1, <3>1, BeginFacts DEF Alive
      <4>2. t = s \/ t < s
        BY <1>1, <3>1, BeginFacts
      <4>3. t \in Nat /\ s \in Nat
        BY DEF Born, Sessions
      <4>4. QED
        BY <4>1, <4>2, <4>3
    <3>2. QED
      BY <3>1
  <2>4. \A u \in Sessions : previous'[u] # 0 => previous'[u] < u
    <3>1. ASSUME marker \in Sessions
          PROVE  marker \in Born
      BY <3>1 DEF MarkerTrue, Alive, Born
    <3>2. QED
      BY <1>1, <1>a, <3>1, BeginFacts
  <2>5. \A u \in Sessions : phase'[u] = "unborn" => previous'[u] = 0
    BY <1>1, <1>a, BeginFacts
  <2>6. tracking' = tracking /\ sent' = sent
    BY <1>1 DEF Begin
  <2>7. \A u \in Sessions : tracking'[u] # "no" => phase'[u] \notin {"unborn", "dump", "install", "scan"}
    BY <1>1, <1>a, <2>6, BeginFacts
  <2>8. \A r \in sent' : /\ phase'[r.by] # "unborn"
                         /\ IF r.kind = "managed" THEN r.about = r.by ELSE r.about < r.by
    BY <1>1, <1>a, <1>b, <2>6, BeginFacts
  <2>9. ~ overlapped' => \A u, t \in Alive' : u = t
    <3>1. ~ overlapped' => Alive = {}
      BY <1>1 DEF Begin
    <3>2. QED
      BY <1>1, <3>1, BeginFacts
  <2>10. QED
    BY <2>2, <2>3, <2>4, <2>5, <2>7, <2>8, <2>9 DEF Order
<1>2. ASSUME NEW s \in Sessions,
             TakeDump(s) \/ Install(s) \/ Scan(s) \/ Publish(s) \/ Shutdown(s) \/ Retire(s)
      PROVE  Order'
  <2>1. /\ Born' = Born /\ Alive' \subseteq Alive /\ UNCHANGED <<previous, tracking, sent, overlapped>>
        /\ \A t \in Sessions : /\ phase'[t] = "unborn" <=> phase[t] = "unborn"
                               /\ phase'[t] # phase[t] => t = s
    BY <1>2, MoveFacts
  <2>2. \A u \in Alive' : phase'[u] # "retiring" => \A t \in Born' : t <= u
    <3>1. ASSUME NEW u \in Alive', phase'[u] # "retiring"
          PROVE  u \in Alive /\ phase[u] # "retiring"
      <4>1. u \in Alive /\ (u # s => phase'[u] = phase[u])
        BY <1>2, <3>1, MoveFacts DEF Alive
      <4>2. CASE u = s
        BY <1>2, <3>1, <4>1, <4>2, MoveFacts DEF Alive
      <4>3. QED
        BY <3>1, <4>1, <4>2
    <3>2. QED
      BY <1>a, <2>1, <3>1
  <2>3. \A u \in Sessions : tracking'[u] # "no" => phase'[u] \notin {"unborn", "dump", "install", "scan"}
    BY <1>2, <1>a, <2>1, MoveFacts
  <2>4. QED
    BY <1>a, <1>b, <2>1, <2>2, <2>3 DEF Order
<1>3. ASSUME NEW s \in Sessions, Track(s)
      PROVE  Order'
  <2>1. /\ UNCHANGED <<phase, previous, sent, overlapped>> /\ Born' = Born /\ Alive' = Alive
        /\ phase[s] \in {"consent", "live", "retiring"}
        /\ \A t \in Sessions : t # s => tracking'[t] = tracking[t]
    BY <1>3, StayFacts DEF Track, historyVars, Types
  <2>2. QED
    BY <1>a, <2>1 DEF Order
<1>4. ASSUME NEW s \in Sessions, ReportPrevious(s)
      PROVE  Order'
  <2>1. /\ UNCHANGED <<phase, overlapped>> /\ Born' = Born /\ Alive' = Alive
        /\ \A t \in Sessions : previous'[t] = previous[t] \/ previous'[t] = 0
        /\ \A t \in Sessions : tracking'[t] # "no" => tracking[t] # "no"
    BY <1>4, StayFacts, ReportPreviousFacts
  <2>2. ASSUME NEW r \in sent'
        PROVE  /\ phase[r.by] # "unborn"
               /\ IF r.kind = "managed" THEN r.about = r.by ELSE r.about < r.by
    <3>1. r \in sent \/ (r.about = previous[s] /\ r.by = s /\ r.kind # "managed" /\ previous[s] # 0)
      BY <1>4, ReportPreviousFacts
    <3>2. s \in Alive
      BY <1>4, ReportPreviousFacts
    <3>3. QED
      BY <1>a, <3>1, <3>2 DEF Alive
  <2>3. QED
    BY <1>a, <2>1, <2>2 DEF Order
<1>5. ASSUME NEW s \in Sessions, ReportCrash(s)
      PROVE  Order'
  <2>1. UNCHANGED <<phase, previous, tracking, overlapped>> /\ Born' = Born /\ Alive' = Alive
    BY <1>5, StayFacts, ReportCrashFacts DEF sessionVars
  <2>2. \A r \in sent' : r \in sent \/ (r.about = s /\ r.by = s /\ r.kind = "managed")
    BY <1>5, ReportCrashFacts
  <2>3. phase[s] # "unborn"
    BY <1>5, ReportCrashFacts
  <2>4. QED
    BY <1>a, <2>1, <2>2, <2>3 DEF Order
<1>6. ASSUME UNCHANGED <<phase, previous, tracking, sent, overlapped>>
      PROVE  Order'
  BY <1>a, <1>6, StayFacts DEF Order
<1>7. ASSUME NEW report \in pending, Deliver(report)
      PROVE  Order'
  BY <1>6, <1>7 DEF Deliver, sessionVars, historyVars
<1>8. CASE Over
  BY <1>6, <1>8 DEF Over, vars, sessionVars, historyVars
<1>9. ASSUME Gone
      PROVE  Order'
  <2>1. /\ Alive' = {} /\ Born' = Born /\ UNCHANGED <<previous, tracking, sent, overlapped>>
        /\ \A t \in Sessions : phase'[t] = IF t \in Alive THEN "dead" ELSE phase[t]
    BY <1>9, GoneFacts
  <2>2. \A t \in Sessions : /\ phase'[t] = "unborn" <=> phase[t] = "unborn"
                            /\ phase'[t] = "dead" \/ phase'[t] = phase[t]
    BY <2>1 DEF Alive
  <2>3. QED
    BY <1>a, <1>b, <2>1, <2>2 DEF Order
<1>10. QED
  BY <1>1, <1>2, <1>3, <1>4, <1>5, <1>7, <1>8, <1>9, DeathCases DEF Next, InitStep

-----------------------------------------------------------------------------
(* The marker and what is found of it *)

\* An overlap is not forgotten, and begins with a session that finds another alive.
LEMMA OverlapStep ==
    ASSUME Types, Order, Next, ~ overlapped'
    PROVE  ~ overlapped /\ \A s \in Sessions : Begin(s) => Alive = {}
<1>1. ASSUME NEW s \in Sessions, Begin(s)
      PROVE  ~ overlapped /\ Alive = {}
  BY <1>1 DEF Begin, Types
<1>2. CASE \E s \in Sessions : TakeDump(s) \/ Install(s) \/ Scan(s) \/ Publish(s) \/ Shutdown(s)
                                 \/ Retire(s)
  BY <1>1, <1>2, MoveFacts
<1>3. CASE \E s \in Sessions : Track(s) \/ ReportPrevious(s) \/ ReportCrash(s)
  BY <1>1, <1>3 DEF Track, ReportPrevious, ReportCrash, historyVars
<1>4. CASE Over \/ \E report \in pending : Deliver(report)
  BY <1>1, <1>4 DEF Over, Deliver, vars, historyVars
<1>5. CASE Gone
  BY <1>1, <1>5 DEF Gone
<1>6. QED
  BY <1>1, <1>2, <1>3, <1>4, <1>5, DeathCases DEF Next, InitStep

\* One step keeps the marker true.
LEMMA MarkerTrueStep ==
    ASSUME Types, Order, MarkerTrue, Next
    PROVE  MarkerTrue'
<1>a. /\ marker \in Sessions => marker \in Alive
                                \/ (phase[marker] = "dead" /\ ~installed /\ Alive = {})
      /\ ~overlapped => \A s \in Alive : marker = IF tracking[s] = "no" THEN Absent ELSE s
  BY DEF MarkerTrue
<1>b. Absent \notin Sessions /\ Garbage \notin Sessions
  BY DEF Absent, Garbage, Sessions
<1>1. ASSUME NEW s \in Sessions, Begin(s)
      PROVE  MarkerTrue'
  <2>1. marker' = Absent /\ UNCHANGED tracking
    BY <1>1 DEF Begin
  <2>2. ~ overlapped' => Alive' = {s} /\ tracking[s] = "no"
    BY <1>1, BeginFacts, OverlapStep DEF Order
  <2>3. QED
    BY <1>b, <2>1, <2>2 DEF MarkerTrue
<1>2. ASSUME NEW s \in Sessions, TakeDump(s) \/ Install(s) \/ Scan(s) \/ Publish(s) \/ Shutdown(s)
      PROVE  MarkerTrue'
  <2>1. /\ UNCHANGED <<marker, tracking, overlapped>> /\ s \in Alive
        /\ Alive' = Alive \/ Alive' = Alive \ {s}
        /\ s \in Alive'
    <3>1. phase'[s] \notin {"unborn", "ended", "dead"}
      BY <1>2, MoveFacts
    <3>2. QED
      BY <1>2, <3>1, MoveFacts DEF Alive
  <2>2. Alive' = Alive
    BY <2>1
  <2>3. QED
    BY <1>a, <2>1, <2>2 DEF MarkerTrue
<1>3. ASSUME NEW s \in Sessions, Retire(s)
      PROVE  MarkerTrue'
  <2>1. marker' = Absent /\ UNCHANGED <<tracking, overlapped>> /\ Alive' = Alive \ {s} /\ s \in Alive
    BY <1>3, MoveFacts DEF Retire
  <2>2. ~ overlapped => Alive' = {}
    BY <2>1 DEF Order
  <2>3. QED
    BY <1>b, <2>1, <2>2 DEF MarkerTrue
<1>4. ASSUME NEW s \in Sessions, Track(s)
      PROVE  MarkerTrue'
  <2>1. /\ marker' = s /\ UNCHANGED <<phase, overlapped>> /\ Alive' = Alive /\ s \in Alive
        /\ tracking'[s] = "report"
    BY <1>4, StayFacts DEF Track, historyVars, Types, Alive
  <2>2. ~ overlapped => Alive = {s}
    BY <2>1 DEF Order
  <2>3. QED
    BY <2>1, <2>2 DEF MarkerTrue
<1>5. ASSUME NEW s \in Sessions, ReportPrevious(s)
      PROVE  MarkerTrue'
  <2>1. /\ UNCHANGED <<phase, marker, overlapped, installed>> /\ Alive' = Alive
        /\ \A t \in Sessions : tracking'[t] = "no" <=> tracking[t] = "no"
    BY <1>5, StayFacts, ReportPreviousFacts DEF handlerVars
  <2>2. \A t \in Alive : t \in Sessions
    BY DEF Alive
  <2>3. QED
    BY <1>a, <2>1, <2>2 DEF MarkerTrue
<1>6. ASSUME UNCHANGED <<phase, tracking, marker, overlapped, installed>>
      PROVE  MarkerTrue'
  BY <1>a, <1>6, StayFacts DEF MarkerTrue
<1>7. ASSUME NEW s \in Sessions, ReportCrash(s)
      PROVE  MarkerTrue'
  BY <1>6, <1>7, ReportCrashFacts DEF sessionVars, handlerVars
<1>8. ASSUME NEW report \in pending, Deliver(report)
      PROVE  MarkerTrue'
  BY <1>6, <1>8 DEF Deliver, sessionVars, historyVars, handlerVars
<1>9. CASE Over
  BY <1>6, <1>9 DEF Over, vars, sessionVars, historyVars, handlerVars, fileVars
<1>10. ASSUME Gone, marker' = marker \/ marker' = Garbage
       PROVE  MarkerTrue'
  <2>1. Alive' = {} /\ ~ installed' /\ \A t \in Sessions : phase'[t] = IF t \in Alive THEN "dead"
                                                                       ELSE phase[t]
    BY <1>10, GoneFacts
  <2>2. marker' \in Sessions => phase'[marker'] = "dead"
    BY <1>a, <1>b, <1>10, <2>1
  <2>3. QED
    BY <2>1, <2>2 DEF MarkerTrue
<1>11. CASE Exit \/ Killed \/ (\E s \in Sessions : KilledInTrack(s))
              \/ \E whole \in BOOLEAN : Signal(whole)
  BY <1>10, <1>11 DEF Exit, Killed, KilledInTrack, Signal
<1>12. QED
  BY <1>1, <1>2, <1>3, <1>4, <1>5, <1>7, <1>8, <1>9, <1>11 DEF Next, InitStep

\* Without an overlap, one step keeps what is found and what is reported of it: a found
\* session is dead, its own crashes are restored before it is reported.
LEMMA FoundStep ==
    ASSUME Types, Order, MarkerTrue, ~ overlapped => FoundFacts, Next, ~ overlapped'
    PROVE  FoundFacts'
<1>a. /\ \A s \in Sessions : previous[s] # 0 => phase[previous[s]] = "dead"
      /\ \A r \in Deaths : phase[r.about] = "dead"
      /\ \A s \in Alive : \A q \in pending :
            phase[s] \notin {"dump", "install", "scan"} /\ q.kind = "managed"
               /\ q.about = previous[s] => q \in restored[s]
      /\ \A r \in Deaths : \A q \in pending : q.kind = "managed" => q.about # r.about
  BY OverlapStep DEF FoundFacts
<1>b. /\ \A s \in Sessions : previous[s] # 0 => previous[s] \in Sessions
      /\ \A r \in sent : r.about \in Sessions /\ r.by \in Sessions
      /\ \A r \in Deaths : r \in sent /\ r.kind # "managed" /\ r.about \in Sessions
      /\ 0 \notin Sessions
  BY DEF Types, Report, Deaths, Sessions
<1>c. ASSUME \A t \in Sessions : phase[t] = "dead" => phase'[t] = "dead"
      PROVE  /\ \A s \in Sessions : previous[s] # 0 => phase'[previous[s]] = "dead"
             /\ \A r \in Deaths : phase'[r.about] = "dead"
  BY <1>a, <1>b, <1>c
<1>1. ASSUME NEW s \in Sessions, Begin(s)
      PROVE  FoundFacts'
  <2>1. /\ Alive = {} /\ Alive' = {s} /\ UNCHANGED <<sent, pending, restored>>
        /\ \A t \in Sessions : phase'[t] = IF t = s THEN "dump" ELSE phase[t]
        /\ \A t \in Sessions : previous'[t] = IF t # s THEN previous[t]
                                              ELSE IF marker \in Sessions THEN marker ELSE 0
        /\ phase[s] = "unborn"
    BY <1>1, BeginFacts, OverlapStep DEF Begin
  <2>2. Deaths' = Deaths
    BY <2>1 DEF Deaths
  <2>3. marker \in Sessions => phase[marker] = "dead"
    BY <2>1 DEF MarkerTrue
  <2>4. \A t \in Sessions : phase[t] = "dead" => phase'[t] = "dead"
    BY <2>1
  <2>5. \A t \in Sessions : previous'[t] # 0 => phase'[previous'[t]] = "dead"
    BY <1>b, <1>c, <2>1, <2>3, <2>4
  <2>6. \A r \in Deaths : phase'[r.about] = "dead"
    BY <1>c, <2>4
  <2>7. QED
    BY <1>a, <2>1, <2>2, <2>5, <2>6 DEF FoundFacts
<1>2. ASSUME NEW s \in Sessions,
             TakeDump(s) \/ Install(s) \/ Scan(s) \/ Publish(s) \/ Shutdown(s) \/ Retire(s)
      PROVE  FoundFacts'
  <2>1. /\ UNCHANGED <<previous, sent, pending>> /\ Alive' \subseteq Alive
        /\ \A t \in Sessions : phase[t] = "dead" => phase'[t] = "dead"
        /\ \A t \in Sessions : t # s => phase'[t] = phase[t]
    BY <1>2, MoveFacts DEF Alive
  <2>2. Deaths' = Deaths
    BY <2>1 DEF Deaths
  <2>3. \A t \in Alive' : \A q \in pending' :
           phase'[t] \notin {"dump", "install", "scan"} /\ q.kind = "managed"
              /\ q.about = previous'[t] => q \in restored'[t]
    <3>1. CASE Scan(s)
      <4>1. \A t \in Sessions : restored'[t] = IF t = s THEN pending ELSE restored[t]
        BY <3>1 DEF Scan, Types
      <4>2. QED
        BY <1>a, <2>1, <4>1 DEF Alive
    <3>2. CASE ~ Scan(s)
      <4>1. UNCHANGED restored
        BY <1>2, <3>2 DEF TakeDump, Install, Publish, Shutdown, Retire
      <4>2. phase'[s] \notin {"dump", "install", "scan"} => phase[s] \notin {"dump", "install", "scan"}
        BY <1>2, <3>2, MoveFacts
      <4>3. \A t \in Alive' : t \in Alive /\ t \in Sessions
        BY <2>1 DEF Alive
      <4>4. QED
        BY <1>a, <2>1, <4>1, <4>2, <4>3
    <3>3. QED
      BY <3>1, <3>2
  <2>4. QED
    BY <1>a, <1>c, <2>1, <2>2, <2>3 DEF FoundFacts
<1>3. ASSUME NEW s \in Sessions, Track(s)
      PROVE  FoundFacts'
  <2>1. UNCHANGED <<phase, previous, restored, pending, sent>> /\ Alive' = Alive
    BY <1>3, StayFacts DEF Track, historyVars
  <2>2. Deaths' = Deaths
    BY <2>1 DEF Deaths
  <2>3. QED
    BY <1>a, <2>1, <2>2 DEF FoundFacts
<1>4. ASSUME NEW s \in Sessions, ReportPrevious(s)
      PROVE  FoundFacts'
  <2>1. /\ UNCHANGED <<phase, restored>> /\ Alive' = Alive /\ s \in Alive /\ tracking[s] = "report"
        /\ \A t \in Sessions : previous'[t] = IF t = s THEN 0 ELSE previous[t]
    BY <1>4, StayFacts, ReportPreviousFacts
  <2>2. CASE UNCHANGED <<pending, sent>>
    <3>1. Deaths' = Deaths
      BY <2>2 DEF Deaths
    <3>2. \A r \in pending : r.about # 0
      BY <1>b DEF Types
    <3>3. \A t \in Alive : t \in Sessions
      BY DEF Alive
    <3>4. QED
      BY <1>a, <1>b, <2>1, <2>2, <3>1, <3>2, <3>3 DEF FoundFacts
  <2>3. CASE previous[s] # 0 /\ restored[s] = {} /\ ~ UNCHANGED <<pending, sent>>
    <3>1. PICK r \in Report : /\ r.about = previous[s] /\ r.by = s /\ r.kind # "managed"
                              /\ pending' = pending \cup {r} /\ sent' = sent \cup {r}
      BY <1>4, <2>3, ReportPreviousFacts
    <3>2. Deaths' = Deaths \cup {r}
      BY <3>1 DEF Deaths
    <3>3. phase[r.about] = "dead"
      BY <1>a, <2>3, <3>1
    <3>4. \A q \in pending : q.kind = "managed" => q.about # r.about
      <4>1. phase[s] \notin {"dump", "install", "scan"}
        BY <2>1 DEF Order
      <4>2. QED
        BY <1>a, <2>1, <2>3, <3>1, <4>1
    <3>5. \A q \in pending' : q.kind = "managed" => q \in pending
      BY <3>1
    <3>6. \A q \in pending : q.about # 0
      BY <1>b DEF Types
    <3>7. \A t \in Alive : t \in Sessions
      BY DEF Alive
    <3>8. \A t \in Sessions : previous'[t] # 0 => phase'[previous'[t]] = "dead"
      BY <1>a, <2>1
    <3>9. \A d \in Deaths' : phase'[d.about] = "dead"
      BY <1>a, <2>1, <3>2, <3>3
    <3>10. \A t \in Alive' : \A q \in pending' :
              phase'[t] \notin {"dump", "install", "scan"} /\ q.kind = "managed"
                 /\ q.about = previous'[t] => q \in restored'[t]
      BY <1>a, <2>1, <3>5, <3>6, <3>7
    <3>11. \A d \in Deaths' : \A q \in pending' : q.kind = "managed" => q.about # d.about
      BY <1>a, <3>2, <3>4, <3>5
    <3>12. QED
      BY <3>8, <3>9, <3>10, <3>11 DEF FoundFacts
  <2>4. QED
    BY <1>4, <2>2, <2>3, ReportPreviousFacts
<1>5. ASSUME NEW s \in Sessions, ReportCrash(s)
      PROVE  FoundFacts'
  <2>1. UNCHANGED <<phase, previous, restored>> /\ Alive' = Alive /\ phase[s] # "dead"
    BY <1>5, StayFacts, ReportCrashFacts DEF sessionVars
  <2>2. PICK q \in Report : /\ q.about = s /\ q.kind = "managed"
                            /\ pending' = pending \cup {q} /\ sent' = sent \cup {q}
    BY <1>5, ReportCrashFacts
  <2>3. Deaths' = Deaths
    BY <2>2 DEF Deaths
  <2>4. \A t \in Alive : previous[t] # s
    BY <1>a, <1>b, <2>1 DEF Alive
  <2>5. \A t \in Alive' : \A p \in pending' :
           phase'[t] \notin {"dump", "install", "scan"} /\ p.kind = "managed"
              /\ p.about = previous'[t] => p \in restored'[t]
    BY <1>a, <2>1, <2>2, <2>4
  <2>6. \A r \in Deaths' : \A p \in pending' : p.kind = "managed" => p.about # r.about
    BY <1>a, <2>1, <2>2, <2>3
  <2>7. QED
    BY <1>a, <2>1, <2>3, <2>5, <2>6 DEF FoundFacts
<1>6. ASSUME NEW report \in pending, Deliver(report)
      PROVE  FoundFacts'
  <2>1. UNCHANGED <<phase, previous, restored, sent>> /\ Alive' = Alive /\ pending' \subseteq pending
    BY <1>6, StayFacts DEF Deliver, sessionVars, historyVars
  <2>2. Deaths' = Deaths
    BY <2>1 DEF Deaths
  <2>3. QED
    BY <1>a, <2>1, <2>2 DEF FoundFacts
<1>7. CASE Over
  <2>1. UNCHANGED <<phase, previous, restored, sent, pending>> /\ Alive' = Alive
    BY <1>7, StayFacts DEF Over, vars, sessionVars, historyVars, fileVars
  <2>2. Deaths' = Deaths
    BY <2>1 DEF Deaths
  <2>3. QED
    BY <1>a, <2>1, <2>2 DEF FoundFacts
<1>8. ASSUME Gone
      PROVE  FoundFacts'
  <2>1. /\ UNCHANGED <<previous, restored, sent, pending>> /\ Alive' = {}
        /\ \A t \in Sessions : phase[t] = "dead" => phase'[t] = "dead"
    BY <1>8, GoneFacts
  <2>2. Deaths' = Deaths
    BY <2>1 DEF Deaths
  <2>3. QED
    BY <1>a, <1>c, <2>1, <2>2 DEF FoundFacts
<1>9. QED
  BY <1>1, <1>2, <1>3, <1>4, <1>5, <1>6, <1>7, <1>8, DeathCases DEF Next, InitStep

-----------------------------------------------------------------------------
(* No death is forgotten *)

\* Where the death of p may be.
Accounted(p) ==
    \/ marker = p \/ \E s \in Alive : previous[s] = p
    \/ \E r \in sent : r.about = p
    \/ p \in suppressed \cup forgone

\* One step loses no death: the marker passes to the next session, which reports it or
\* takes it with it when it ends.
LEMMA AccountStep ==
    ASSUME Types, Order, MarkerTrue, ~ overlapped => DeathAccountedFor, Next, ~ overlapped',
           NEW p \in Sessions, phase'[p] = "dead", tracking'[p] # "no"
    PROVE  Accounted(p)'
<1>a. phase[p] = "dead" /\ tracking[p] # "no" => Accounted(p)
  BY OverlapStep DEF DeathAccountedFor, Accounted
<1>b. /\ \A s \in Alive : marker = IF tracking[s] = "no" THEN Absent ELSE s
      /\ \A s, t \in Alive : s = t
      /\ p \notin {Absent, Garbage} /\ p # 0
  BY OverlapStep DEF MarkerTrue, Order, Absent, Garbage, Sessions
<1>c. p \notin Alive \/ phase[p] # "dead"
  BY DEF Alive
<1>1. ASSUME NEW s \in Sessions, Begin(s)
      PROVE  Accounted(p)'
  <2>1. /\ Alive = {} /\ Alive' = {s} /\ UNCHANGED <<sent, suppressed, forgone, tracking>>
        /\ \A t \in Sessions : phase'[t] = IF t = s THEN "dump" ELSE phase[t]
        /\ previous'[s] = IF marker \in Sessions THEN marker ELSE 0
    BY <1>1, BeginFacts, OverlapStep DEF Begin
  <2>2. phase[p] = "dead" /\ tracking[p] # "no"
    BY <2>1
  <2>3. CASE marker = p
    BY <2>1, <2>3 DEF Accounted
  <2>4. CASE marker # p
    BY <1>a, <2>1, <2>2, <2>4 DEF Accounted
  <2>5. QED
    BY <2>3, <2>4
<1>2. ASSUME NEW s \in Sessions, TakeDump(s) \/ Install(s) \/ Scan(s) \/ Publish(s) \/ Shutdown(s)
      PROVE  Accounted(p)'
  <2>1. /\ UNCHANGED <<marker, previous, sent, suppressed, forgone, tracking>>
        /\ phase[p] = "dead"
    BY <1>2, MoveFacts
  <2>2. Alive' = Alive
    <3>1. ~ Retire(s)
      BY <1>2, MoveFacts
    <3>2. QED
      BY <1>2, <3>1, MoveFacts
  <2>3. QED
    BY <1>a, <2>1, <2>2 DEF Accounted
<1>3. ASSUME NEW s \in Sessions, Retire(s)
      PROVE  Accounted(p)'
  <2>1. /\ UNCHANGED <<previous, sent, suppressed, tracking>> /\ s \in Alive
        /\ phase[p] = "dead"
    BY <1>3, MoveFacts
  <2>2. forgone' = forgone \cup Unreported({s})
    BY <1>3 DEF Retire
  <2>3. marker # p
    BY <1>b, <1>c, <2>1
  <2>4. CASE \E t \in Alive : previous[t] = p
    <3>1. previous[s] = p
      BY <1>b, <2>1, <2>4
    <3>2. p \in forgone'
      BY <1>b, <2>2, <3>1 DEF Unreported
    <3>3. QED
      BY <3>2 DEF Accounted
  <2>5. CASE ~ \E t \in Alive : previous[t] = p
    BY <1>a, <2>1, <2>2, <2>3, <2>5 DEF Accounted
  <2>6. QED
    BY <2>4, <2>5
<1>4. ASSUME NEW s \in Sessions, Track(s)
      PROVE  Accounted(p)'
  <2>1. /\ UNCHANGED <<phase, previous, sent, suppressed, forgone>> /\ Alive' = Alive
        /\ s \in Alive /\ tracking[s] = "no" /\ \A t \in Sessions : t # s => tracking'[t] = tracking[t]
    BY <1>4, StayFacts DEF Track, historyVars, Alive, Types
  <2>2. marker # p /\ p # s
    BY <1>b, <1>c, <2>1
  <2>3. QED
    BY <1>a, <2>1, <2>2 DEF Accounted
<1>5. ASSUME NEW s \in Sessions, ReportPrevious(s)
      PROVE  Accounted(p)'
  <2>1. /\ UNCHANGED <<phase, marker, forgone>> /\ Alive' = Alive
        /\ \A t \in Sessions : /\ previous'[t] = IF t = s THEN 0 ELSE previous[t]
                               /\ tracking'[t] # "no" => tracking[t] # "no"
        /\ sent \subseteq sent' /\ suppressed \subseteq suppressed'
    BY <1>5, StayFacts, ReportPreviousFacts
  <2>2. CASE previous[s] = p
    <3>1. p \in suppressed' \/ \E r \in sent' : r.about = p
      BY <1>5, <1>b, <2>2, ReportPreviousFacts
    <3>2. QED
      BY <3>1 DEF Accounted
  <2>3. CASE previous[s] # p
    <3>1. \A t \in Alive : t \in Sessions
      BY DEF Alive
    <3>2. QED
      BY <1>a, <2>1, <2>3, <3>1 DEF Accounted
  <2>4. QED
    BY <2>2, <2>3
<1>6. ASSUME UNCHANGED <<phase, tracking, previous, marker, suppressed, forgone>>, sent \subseteq sent'
      PROVE  Accounted(p)'
  BY <1>a, <1>6, StayFacts DEF Accounted
<1>7. ASSUME NEW s \in Sessions, ReportCrash(s)
      PROVE  Accounted(p)'
  BY <1>6, <1>7, ReportCrashFacts DEF sessionVars
<1>8. ASSUME NEW report \in pending, Deliver(report)
      PROVE  Accounted(p)'
  BY <1>6, <1>8 DEF Deliver, sessionVars, historyVars
<1>9. CASE Over
  BY <1>6, <1>9 DEF Over, vars, sessionVars, historyVars, fileVars
<1>10. ASSUME Gone, \/ marker' = marker
                    \/ \E s \in Alive : marker' = Garbage /\ tracking[s] = "no"
       PROVE  Accounted(p)'
  <2>1. /\ UNCHANGED <<tracking, previous, sent, suppressed>>
        /\ forgone' = forgone \cup Unreported(Alive) /\ (p \in Alive \/ phase[p] = "dead")
    BY <1>10, GoneFacts
  <2>2. CASE \E t \in Alive : previous[t] = p
    <3>1. p \in forgone'
      BY <1>b, <2>1, <2>2 DEF Unreported
    <3>2. QED
      BY <3>1 DEF Accounted
  <2>3. CASE marker = p
    <3>1. marker' = marker
      BY <1>10, <1>b, <2>3
    <3>2. QED
      BY <2>3, <3>1 DEF Accounted
  <2>4. CASE marker # p /\ ~ \E t \in Alive : previous[t] = p
    <3>1. p \notin Alive
      BY <1>b, <2>1, <2>4
    <3>2. QED
      BY <1>a, <2>1, <2>4, <3>1 DEF Accounted
  <2>5. QED
    BY <2>2, <2>3, <2>4
<1>11. CASE Exit \/ Killed \/ \E whole \in BOOLEAN : Signal(whole)
  BY <1>10, <1>11 DEF Exit, Killed, Signal
<1>12. ASSUME NEW s \in Sessions, KilledInTrack(s)
       PROVE  Accounted(p)'
  BY <1>10, <1>12 DEF KilledInTrack, Alive
<1>13. QED
  BY <1>1, <1>2, <1>3, <1>4, <1>5, <1>7, <1>8, <1>9, <1>11, <1>12 DEF Next, InitStep

-----------------------------------------------------------------------------
(* The dump *)

\* The one session that is not retiring is the newest.
LEMMA OneActive ==
    ASSUME Types, Order, NEW s \in Alive, NEW t \in Alive,
           phase[s] # "retiring", phase[t] # "retiring"
    PROVE  s = t
<1>1. s \in Born /\ t \in Born /\ s \in Nat /\ t \in Nat
  BY DEF Alive, Born, Sessions
<1>2. s <= t /\ t <= s
  BY <1>1 DEF Order
<1>3. QED
  BY <1>1, <1>2

\* One step keeps the dump, and what is reported of it, true.
LEMMA DumpStep ==
    ASSUME Types, Order, MarkerTrue, DumpTrue, DumpBeatsHeuristic, Next
    PROVE  DumpTrue' /\ DumpBeatsHeuristic'
<1>a. /\ installed => NativeHandler
      /\ linked => installed /\ dump # Absent
      /\ NativeHandler => \A s \in Sessions :
                             phase[s] \in {"scan", "consent", "live", "retiring"} => installed
      /\ \A p \in dumped : phase[p] = "dead" /\ NativeHandler
      /\ marker \in dumped => dump \in Sessions
      /\ \A s \in Alive : previous[s] \in dumped =>
                             IF phase[s] = "dump" THEN dump \in Sessions ELSE previousDump[s] # 0
      /\ linked => /\ \A s \in Alive : phase[s] = "dump" \/ previous[s] \notin Alive
                   /\ \A r \in sent : r.kind = "unclean" => r.about \notin Alive
      /\ \A r \in sent : r.kind = "unclean" => r.about \notin dumped
  BY DEF DumpTrue, DumpBeatsHeuristic
<1>b. /\ Absent \notin Sessions /\ Garbage \notin Sessions /\ 0 \notin Sessions
      /\ Absent # Garbage /\ dumped \subseteq Sessions /\ Alive \subseteq Sessions
  BY DEF Absent, Garbage, Sessions, Types, Alive
<1>c. /\ \A r \in sent : r.about \in Sessions /\ r.by \in Sessions
      /\ \A s \in Sessions : previous[s] \in Nat /\ s \in Nat
      /\ \A s \in Alive : phase[s] # "dead"
  BY DEF Sessions, Types, Alive, Report
<1>d. ASSUME Alive # {}
      PROVE  marker \notin dumped
  BY <1>a, <1>b, <1>c, <1>d DEF MarkerTrue
<1>1. ASSUME NEW s \in Sessions, Begin(s)
      PROVE  DumpTrue' /\ DumpBeatsHeuristic'
  <2>1. /\ phase[s] = "unborn" /\ s \notin Alive /\ Alive' = Alive \cup {s}
        /\ \A t \in Sessions : phase'[t] = IF t = s THEN "dump" ELSE phase[t]
        /\ \A t \in Sessions : previous'[t] = IF t # s THEN previous[t]
                                              ELSE IF marker \in Sessions THEN marker ELSE 0
        /\ marker' = Absent
        /\ UNCHANGED <<previousDump, installed, linked, dump, dumped, sent>>
    BY <1>1, BeginFacts DEF Begin, handlerVars
  <2>2. \A t \in Sessions : phase[t] # "unborn" => t < s
    BY <1>1, BeginFacts DEF Born
  <2>3. /\ \A t \in Alive : previous[t] # s
        /\ \A r \in sent : r.kind = "unclean" => r.about # s
    <3>1. ASSUME NEW t \in Alive
          PROVE  previous[t] # s
      <4>1. t < s /\ t \in Sessions
        BY <2>2 DEF Alive
      <4>2. previous[t] = 0 \/ previous[t] < t
        BY <4>1 DEF Order
      <4>3. QED
        BY <1>b, <1>c, <4>1, <4>2
    <3>2. ASSUME NEW r \in sent, r.kind = "unclean"
          PROVE  r.about # s
      <4>1. r.about < r.by /\ phase[r.by] # "unborn"
        BY <3>2 DEF Order
      <4>2. r.by < s
        BY <1>c, <2>2, <4>1
      <4>3. QED
        BY <1>c, <4>1, <4>2
    <3>3. QED
      BY <3>1, <3>2
  <2>4. \A t \in Alive' : previous'[t] \in dumped' =>
                             IF phase'[t] = "dump" THEN dump' \in Sessions ELSE previousDump'[t] # 0
    BY <1>a, <1>b, <2>1
  <2>5. linked => /\ \A t \in Alive' : phase'[t] = "dump" \/ previous'[t] \notin Alive'
                  /\ \A r \in sent' : r.kind = "unclean" => r.about \notin Alive'
    BY <1>a, <1>b, <2>1, <2>3
  <2>6. \A p \in dumped : phase'[p] = "dead"
    BY <1>a, <1>b, <2>1
  <2>7. QED
    BY <1>a, <1>b, <2>1, <2>4, <2>5, <2>6 DEF DumpTrue, DumpBeatsHeuristic
<1>2. ASSUME NEW s \in Sessions, TakeDump(s)
      PROVE  DumpTrue' /\ DumpBeatsHeuristic'
  <2>1. /\ s \in Alive /\ Alive' = Alive /\ phase[s] = "dump" /\ phase'[s] = "install"
        /\ \A t \in Sessions : t # s => phase'[t] = phase[t]
        /\ UNCHANGED <<previous, sent, dumped, marker, installed>>
    <3>1. UNCHANGED installed /\ ~ Retire(s)
      BY <1>2 DEF TakeDump, Retire
    <3>2. QED
      BY <1>2, <3>1, MoveFacts
  <2>2. CASE ~ NativeHandler
    <3>1. UNCHANGED <<previousDump, dump, linked>> /\ dumped = {} /\ ~ linked
      BY <1>2, <1>a, <2>2 DEF TakeDump
    <3>2. QED
      BY <1>a, <2>1, <2>2, <3>1 DEF DumpTrue, DumpBeatsHeuristic
  <2>3. CASE NativeHandler
    <3>1. /\ dump' = Absent /\ linked' = (linked /\ dump = Absent)
          /\ \A t \in Sessions : previousDump'[t] = IF t # s THEN previousDump[t]
                                                    ELSE IF dump \in Sessions THEN dump ELSE 0
      BY <1>2, <2>3 DEF TakeDump, Types
    <3>2. ~ linked'
      BY <1>a, <3>1
    <3>3. \A t \in Alive : t # s => phase[t] # "dump"
      BY <2>1, OneActive
    <3>4. \A t \in Alive' : previous'[t] \in dumped' =>
                             IF phase'[t] = "dump" THEN dump' \in Sessions ELSE previousDump'[t] # 0
      BY <1>a, <1>b, <2>1, <3>1, <3>3
    <3>5. \A p \in dumped : phase'[p] = "dead"
      BY <1>a, <1>b, <2>1
    <3>6. \A t \in Sessions : phase'[t] \in {"scan", "consent", "live", "retiring"} => installed
      BY <1>a, <2>1, <2>3
    <3>7. marker \notin dumped
      BY <1>d, <2>1
    <3>8. QED
      BY <1>a, <2>1, <2>3, <3>2, <3>4, <3>5, <3>6, <3>7 DEF DumpTrue, DumpBeatsHeuristic
  <2>4. QED
    BY <2>2, <2>3
<1>3. ASSUME NEW s \in Sessions, Install(s)
      PROVE  DumpTrue' /\ DumpBeatsHeuristic'
  <2>1. /\ s \in Alive /\ Alive' = Alive /\ phase[s] = "install" /\ phase'[s] = "scan"
        /\ \A t \in Sessions : t # s => phase'[t] = phase[t]
        /\ UNCHANGED <<previous, previousDump, sent, dumped, marker>>
    <3>1. UNCHANGED previousDump /\ ~ Retire(s)
      BY <1>3 DEF Install, Retire
    <3>2. QED
      BY <1>3, <3>1, MoveFacts
  <2>2. \A p \in dumped : phase'[p] = "dead" /\ NativeHandler
    BY <1>a, <1>b, <2>1
  <2>3. \A t \in Alive : t # s => phase[t] \notin {"dump", "install"}
    BY <2>1, OneActive
  <2>4. marker \notin dumped
    BY <1>d, <2>1
  <2>5. \A t \in Alive' : previous'[t] \in dumped' =>
                             IF phase'[t] = "dump" THEN dump' \in Sessions ELSE previousDump'[t] # 0
    BY <1>a, <1>b, <2>1, <2>3
  <2>6. CASE ~ NativeHandler \/ installed
    <3>1. UNCHANGED <<installed, linked, dump>>
      BY <1>3, <2>6 DEF Install
    <3>2. NativeHandler => \A t \in Sessions :
                             phase'[t] \in {"scan", "consent", "live", "retiring"} => installed
      BY <1>a, <2>1, <2>6
    <3>3. linked => \A t \in Alive' : phase'[t] = "dump" \/ previous'[t] \notin Alive'
      BY <1>a, <1>b, <2>1
    <3>4. QED
      BY <1>a, <2>1, <2>2, <2>4, <2>5, <3>1, <3>2, <3>3 DEF DumpTrue, DumpBeatsHeuristic
  <2>7. CASE NativeHandler /\ ~ installed
    <3>1. installed' /\ linked' /\ dump' = Garbage
      BY <1>3, <2>7 DEF Install
    <3>2. Alive = {s}
      <4>1. ASSUME NEW t \in Alive, t # s
            PROVE  FALSE
        <5>1. phase[t] # "retiring" => t = s
          BY <2>1, OneActive
        <5>2. QED
          BY <1>a, <1>b, <2>7, <4>1, <5>1
      <4>2. QED
        BY <2>1, <4>1
    <3>3. previous[s] # s
      BY <1>b, <1>c DEF Order
    <3>4. \A r \in sent : r.kind = "unclean" => r.about # s
      <4>1. ASSUME NEW r \in sent, r.kind = "unclean"
            PROVE  r.about # s
        <5>1. r.about < r.by /\ r.by \in Born
          BY <1>c, <4>1 DEF Order, Born
        <5>2. r.by <= s
          BY <2>1, <5>1 DEF Order
        <5>3. QED
          BY <1>c, <5>1, <5>2
      <4>2. QED
        BY <4>1
    <3>5. QED
      BY <1>a, <2>1, <2>2, <2>4, <2>5, <2>7, <3>1, <3>2, <3>3, <3>4 DEF DumpTrue, DumpBeatsHeuristic,
         Absent, Garbage
  <2>8. QED
    BY <2>6, <2>7
<1>4. ASSUME NEW s \in Sessions, Scan(s) \/ Publish(s) \/ Shutdown(s) \/ Retire(s)
      PROVE  DumpTrue' /\ DumpBeatsHeuristic'
  <2>1. /\ s \in Alive /\ Alive' \subseteq Alive
        /\ phase[s] \in {"scan", "consent", "live", "retiring"} /\ phase'[s] # "dump"
        /\ \A t \in Sessions : t # s => phase'[t] = phase[t]
        /\ UNCHANGED <<previous, sent, dumped>>
    BY <1>4, MoveFacts
  <2>2. UNCHANGED <<previousDump, installed, linked, dump>> /\ (marker' = marker \/ marker' = Absent)
    BY <1>4 DEF Scan, Publish, Shutdown, Retire, handlerVars, fileVars
  <2>3. marker' \notin dumped
    BY <1>b, <1>d, <2>1, <2>2
  <2>4. \A p \in dumped : phase'[p] = "dead" /\ NativeHandler
    BY <1>a, <1>b, <1>c, <2>1
  <2>5. \A t \in Alive' : /\ previous'[t] \in dumped' =>
                             IF phase'[t] = "dump" THEN dump' \in Sessions ELSE previousDump'[t] # 0
                          /\ linked => phase'[t] = "dump" \/ previous'[t] \notin Alive'
    BY <1>a, <1>b, <2>1, <2>2
  <2>6. NativeHandler => \A t \in Sessions :
                            phase'[t] \in {"scan", "consent", "live", "retiring"} => installed
    BY <1>a, <2>1
  <2>7. QED
    BY <1>a, <2>1, <2>2, <2>3, <2>4, <2>5, <2>6 DEF DumpTrue, DumpBeatsHeuristic
<1>5. ASSUME NEW s \in Sessions, Track(s)
      PROVE  DumpTrue' /\ DumpBeatsHeuristic'
  <2>1. /\ UNCHANGED <<phase, previous, previousDump, installed, linked, dump, dumped, sent>>
        /\ Alive' = Alive /\ marker' = s /\ phase[s] # "dead"
    BY <1>5, StayFacts DEF Track, handlerVars, historyVars
  <2>2. QED
    BY <1>a, <2>1 DEF DumpTrue, DumpBeatsHeuristic
<1>6. ASSUME NEW s \in Sessions, ReportPrevious(s)
      PROVE  DumpTrue' /\ DumpBeatsHeuristic'
  <2>1. /\ UNCHANGED <<phase, marker, installed, linked, dump, dumped>> /\ Alive' = Alive
        /\ s \in Alive /\ tracking[s] = "report"
        /\ \A t \in Sessions : /\ previous'[t] = IF t = s THEN 0 ELSE previous[t]
                               /\ t # s => previousDump'[t] = previousDump[t]
        /\ \A r \in sent' : \/ r \in sent
                            \/ /\ previous[s] # 0 /\ r.about = previous[s]
                               /\ r.kind = "unclean" => previousDump[s] = 0
    BY <1>6, StayFacts, ReportPreviousFacts DEF handlerVars
  <2>2. phase[s] # "dump"
    BY <2>1 DEF Order
  <2>3. \A r \in sent' : r.kind = "unclean" => r.about \notin dumped /\ (linked => r.about \notin Alive)
    BY <1>a, <2>1, <2>2
  <2>4. \A t \in Alive' : /\ previous'[t] \in dumped' =>
                             IF phase'[t] = "dump" THEN dump' \in Sessions ELSE previousDump'[t] # 0
                          /\ linked => phase'[t] = "dump" \/ previous'[t] \notin Alive'
    BY <1>a, <1>b, <2>1
  <2>5. QED
    BY <1>a, <2>1, <2>3, <2>4 DEF DumpTrue, DumpBeatsHeuristic
<1>7. ASSUME NEW s \in Sessions, ReportCrash(s)
      PROVE  DumpTrue' /\ DumpBeatsHeuristic'
  <2>1. /\ UNCHANGED <<phase, previous, previousDump, marker, installed, linked, dump, dumped>>
        /\ Alive' = Alive /\ \A r \in sent' : r \in sent \/ r.kind = "managed"
    BY <1>7, StayFacts, ReportCrashFacts DEF sessionVars, handlerVars
  <2>2. QED
    BY <1>a, <2>1 DEF DumpTrue, DumpBeatsHeuristic
<1>8. ASSUME UNCHANGED <<phase, previous, previousDump, marker, installed, linked, dump, dumped, sent>>
      PROVE  DumpTrue' /\ DumpBeatsHeuristic'
  BY <1>a, <1>8, StayFacts DEF DumpTrue, DumpBeatsHeuristic
<1>9. ASSUME NEW report \in pending, Deliver(report)
      PROVE  DumpTrue' /\ DumpBeatsHeuristic'
  BY <1>8, <1>9 DEF Deliver, sessionVars, handlerVars, historyVars
<1>10. CASE Over
  BY <1>8, <1>10 DEF Over, vars, sessionVars, handlerVars, fileVars, historyVars
<1>11. ASSUME Gone, UNCHANGED <<dump, dumped>>, marker' = marker \/ marker' = Garbage
       PROVE  DumpTrue' /\ DumpBeatsHeuristic'
  <2>1. /\ Alive' = {} /\ ~ installed' /\ ~ linked' /\ UNCHANGED <<previous, sent>>
        /\ \A t \in Sessions : phase'[t] = IF t \in Alive THEN "dead" ELSE phase[t]
    BY <1>11, GoneFacts
  <2>2. \A t \in Sessions : phase'[t] \notin {"scan", "consent", "live", "retiring"}
    BY <2>1 DEF Alive
  <2>3. \A p \in dumped : phase'[p] = "dead"
    BY <1>a, <1>b, <2>1
  <2>4. QED
    BY <1>a, <1>b, <1>11, <2>1, <2>2, <2>3 DEF DumpTrue, DumpBeatsHeuristic
<1>12. CASE Exit \/ Killed \/ \E s \in Sessions : KilledInTrack(s)
  BY <1>11, <1>12 DEF Exit, Killed, KilledInTrack
<1>13. ASSUME NEW whole \in BOOLEAN, Signal(whole)
       PROVE  DumpTrue' /\ DumpBeatsHeuristic'
  <2>1. Gone /\ marker' = marker /\ installed
    BY <1>13 DEF Signal
  <2>2. CASE ~ linked
    BY <1>11, <1>13, <2>1, <2>2 DEF Signal
  <2>3. CASE linked
    <3>1. /\ dump' = IF whole THEN Cardinality(Born) ELSE Garbage
          /\ dumped' = IF whole THEN dumped \cup Alive ELSE dumped
      BY <1>13, <2>3 DEF Signal
    <3>2. /\ Alive' = {} /\ ~ installed' /\ ~ linked' /\ UNCHANGED <<previous, sent>>
          /\ \A t \in Sessions : phase'[t] = IF t \in Alive THEN "dead" ELSE phase[t]
      BY <2>1, GoneFacts
    <3>3. \A t \in Sessions : phase'[t] \notin {"scan", "consent", "live", "retiring"}
      BY <3>2 DEF Alive
    <3>4. \A p \in dumped' : phase'[p] = "dead" /\ NativeHandler
      BY <1>a, <1>b, <2>1, <3>1, <3>2
    <3>5. marker \notin dumped
      BY <1>a, <1>b, <1>c, <2>1 DEF MarkerTrue
    <3>6. Alive # {} => Cardinality(Born) \in Sessions
      <4>1. ASSUME NEW t \in Alive
            PROVE  Cardinality(Born) \in Sessions
        <5>1. t \in Sessions /\ phase[t] # "unborn"
          BY DEF Alive
        <5>2. t <= Cardinality(Born) /\ Cardinality(Born) \in 0 .. MaxSessions
          BY <5>1, Newest
        <5>3. QED
          BY <5>1, <5>2, UncleanShutdownAssumption DEF Sessions, UncleanShutdownAssumption
      <4>2. QED
        BY <4>1
    <3>7. marker' \in dumped' => dump' \in Sessions
      BY <2>1, <3>1, <3>5, <3>6
    <3>8. \A r \in sent : r.kind = "unclean" => r.about \notin dumped'
      BY <1>a, <2>3, <3>1
    <3>9. QED
      BY <3>2, <3>3, <3>4, <3>7, <3>8 DEF DumpTrue, DumpBeatsHeuristic
  <2>4. QED
    BY <2>2, <2>3
<1>14. QED
  BY <1>1, <1>2, <1>3, <1>4, <1>5, <1>6, <1>7, <1>9, <1>10, <1>12, <1>13 DEF Next, InitStep

-----------------------------------------------------------------------------
(* The invariant *)

\* Before the first tombstone_init it holds.
LEMMA UncleanInit == Init => UncleanInv
<1> SUFFICES ASSUME Init
             PROVE  UncleanInv
  OBVIOUS
<1>a. MaxSessions \in Nat
  BY UncleanShutdownAssumption DEF UncleanShutdownAssumption
<1>1. /\ Alive = {} /\ Born = {} /\ sent = {} /\ pending = {} /\ dumped = {}
      /\ marker = Absent /\ ~ linked /\ ~ installed
      /\ \A s \in Sessions : phase[s] = "unborn" /\ tracking[s] = "no" /\ previous[s] = 0
  BY DEF Init, Alive, Born
<1>2. Types
  <2>1. 0 \in 0 .. MaxSessions
    BY <1>a
  <2>2. /\ previous \in [Sessions -> 0 .. MaxSessions]
        /\ previousDump \in [Sessions -> 0 .. MaxSessions]
        /\ tracking \in [Sessions -> {"no", "report", "done"}]
    BY <2>1 DEF Init
  <2>3. phase \in [Sessions -> {"unborn", "dump", "install", "scan", "consent", "live",
                               "retiring", "ended", "dead"}]
    BY DEF Init
  <2>4. restored \in [Sessions -> SUBSET Report]
    BY DEF Init
  <2>5. QED
    BY <2>2, <2>3, <2>4 DEF Init, Types
<1>3. \E k \in 0 .. MaxSessions : Born = 1 .. k
  <2>1. 0 \in 0 .. MaxSessions /\ 1 .. 0 = {}
    BY <1>a
  <2>2. QED
    BY <1>1, <2>1
<1>4. Order
  BY <1>1, <1>3 DEF Order
<1>5. MarkerTrue
  BY <1>1 DEF MarkerTrue, Absent, Sessions
<1>6. FoundFacts
  BY <1>1 DEF FoundFacts, Deaths
<1>7. DeathAccountedFor
  BY <1>1 DEF DeathAccountedFor
<1>8. DumpTrue /\ DumpBeatsHeuristic
  BY <1>1 DEF DumpTrue, DumpBeatsHeuristic
<1>9. QED
  BY <1>2, <1>4, <1>5, <1>6, <1>7, <1>8 DEF UncleanInv

\* Every state of a run: the marker, the dump and the sidecars say who died.
THEOREM UncleanHolds == Spec => []UncleanInv
<1>1. Init => UncleanInv
  BY UncleanInit
<1>2. UncleanInv /\ [Next]_vars => UncleanInv'
  <2>1. ASSUME UncleanInv, Next
        PROVE  UncleanInv'
    <3>1. Types' /\ Order' /\ MarkerTrue' /\ DumpTrue' /\ DumpBeatsHeuristic'
      BY <2>1, TypesStep, OrderStep, MarkerTrueStep, DumpStep DEF UncleanInv
    <3>2. (~ overlapped => FoundFacts)'
      BY <2>1, FoundStep DEF UncleanInv
    <3>3. DeathAccountedFor'
      <4>1. \A p \in Sessions : ~ overlapped' /\ phase'[p] = "dead" /\ tracking'[p] # "no"
                                   => Accounted(p)'
        BY <2>1, AccountStep DEF UncleanInv
      <4>2. QED
        BY <4>1 DEF Accounted, DeathAccountedFor
    <3>4. QED
      BY <3>1, <3>2, <3>3 DEF UncleanInv
  <2>2. ASSUME UncleanInv, UNCHANGED vars
        PROVE  UncleanInv'
    <3>1. Alive' = Alive /\ Born' = Born /\ Deaths' = Deaths
      BY <2>2 DEF Alive, Born, Deaths, vars, sessionVars, historyVars
    <3>2. Types' /\ Order' /\ MarkerTrue'
      BY <2>2, <3>1 DEF UncleanInv, Types, Order, MarkerTrue, vars, sessionVars, historyVars,
                        handlerVars, fileVars
    <3>3. (~ overlapped => FoundFacts)' /\ DeathAccountedFor'
      BY <2>2, <3>1 DEF UncleanInv, FoundFacts, DeathAccountedFor, vars, sessionVars, historyVars,
                        fileVars
    <3>4. DumpTrue' /\ DumpBeatsHeuristic'
      BY <2>2, <3>1 DEF UncleanInv, DumpTrue, DumpBeatsHeuristic, vars, sessionVars, historyVars,
                        handlerVars, fileVars
    <3>5. QED
      BY <3>2, <3>3, <3>4 DEF UncleanInv
  <2>3. QED
    BY <2>1, <2>2
<1>3. QED
  BY <1>1, <1>2, PTL DEF Spec

\* A session that was shut down before the next was initialised is never reported as dead
\* (SessionMarker, Client::start_session_tracking).
THEOREM CleanShutdownHolds == Spec => []CleanIsNotReported
<1>1. UncleanInv => CleanIsNotReported
  BY DEF UncleanInv, FoundFacts, CleanIsNotReported
<1>2. QED
  BY <1>1, UncleanHolds, PTL

\* A death is not reported on top of a crash report that survived on disk
\* (report_unclean_shutdown: "No double counting").
THEOREM CountedOnce == Spec => []NoDoubleCounting
<1>1. UncleanInv => NoDoubleCounting
  BY DEF UncleanInv, FoundFacts, NoDoubleCounting
<1>2. QED
  BY <1>1, UncleanHolds, PTL

\* The death of a tracked session is reported, on its way to be, or given up at one of the
\* two known places.
THEOREM NoDeathForgotten == Spec => []DeathAccountedFor
<1>1. UncleanInv => DeathAccountedFor
  BY DEF UncleanInv
<1>2. QED
  BY <1>1, UncleanHolds, PTL

\* A whole dump beats the heuristic, overlapping sessions or not: the session that takes
\* an earlier one's marker has taken its dump before it reports.
THEOREM DumpWins == Spec => []DumpBeatsHeuristic
<1>1. UncleanInv => DumpBeatsHeuristic
  BY DEF UncleanInv
<1>2. QED
  BY <1>1, UncleanHolds, PTL
=============================================================================

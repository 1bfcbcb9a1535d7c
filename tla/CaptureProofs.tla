---------------------------- MODULE CaptureProofs ----------------------------
(***************************************************************************)
(* Proofs about Capture, for every number of threads and signatures, every *)
(* bound of the ring, the window, the buffer and the file, and however     *)
(* often anything happens: what the dedupe window lets through, what a     *)
(* revocation leaves in the ring, what an ended call leaves in the buffer, *)
(* the order of the lines on disk, and where every line is that was ever   *)
(* accepted or refused.                                                    *)
(***************************************************************************)
EXTENDS Capture, SequenceTheorems, DataInduction

-----------------------------------------------------------------------------
(* The inductive invariant: types *)

\* The calls that pass the gate.
CaptureOps == {"line", "crumb", "bug", "crash", "attach"}

\* Where such a call is before its first flush.
CaptureStages == {"clock", "dedupe", "append", "snapshot", "add"}

\* Where a flush is, and what follows it.
FlushStages == {"take", "write", "return", "read", "join"}

\* A call as Begin, Exchange and the flushes make it.
Frame == [ op : CaptureOps \cup {"idle", "revoke", "flush", "upload", "quit"},
           at : CaptureStages \cup FlushStages \cup {"gate", "purge", "over"},
           era : Nat, late : BOOLEAN, sig : Signatures \cup {"none"}, now : Nat,
           line : Nat, log : BOOLEAN ]

\* What Added and EmptyRing make.
Ring == [ slots : [0 .. RingSize - 1 -> Crumb], head : 0 .. RingSize - 1,
          count : 0 .. RingSize ]

\* What DedupeWindow remembers of a signature.
Sent == [ last : Nat, suppressed : Nat ]

\* The log; rotate_for_new_session takes what is dropped off what was refused.
LogTypes == LogTypeOK /\ dropped <= refused

\* The client: its flags, its ring and its window.
ClientTypes ==
    /\ consent \in BOOLEAN /\ closing \in BOOLEAN /\ ring \in Ring
    /\ DOMAIN recent \subseteq Signatures /\ IsFiniteSet(DOMAIN recent)
    /\ Cardinality(DOMAIN recent) <= MaxTracked
    /\ \A s \in DOMAIN recent : recent[s] \in Sent
    /\ now \in Nat /\ era \in Nat /\ clears \in Nat /\ session \in Nat
    /\ budget \in [Kinds -> Nat]

\* The calls under way; the line a call answers for was accepted.
CallTypes ==
    /\ frame \in [Threads -> Frame]
    /\ \A t \in Threads : chunk[t] # <<>> => frame[t].at = "write"
    /\ \A t \in Threads :
          /\ frame[t].line <= accepted
          /\ frame[t].at = "dedupe" => frame[t].sig \in Signatures
    /\ awaited \subseteq 1 .. accepted

-----------------------------------------------------------------------------
(* The inductive invariant: calls *)

\* Where a call can be, whatever thread makes it; a capture that a revocation overtakes
\* is late.
Proper(f) ==
    /\ f.op = "idle" => f.at = "gate"
    /\ f.at \in CaptureStages => f.op \in CaptureOps /\ (f.era = era \/ f.late)
    /\ f.op = "quit" => closing /\ f.at \in {"take", "write", "join", "over"}
    /\ f.at = "join" => f.op = "quit"
    /\ closing => f.op \in {"idle", "flush", "upload", "quit"}

\* What the worker does here: it flushes, and it reads the log for an upload.
WorkerOps == {"idle", "flush", "upload"}

\* Every thread is somewhere it can be.
CallShape == (\A t \in Threads : Proper(frame[t])) /\ frame[Worker].op \in WorkerOps

\* A flush that has taken the buffer leaves nothing there that its call answers for.
Flushed ==
    /\ \A t \in Threads :
          /\ frame[t].at \in {"write", "return", "read"} =>
                frame[t].line = 0 \/ frame[t].line \notin Ids(buffer)
          /\ frame[t].op = "quit" /\ frame[t].at # "take" => buffer = <<>>
    /\ EndedIsFlushed

\* What the window remembers covers every report let through since it was last emptied.
Remembered ==
    /\ \A p \in passed :
          /\ p.sig \in Signatures /\ p.now \in Nat /\ p.clears \in Nat /\ p.session \in Nat
          /\ p.clears <= clears /\ p.session <= session
          /\ p.clears = clears /\ p.session = session =>
                p.sig \in DOMAIN recent /\ p.now <= recent[p.sig].last
    /\ DedupeHolds

\* The k-th slot behind the head, the newest crumb being the first.
Back(r, k) == IF k <= r.head THEN r.head - k ELSE r.head + RingSize - k

\* The slots in use hold crumbs.
Filled(r) == \A k \in 1 .. r.count : r.slots[Back(r, k)] # NoCrumb

\* Nothing in the ring is from before a revocation that has been purged.
Purged ==
    (\A t \in Threads : frame[t].at # "purge") =>
       \A i \in 0 .. RingSize - 1 :
          ring.slots[i] # NoCrumb => ring.slots[i].era = era \/ ring.slots[i].late

-----------------------------------------------------------------------------
(* The inductive invariant: the order of lines *)

\* Two lines, or a line and a marker, that may follow each other in a file.
MayFollow(e, f) == f.id # 0 /\ e.id > f.id => {e.flush, f.flush} \in overlaps

\* What LogOrder says of one file.
Ordered(s) == \A i, j \in DOMAIN s : i < j => MayFollow(s[i], s[j])

\* No flush in between: every line is behind all it was accepted after.
Rising(s) == \A i, j \in DOMAIN s : i < j /\ s[j].id # 0 => s[i].id < s[j].id

\* Every line of s was accepted before those of the buffer.
Older(s) ==
    \A i \in DOMAIN s : s[i].id <= accepted /\ \A j \in DOMAIN buffer : s[i].id < buffer[j].id

\* append numbers the lines under the lock of the buffer.
BufferInOrder ==
    /\ Rising(buffer)
    /\ \A i \in DOMAIN buffer : buffer[i].id \in 1 .. accepted

\* A chunk is one flush's; two flushes that both hold a chunk have overlapped.
ChunksInOrder ==
    /\ \A t \in Threads : Rising(chunk[t]) /\ Older(chunk[t])
    /\ \A t, u \in Threads : t # u =>
          \A i \in DOMAIN chunk[t], j \in DOMAIN chunk[u] :
             {chunk[t][i].flush, chunk[u][j].flush} \in overlaps

\* What is in the file may be followed by what is in a chunk.
FilesInOrder ==
    /\ Ordered(file) /\ Ordered(previous) /\ Older(file)
    /\ \A t \in Threads : \A i \in DOMAIN file, j \in DOMAIN chunk[t] :
          MayFollow(file[i], chunk[t][j])

\* The inductive invariant.
CaptureInv ==
    /\ LogTypes /\ ClientTypes /\ CallTypes /\ CallShape /\ Flushed /\ Remembered
    /\ Filled(ring) /\ Purged /\ BufferInOrder /\ ChunksInOrder /\ FilesInOrder
-----------------------------------------------------------------------------
(* The ring *)

\* The slot before the head is the one record_breadcrumb wrote last; the others move
\* back by one.
LEMMA AddedFills ==
    ASSUME NEW r \in Ring, Filled(r), NEW crumb \in Crumb, crumb # NoCrumb
    PROVE  Added(r, crumb) \in Ring /\ Filled(Added(r, crumb))
<1> DEFINE a == Added(r, crumb)
<1>1. RingSize \in Nat \ {0}
  BY CaptureAssumption
<1>2. /\ r.head \in 0 .. RingSize - 1 /\ r.count \in 0 .. RingSize
      /\ r.slots \in [0 .. RingSize - 1 -> Crumb]
  BY DEF Ring
<1>3. (r.head + 1) % RingSize = IF r.head + 1 = RingSize THEN 0 ELSE r.head + 1
  <2>1. CASE r.head + 1 = RingSize
    BY <1>1, <1>2, <2>1
  <2>2. CASE r.head + 1 # RingSize
    BY <1>1, <1>2, <2>2
  <2>3. QED
    BY <2>1, <2>2
<1>4. /\ a.slots = [r.slots EXCEPT ![r.head] = crumb]
      /\ a.head = IF r.head + 1 = RingSize THEN 0 ELSE r.head + 1
      /\ a.count = IF r.count < RingSize THEN r.count + 1 ELSE r.count
      /\ a = [slots |-> a.slots, head |-> a.head, count |-> a.count]
  BY <1>3 DEF Added
<1>5. a \in Ring
  <2>1. a.slots \in [0 .. RingSize - 1 -> Crumb]
    BY <1>2, <1>4
  <2>2. a.head \in 0 .. RingSize - 1
    BY <1>1, <1>2, <1>4
  <2>3. a.count \in 0 .. RingSize
    BY <1>1, <1>2, <1>4
  <2> HIDE DEF a
  <2>4. QED
    BY <2>1, <2>2, <2>3, <1>4 DEF Ring
<1>6. Filled(a)
  <2>1. SUFFICES ASSUME NEW k \in 1 .. a.count
                 PROVE  a.slots[Back(a, k)] # NoCrumb
    BY DEF Filled
  <2>2. CASE k = 1
    <3>1. Back(a, k) = r.head
      BY <1>1, <1>2, <1>4, <2>2 DEF Back
    <3>2. QED
      BY <1>2, <1>4, <3>1
  <2>3. CASE k # 1
    <3>1. k - 1 \in 1 .. r.count /\ k \in 2 .. RingSize
      BY <1>1, <1>2, <1>4, <2>3
    <3>2. Back(a, k) = Back(r, k - 1)
      <4>1. CASE r.head + 1 = RingSize
        <5>1. a.head = 0 /\ Back(r, k - 1) = r.head - (k - 1)
          BY <1>1, <1>2, <1>4, <3>1, <4>1 DEF Back
        <5>2. Back(a, k) = RingSize - k
          BY <1>1, <3>1, <5>1 DEF Back
        <5>3. QED
          BY <1>1, <1>2, <3>1, <4>1, <5>1, <5>2
      <4>2. CASE r.head + 1 # RingSize
        <5>1. a.head = r.head + 1
          BY <1>4, <4>2
        <5>2. r.head \in Nat /\ k \in Nat /\ k - 1 \in Nat
          BY <1>2, <3>1
        <5>3. Back(a, k) = IF k - 1 <= r.head THEN r.head - (k - 1)
                           ELSE r.head + RingSize - (k - 1)
          BY <1>1, <5>1, <5>2 DEF Back
        <5>4. QED
          BY <5>3 DEF Back
      <4>3. QED
        BY <4>1, <4>2
    <3>3. Back(r, k - 1) \in 0 .. RingSize - 1 /\ Back(r, k - 1) # r.head
      BY <1>1, <1>2, <3>1 DEF Back
    <3>4. a.slots[Back(r, k - 1)] = r.slots[Back(r, k - 1)]
      BY <1>2, <1>4, <3>3
    <3>5. QED
      BY <3>1, <3>2, <3>4 DEF Filled
  <2>4. QED
    BY <2>2, <2>3
<1>7. QED
  BY <1>5, <1>6

\* A scrubbed ring has no slot in use.
LEMMA EmptyRingFilled == EmptyRing \in Ring /\ Filled(EmptyRing)
<1>1. NoCrumb \in Crumb /\ 0 \in 0 .. RingSize - 1 /\ 0 \in 0 .. RingSize
  BY CaptureAssumption DEF NoCrumb, Crumb
<1>2. QED
  BY <1>1 DEF EmptyRing, Ring, Filled

\* What a report attaches: the slots in use, and nothing else.
LEMMA SnapshotFilled ==
    ASSUME NEW r \in Ring, Filled(r)
    PROVE  NoCrumb \notin EntriesOf(Snapshot(r))
<1> DEFINE start == (r.head + RingSize - r.count) % RingSize
<1>1. RingSize \in Nat \ {0}
  BY CaptureAssumption
<1>2. r.head \in 0 .. RingSize - 1 /\ r.count \in 0 .. RingSize
  BY DEF Ring
<1>3. start = IF r.count <= r.head THEN r.head - r.count ELSE r.head + RingSize - r.count
  <2>1. CASE r.count <= r.head
    <3>1. r.head + RingSize - r.count = RingSize + (r.head - r.count)
      BY <1>1, <1>2
    <3>2. QED
      BY <1>1, <1>2, <2>1, <3>1
  <2>2. CASE ~ r.count <= r.head
    BY <1>1, <1>2, <2>2
  <2>3. QED
    BY <2>1, <2>2
<1> HIDE DEF start
<1>4. ASSUME NEW i \in 1 .. r.count
      PROVE  (start + i - 1) % RingSize = Back(r, r.count - i + 1)
  <2>1. start \in 0 .. RingSize - 1
    BY <1>1, <1>2, <1>3
  <2>2. CASE start + i - 1 < RingSize
    <3>1. (start + i - 1) % RingSize = start + i - 1
      BY <1>1, <1>2, <2>1, <2>2
    <3>2. QED
      BY <1>1, <1>2, <1>3, <2>2, <3>1 DEF Back
  <2>3. CASE ~ start + i - 1 < RingSize
    <3>1. (start + i - 1) % RingSize = start + i - 1 - RingSize
      BY <1>1, <1>2, <2>1, <2>3
    <3>2. QED
      BY <1>1, <1>2, <1>3, <2>3, <3>1 DEF Back
  <2>4. QED
    BY <2>2, <2>3
<1>5. \A i \in 1 .. r.count : r.slots[(start + i - 1) % RingSize] # NoCrumb
  BY <1>1, <1>2, <1>4 DEF Filled
<1>6. QED
  BY <1>5 DEF Snapshot, EntriesOf, start

-----------------------------------------------------------------------------
(* The operations of the log, entry by entry *)

\* trim_from_front drops entries from the front and keeps the rest in order.
LEMMA TrimmedCuts ==
    ASSUME NEW s \in Seq(Entry)
    PROVE  /\ Trimmed(s) \in Seq(Entry)
           /\ \E k \in 0 .. Len(s) :
                 /\ Len(Trimmed(s)) = Len(s) - k
                 /\ \A i \in 1 .. Len(s) - k : Trimmed(s)[i] = s[i + k]
<1>1. Len(s) \in Nat /\ TrimTo \in Nat \ {0}
  BY LenProperties, SessionLogAssumption
<1>2. CASE Len(s) <= TrimTo
  <2>1. Trimmed(s) = s
    BY <1>2 DEF Trimmed
  <2>2. /\ 0 \in 0 .. Len(s)
        /\ Len(Trimmed(s)) = Len(s) - 0
        /\ \A i \in 1 .. Len(s) - 0 : Trimmed(s)[i] = s[i + 0]
    BY <1>1, <2>1
  <2>3. QED
    BY <2>1, <2>2
<1>3. CASE ~ Len(s) <= TrimTo
  <2> DEFINE k == Len(s) - TrimTo + 1
  <2>1. Trimmed(s) = SubSeq(s, k + 1, Len(s)) /\ k \in 1 .. Len(s)
    BY <1>1, <1>3 DEF Trimmed
  <2>2. /\ Trimmed(s) \in Seq(Entry) /\ Len(Trimmed(s)) = Len(s) - k
        /\ \A i \in 1 .. Len(s) - k : Trimmed(s)[i] = s[i + k]
    <3>1. k + 1 \in 1 .. Len(s) + 1 /\ Len(s) \in (k + 1) - 1 .. Len(s)
      BY <1>1, <2>1
    <3> HIDE DEF k
    <3>2. /\ SubSeq(s, k + 1, Len(s)) \in Seq(Entry)
          /\ Len(SubSeq(s, k + 1, Len(s))) = Len(s) - (k + 1) + 1
          /\ \A i \in 1 .. Len(s) - (k + 1) + 1 :
                SubSeq(s, k + 1, Len(s))[i] = s[(k + 1) + i - 1]
      BY <3>1, SubSeqProperties
    <3>3. \A i \in 1 .. Len(s) - k : s[(k + 1) + i - 1] = s[i + k]
      BY <1>1, <2>1
    <3>4. Len(s) - (k + 1) + 1 = Len(s) - k
      BY <1>1, <2>1
    <3>5. QED
      BY <2>1, <3>2, <3>3, <3>4
  <2>3. k \in 0 .. Len(s)
    BY <1>1, <2>1
  <2> HIDE DEF k
  <2>4. QED
    BY <2>2, <2>3
<1>4. QED
  BY <1>2, <1>3

\* What is appended to a chunk or a file.
LEMMA JoinedEntries ==
    ASSUME NEW s \in Seq(Entry), NEW r \in Seq(Entry)
    PROVE  /\ s \o r \in Seq(Entry) /\ Len(s \o r) = Len(s) + Len(r)
           /\ Len(s) \in Nat /\ Len(r) \in Nat
           /\ DOMAIN s = 1 .. Len(s) /\ DOMAIN r = 1 .. Len(r)
           /\ DOMAIN (s \o r) = 1 .. Len(s) + Len(r)
           /\ \A i \in 1 .. Len(s) + Len(r) :
                 (s \o r)[i] = IF i <= Len(s) THEN s[i] ELSE r[i - Len(s)]
BY ConcatProperties, LenProperties

\* A sequence of entries has entries.
LEMMA EntriesTyped == ASSUME NEW s \in Seq(Entry) PROVE EntriesOf(s) \subseteq Entry
BY ElementOfSeq, LenProperties DEF EntriesOf

\* append.
LEMMA AppendTypes ==
    ASSUME LogTypes, NEW n \in 1 .. 2, AppendLines(n)
    PROVE  LogTypes' /\ accepted <= accepted' /\ accepted' <= accepted + 2 /\ UNCHANGED chunk
<1>1. /\ buffer \in Seq(Entry) /\ dropped \in Nat /\ accepted \in Nat /\ refused \in Nat
      /\ dropped <= refused
  BY DEF LogTypes, LogTypeOK
<1>2. UNCHANGED <<chunk, fileSize, file, previous, gone, flushes, overlaps>>
  BY DEF AppendLines
<1>3. /\ buffer' \in Seq(Entry) /\ dropped' \in Nat /\ accepted' \in Nat /\ refused' \in Nat
      /\ dropped' <= refused' /\ accepted <= accepted' /\ accepted' <= accepted + 2
  <2> DEFINE new == [i \in 1 .. n |-> [id |-> accepted + i, drops |-> 0, flush |-> 0]]
  <2>1. new \in Seq(Entry)
    <3>1. \A i \in 1 .. n : [id |-> accepted + i, drops |-> 0, flush |-> 0] \in Entry
      BY <1>1 DEF Entry
    <3>2. QED
      BY <3>1
  <2>2. CASE Len(buffer) >= MaxPending
    BY <1>1, <2>2 DEF AppendLines
  <2>3. CASE ~ Len(buffer) >= MaxPending
    <3>1. buffer' = buffer \o new /\ accepted' = accepted + n /\ UNCHANGED <<dropped, refused>>
      BY <2>3 DEF AppendLines
    <3> HIDE DEF new
    <3>2. buffer' \in Seq(Entry)
      BY <1>1, <2>1, <3>1, ConcatProperties
    <3>3. QED
      BY <1>1, <3>1, <3>2
  <2>4. QED
    BY <2>2, <2>3
<1>4. QED
  BY <1>2, <1>3 DEF LogTypes, LogTypeOK

\* What a flush takes: the buffer and the marker of an overflow.
Taken == buffer \o Marker

\* Every entry of the chunk is one of those, with the flush that took it.
LEMMA TakenEntries ==
    ASSUME LogTypes
    PROVE  /\ Marker \in Seq(Entry) /\ Len(Marker) \in 0 .. 1
           /\ \A i \in DOMAIN Marker : Marker[i].id = 0
           /\ Taken \in Seq(Entry) /\ Len(Taken) = Len(buffer) + Len(Marker)
           /\ DOMAIN Taken = 1 .. Len(buffer) + Len(Marker)
           /\ \A i \in DOMAIN Taken :
                 Taken[i] = IF i <= Len(buffer) THEN buffer[i] ELSE Marker[i - Len(buffer)]
<1>1. dropped \in Nat /\ buffer \in Seq(Entry)
  BY DEF LogTypes, LogTypeOK
<1>2. Marker \in Seq(Entry) /\ Len(Marker) \in 0 .. 1 /\ \A i \in DOMAIN Marker : Marker[i].id = 0
  <2>1. [id |-> 0, drops |-> dropped, flush |-> 0] \in Entry
    BY <1>1 DEF Entry
  <2>2. QED
    BY <2>1 DEF Marker
<1>3. QED
  BY <1>1, <1>2, JoinedEntries DEF Taken


\* take_pending, when there is something to take.
LEMMA TakeTypes ==
    ASSUME LogTypes, NEW t \in Threads, TakePending(t), buffer # <<>>
    PROVE  /\ LogTypes' /\ buffer' = <<>>
           /\ \A u \in Threads \ {t} : chunk'[u] = chunk[u]
           /\ DOMAIN chunk'[t] = DOMAIN Taken
           /\ \A i \in DOMAIN Taken : /\ chunk'[t][i].id = Taken[i].id
                                      /\ chunk'[t][i].flush = flushes + 1
           /\ overlaps' = overlaps \cup {{g, flushes + 1} : g \in UnderWay}
           /\ UNCHANGED <<file, previous, accepted>>
<1> DEFINE tagged == [i \in DOMAIN Taken |-> [Taken[i] EXCEPT !.flush = flushes + 1]]
<1>1. /\ chunk \in [Threads -> Seq(Entry)] /\ flushes \in Nat /\ dropped \in Nat
      /\ refused \in Nat
  BY DEF LogTypes, LogTypeOK
<1>2. /\ chunk' = [chunk EXCEPT ![t] = tagged]
      /\ buffer' = <<>> /\ dropped' = 0 /\ flushes' = flushes + 1
      /\ overlaps' = overlaps \cup {{g, flushes + 1} : g \in UnderWay}
      /\ UNCHANGED <<fileSize, file, previous, accepted, refused, gone>>
  BY DEF TakePending, Taken
<1>3. /\ DOMAIN Taken = 1 .. Len(Taken) /\ Len(Taken) \in Nat
      /\ \A i \in DOMAIN Taken : Taken[i] \in Entry
  BY TakenEntries, LenProperties, ElementOfSeq
<1>4. \A i \in DOMAIN Taken : /\ tagged[i] \in Entry
                              /\ tagged[i].id = Taken[i].id /\ tagged[i].flush = flushes + 1
  <2>1. ASSUME NEW e \in Entry
        PROVE  /\ [e EXCEPT !.flush = flushes + 1] \in Entry
               /\ [e EXCEPT !.flush = flushes + 1].id = e.id
               /\ [e EXCEPT !.flush = flushes + 1].flush = flushes + 1
    <3>1. flushes + 1 \in Nat
      BY <1>1
    <3>2. [e EXCEPT !.flush = flushes + 1] =
             [id |-> e.id, drops |-> e.drops, flush |-> flushes + 1]
      BY DEF Entry
    <3>3. QED
      BY <3>1, <3>2 DEF Entry
  <2>2. QED
    BY <1>3, <2>1
<1>5. tagged \in Seq(Entry)
  BY <1>3, <1>4
<1>6. DOMAIN tagged = DOMAIN Taken
  OBVIOUS
<1> HIDE DEF tagged
<1>7. chunk' \in [Threads -> Seq(Entry)] /\ chunk'[t] = tagged
  BY <1>1, <1>2, <1>5
<1>8. \A u \in Threads \ {t} : chunk'[u] = chunk[u]
  BY <1>1, <1>2
<1>9. LogTypes'
  <2>1. buffer' \in Seq(Entry) /\ flushes' \in Nat /\ dropped' \in Nat /\ dropped' <= refused'
    BY <1>1, <1>2
  <2>2. QED
    BY <1>2, <1>7, <2>1 DEF LogTypes, LogTypeOK
<1>10. QED
  BY <1>2, <1>4, <1>6, <1>7, <1>8, <1>9

\* Entries of s that stand together in it.
Stretch(r, s) ==
    \E k \in 0 .. Len(s) : /\ Len(r) <= Len(s) - k
                           /\ \A i \in 1 .. Len(r) : r[i] = s[i + k]

LEMMA WholeStretch == ASSUME NEW s \in Seq(Entry) PROVE Stretch(s, s)
<1>1. /\ Len(s) \in Nat /\ 0 \in 0 .. Len(s) /\ Len(s) <= Len(s) - 0
      /\ \A i \in 1 .. Len(s) : s[i] = s[i + 0]
  BY LenProperties
<1>2. QED
  BY <1>1 DEF Stretch

LEMMA FirstStretch ==
    ASSUME NEW s \in Seq(Entry), NEW n \in 0 .. Len(s)
    PROVE  First(s, n) \in Seq(Entry) /\ Len(First(s, n)) = n /\ Stretch(First(s, n), s)
<1>1. Len(s) \in Nat /\ \A i \in 1 .. n : i \in 1 .. Len(s)
  BY LenProperties
<1>2. /\ First(s, n) \in Seq(Entry) /\ Len(First(s, n)) = n
      /\ \A i \in 1 .. n : First(s, n)[i] = s[i]
  BY <1>1, SubSeqProperties, LenProperties, ElementOfSeq DEF First
<1>3. 0 \in 0 .. Len(s) /\ n <= Len(s) - 0 /\ \A i \in 1 .. n : First(s, n)[i] = s[i + 0]
  BY <1>1, <1>2
<1>4. QED
  BY <1>2, <1>3 DEF Stretch

LEMMA TrimmedStretch ==
    ASSUME NEW s \in Seq(Entry)
    PROVE  Trimmed(s) \in Seq(Entry) /\ Stretch(Trimmed(s), s)
<1>1. /\ Trimmed(s) \in Seq(Entry)
      /\ \E k \in 0 .. Len(s) :
            /\ Len(Trimmed(s)) = Len(s) - k
            /\ \A i \in 1 .. Len(s) - k : Trimmed(s)[i] = s[i + k]
  BY TrimmedCuts
<1>2. Len(s) \in Nat
  BY LenProperties
<1>3. QED
  BY <1>1, <1>2 DEF Stretch

\* A stretch of a stretch.
LEMMA StretchOfStretch ==
    ASSUME NEW s \in Seq(Entry), NEW r \in Seq(Entry), NEW q \in Seq(Entry),
           Stretch(r, s), Stretch(q, r)
    PROVE  Stretch(q, s)
<1>1. PICK k \in 0 .. Len(s) : /\ Len(r) <= Len(s) - k
                               /\ \A i \in 1 .. Len(r) : r[i] = s[i + k]
  BY DEF Stretch
<1>2. PICK m \in 0 .. Len(r) : /\ Len(q) <= Len(r) - m
                               /\ \A i \in 1 .. Len(q) : q[i] = r[i + m]
  BY DEF Stretch
<1>3. Len(s) \in Nat /\ Len(r) \in Nat /\ Len(q) \in Nat
  BY LenProperties
<1>4. k + m \in 0 .. Len(s) /\ Len(q) <= Len(s) - (k + m)
  BY <1>1, <1>2, <1>3
<1>5. ASSUME NEW i \in 1 .. Len(q) PROVE q[i] = s[i + (k + m)]
  <2>1. i + m \in 1 .. Len(r) /\ (i + m) + k = i + (k + m)
    BY <1>1, <1>2, <1>3
  <2>2. q[i] = r[i + m] /\ r[i + m] = s[(i + m) + k]
    BY <1>1, <1>2, <2>1
  <2>3. QED
    BY <2>1, <2>2
<1>6. QED
  BY <1>4, <1>5 DEF Stretch

\* The file and the front of the chunk.
LEMMA JoinedStretch ==
    ASSUME NEW s \in Seq(Entry), NEW c \in Seq(Entry), NEW n \in 0 .. Len(c)
    PROVE  s \o First(c, n) \in Seq(Entry) /\ Stretch(s \o First(c, n), s \o c)
<1> DEFINE d == First(c, n)
<1>1. d \in Seq(Entry) /\ Len(d) = n /\ \A i \in 1 .. n : d[i] = c[i]
  <2>1. Len(c) \in Nat /\ \A i \in 1 .. n : i \in 1 .. Len(c)
    BY LenProperties
  <2>2. QED
    BY <2>1, SubSeqProperties, LenProperties, ElementOfSeq DEF First
<1> HIDE DEF d
<1>2. /\ Len(s) \in Nat /\ Len(c) \in Nat /\ n \in Nat /\ n <= Len(c)
      /\ s \o d \in Seq(Entry) /\ s \o c \in Seq(Entry)
      /\ Len(s \o d) = Len(s) + n /\ Len(s \o c) = Len(s) + Len(c)
      /\ \A i \in 1 .. Len(s) + n :
            (s \o d)[i] = IF i <= Len(s) THEN s[i] ELSE d[i - Len(s)]
      /\ \A i \in 1 .. Len(s) + Len(c) :
            (s \o c)[i] = IF i <= Len(s) THEN s[i] ELSE c[i - Len(s)]
  <2>1. /\ s \o d \in Seq(Entry) /\ Len(s \o d) = Len(s) + Len(d)
        /\ \A i \in 1 .. Len(s) + Len(d) :
              (s \o d)[i] = IF i <= Len(s) THEN s[i] ELSE d[i - Len(s)]
    BY <1>1, ConcatProperties, Zenon
  <2>2. /\ s \o c \in Seq(Entry) /\ Len(s \o c) = Len(s) + Len(c)
        /\ \A i \in 1 .. Len(s) + Len(c) :
              (s \o c)[i] = IF i <= Len(s) THEN s[i] ELSE c[i - Len(s)]
    BY ConcatProperties, Zenon
  <2>3. Len(d) = n
    BY <1>1
  <2>4. Len(s) \in Nat /\ Len(c) \in Nat /\ n \in Nat /\ n <= Len(c)
    BY LenProperties
  <2>5. QED
    BY <2>1, <2>2, <2>3, <2>4, Zenon
<1>3. ASSUME NEW i \in 1 .. Len(s) + n PROVE (s \o d)[i] = (s \o c)[i]
  <2>1. i \in 1 .. Len(s) + Len(c) /\ (~ i <= Len(s) => i - Len(s) \in 1 .. n)
    BY <1>2, <1>3
  <2>2. CASE i <= Len(s)
    BY <1>2, <1>3, <2>1, <2>2, Zenon
  <2>3. CASE ~ i <= Len(s)
    BY <1>1, <1>2, <1>3, <2>1, <2>3, Zenon
  <2>4. QED
    BY <2>2, <2>3
<1>4. /\ 0 \in 0 .. Len(s \o c) /\ Len(s \o d) <= Len(s \o c) - 0
      /\ \A i \in 1 .. Len(s \o d) : (s \o d)[i] = (s \o c)[i + 0]
  BY <1>2, <1>3
<1>5. Stretch(s \o d, s \o c)
  BY <1>4 DEF Stretch
<1>6. QED
  BY <1>2, <1>5 DEF d

\* However write_chunk ends, the file is a stretch of itself and the chunk, and the
\* rest is gone.
LEMMA WriteLeaves ==
    ASSUME LogTypes, NEW t \in Threads, WriteChunk(t) \/ WriteFails(t)
    PROVE  \E lines \in Seq(Entry), size \in Nat :
              Left(t, lines, size) /\ Stretch(lines, file \o chunk[t])
<1> DEFINE c == chunk[t]
           s == file \o c
           Good(lines, size) == lines \in Seq(Entry) /\ size \in Nat /\ Stretch(lines, s)
<1>1. c \in Seq(Entry) /\ file \in Seq(Entry) /\ fileSize \in Nat
  BY DEF LogTypes, LogTypeOK
<1>2. s \in Seq(Entry) /\ Len(c) \in Nat /\ fileSize + Len(c) \in Nat
  BY <1>1, JoinedEntries, LenProperties
<1>3. ASSUME NEW n \in 0 .. Len(c), NEW lines,
             lines = file \o First(c, n) \/ lines = Trimmed(file \o First(c, n))
             \/ \E m \in 0 .. Len(Trimmed(file \o First(c, n))) :
                   lines = First(Trimmed(file \o First(c, n)), m)
      PROVE  lines \in Seq(Entry) /\ Len(lines) \in Nat /\ Stretch(lines, s)
  <2> DEFINE all == file \o First(c, n)
             cut == Trimmed(all)
  <2>1. all \in Seq(Entry) /\ Stretch(all, s)
    BY <1>1, JoinedStretch
  <2> HIDE DEF all, s, c
  <2>2. cut \in Seq(Entry) /\ Stretch(cut, all)
    BY <2>1, TrimmedStretch
  <2> HIDE DEF cut
  <2>3. Stretch(cut, s)
    BY <1>2, <2>1, <2>2, StretchOfStretch
  <2>4. ASSUME NEW m \in 0 .. Len(cut) PROVE First(cut, m) \in Seq(Entry) /\ Stretch(First(cut, m), s)
    <3>1. First(cut, m) \in Seq(Entry) /\ Stretch(First(cut, m), cut)
      BY <2>2, FirstStretch
    <3>2. QED
      BY <1>2, <2>2, <2>3, <3>1, StretchOfStretch
  <2>5. lines = all \/ lines = cut \/ \E m \in 0 .. Len(cut) : lines = First(cut, m)
    BY <1>3 DEF all, cut
  <2>6. lines \in Seq(Entry) /\ Stretch(lines, s)
    BY <2>1, <2>2, <2>3, <2>4, <2>5
  <2>7. QED
    BY <2>6, LenProperties
<1>4. Good(file, fileSize)
  <2>1. 0 \in 0 .. Len(c) /\ file \o First(c, 0) = file
    <3>1. 0 \in 0 .. Len(c) /\ First(c, 0) = <<>>
      BY <1>1, <1>2, SubSeqProperties, EmptySeq DEF First
    <3>2. QED
      BY <1>1, <3>1, ConcatEmptySeq
  <2> HIDE DEF s, c
  <2>2. QED
    BY <1>1, <1>3, <2>1
<1>5. s = file \o First(c, Len(c)) /\ Len(c) \in 0 .. Len(c)
  <2>1. First(c, Len(c)) = c
    BY <1>1, <1>2, SubSeqFull DEF First
  <2>2. QED
    BY <1>2, <2>1
<1>6. /\ Good(s, fileSize + Len(c))
      /\ Good(Trimmed(s), Len(Trimmed(s)))
  <2> HIDE DEF s, c
  <2>1. QED
    BY <1>2, <1>3, <1>5
<1>7. CASE WriteChunk(t)
  <2>1. Left(t, s, fileSize + Len(c)) \/ Left(t, Trimmed(s), Len(Trimmed(s)))
    BY <1>7 DEF WriteChunk
  <2> HIDE DEF s, c
  <2>2. QED
    BY <1>6, <2>1 DEF s, c
<1>8. CASE WriteFails(t)
  <2>1. CASE Left(t, file, fileSize)
    BY <1>4, <2>1
  <2>2. CASE \E n \in 0 .. Len(c) : \E lines : \E size \in Nat :
                /\ Left(t, lines, size)
                /\ \/ lines = file \o First(c, n)
                   \/ \E m \in 0 .. Len(Trimmed(file \o First(c, n))) :
                         lines = First(Trimmed(file \o First(c, n)), m)
    <3>1. PICK n \in 0 .. Len(c) : \E lines : \E size \in Nat :
                /\ Left(t, lines, size)
                /\ \/ lines = file \o First(c, n)
                   \/ \E m \in 0 .. Len(Trimmed(file \o First(c, n))) :
                         lines = First(Trimmed(file \o First(c, n)), m)
      BY <2>2, Zenon
    <3>2. PICK lines : \E size \in Nat :
                /\ Left(t, lines, size)
                /\ \/ lines = file \o First(c, n)
                   \/ \E m \in 0 .. Len(Trimmed(file \o First(c, n))) :
                         lines = First(Trimmed(file \o First(c, n)), m)
      BY <3>1, Zenon
    <3> HIDE DEF s, c
    <3>3. lines \in Seq(Entry) /\ Stretch(lines, s)
      BY <1>3, <3>2
    <3>4. QED
      BY <3>2, <3>3 DEF s, c
  <2>3. ASSUME ~ Left(t, file, fileSize)
        PROVE  \E n \in 0 .. Len(c) : \E lines : \E size \in Nat :
                /\ Left(t, lines, size)
                /\ \/ lines = file \o First(c, n)
                   \/ \E m \in 0 .. Len(Trimmed(file \o First(c, n))) :
                         lines = First(Trimmed(file \o First(c, n)), m)
    <3> DEFINE size == fileSize + Len(c)
               all(n) == file \o First(c, n)
    <3> HIDE DEF s, c
    <3>1. PICK n \in 0 .. Len(c) :
             \/ Left(t, all(n), size) \/ Left(t, all(n), 0)
             \/ Left(t, all(n), Len(all(n)))
             \/ \E m \in 0 .. Len(Trimmed(all(n))) :
                   Left(t, First(Trimmed(all(n)), m), Len(Trimmed(all(n))))
      BY <1>8, <2>3, Zenon DEF WriteFails, c
    <3>2. all(n) \in Seq(Entry) /\ Trimmed(all(n)) \in Seq(Entry)
      BY <1>3
    <3>3. size \in Nat /\ 0 \in Nat /\ Len(all(n)) \in Nat /\ Len(Trimmed(all(n))) \in Nat
      BY <1>2, <3>2, LenProperties
    <3>4. QED
      BY <3>1, <3>3, Zenon
  <2>4. QED
    BY <2>1, <2>2, <2>3
<1>9. QED
  BY <1>7, <1>8

\* write_chunk.
LEMMA WriteTypes ==
    ASSUME LogTypes, NEW t \in Threads, WriteChunk(t) \/ WriteFails(t)
    PROVE  /\ LogTypes'
           /\ Stretch(file', file \o chunk[t])
           /\ gone' = gone \cup (EntriesOf(file \o chunk[t]) \ EntriesOf(file'))
           /\ chunk' = [chunk EXCEPT ![t] = <<>>]
           /\ UNCHANGED <<buffer, dropped, previous, accepted, refused, flushes, overlaps>>
<1>1. PICK lines \in Seq(Entry), size \in Nat :
         Left(t, lines, size) /\ Stretch(lines, file \o chunk[t])
  BY WriteLeaves
<1>2. /\ file' = lines /\ fileSize' = size
      /\ gone' = gone \cup (EntriesOf(file \o chunk[t]) \ EntriesOf(lines))
      /\ chunk' = [chunk EXCEPT ![t] = <<>>]
      /\ UNCHANGED <<buffer, dropped, previous, accepted, refused, flushes, overlaps>>
  BY <1>1 DEF Left
<1>3. /\ chunk \in [Threads -> Seq(Entry)] /\ chunk[t] \in Seq(Entry)
      /\ file \in Seq(Entry) /\ gone \subseteq Entry
  BY DEF LogTypes, LogTypeOK
<1>4. chunk' \in [Threads -> Seq(Entry)]
  BY <1>2, <1>3
<1>5. EntriesOf(file \o chunk[t]) \subseteq Entry
  BY <1>3, JoinedEntries, EntriesTyped
<1>6. gone' \subseteq Entry
  BY <1>2, <1>3, <1>5
<1>7. LogTypes'
  BY <1>1, <1>2, <1>4, <1>6 DEF LogTypes, LogTypeOK
<1>8. QED
  BY <1>1, <1>2, <1>7

\* rotate_for_new_session.
LEMMA RotateTypes ==
    ASSUME LogTypes, NEW moved \in BOOLEAN, NEW torn \in BOOLEAN, Rotate(moved, torn)
    PROVE  /\ LogTypes' /\ buffer' = <<>> /\ chunk' = [t \in Threads |-> <<>>]
           /\ file' = file \/ file' = <<>>
           /\ previous' = file \/ previous' = <<>>
           /\ UNCHANGED <<accepted, overlaps>>
<1>1. /\ {buffer, file, previous} \subseteq Seq(Entry) /\ chunk \in [Threads -> Seq(Entry)]
      /\ gone \subseteq Entry /\ dropped \in Nat /\ refused \in Nat /\ dropped <= refused
  BY DEF LogTypes, LogTypeOK
<1>2. /\ previous' = IF moved THEN IF torn THEN <<>> ELSE file ELSE <<>>
      /\ file' = IF moved THEN <<>> ELSE IF torn THEN <<>> ELSE file
      /\ fileSize' = 0 /\ refused' = refused - dropped /\ dropped' = 0 /\ buffer' = <<>>
      /\ gone' = gone \cup InMemory \cup EntriesOf(previous)
                        \cup (IF torn THEN EntriesOf(file) ELSE {})
      /\ chunk' = [t \in Threads |-> <<>>]
      /\ UNCHANGED <<accepted, flushes, overlaps>>
  BY DEF Rotate
<1>3. InMemory \subseteq Entry
  <2>1. \A t \in Threads : EntriesOf(chunk[t]) \subseteq Entry
    BY <1>1, EntriesTyped
  <2>2. EntriesOf(buffer) \subseteq Entry
    BY <1>1, EntriesTyped
  <2>3. QED
    BY <2>1, <2>2 DEF InMemory
<1>4. gone' \subseteq Entry
  BY <1>1, <1>2, <1>3, EntriesTyped
<1>5. /\ (file' = file \/ file' = <<>>) /\ (previous' = file \/ previous' = <<>>)
      /\ chunk' \in [Threads -> Seq(Entry)] /\ <<>> \in Seq(Entry)
  BY <1>2
<1>6. refused' \in Nat /\ dropped' \in Nat /\ dropped' <= refused'
  BY <1>1, <1>2
<1>7. LogTypes'
  BY <1>1, <1>2, <1>4, <1>5, <1>6 DEF LogTypes, LogTypeOK
<1>8. QED
  BY <1>2, <1>5, <1>7

-----------------------------------------------------------------------------
(* How a call moves *)

\* Only the call of t moves.
Moves(t) ==
    /\ frame' \in [Threads -> Frame]
    /\ \A u \in Threads \ {t} : frame'[u] = frame[u]

\* The worker is a thread that makes no capture call.
LEMMA CallersAreThreads ==
    /\ Worker \in Threads /\ Callers \subseteq Threads
    /\ \A t \in Threads : t \in Callers <=> t # Worker
BY CaptureAssumption DEF Callers

\* An idle frame.
LEMMA IdleIsFrame == Idle \in Frame
BY DEF Idle, Frame

\* A call begins; a call of the capture interface passes the gate.
LEMMA BeginMoves ==
    ASSUME CallTypes, era \in Nat, NEW t \in Threads,
           NEW op \in CaptureOps, NEW at \in CaptureStages, NEW log \in BOOLEAN,
           Begin(t, op, at, log)
    PROVE  /\ Moves(t) /\ frame[t].op = "idle" /\ ~closing /\ consent
           /\ frame'[t].op = op /\ frame'[t].at = at /\ frame'[t].era = era
           /\ frame'[t].line = 0 /\ frame'[t].log = log
<1> DEFINE f == [Idle EXCEPT !.op = op, !.at = at, !.era = era, !.log = log]
<1>1. frame \in [Threads -> Frame]
  BY DEF CallTypes
<1>2. f.op = op /\ f.at = at /\ f.era = era /\ f.line = 0 /\ f.log = log
  BY DEF Idle
<1>3. f \in Frame
  BY IdleIsFrame DEF Frame
<1>4. frame' = [frame EXCEPT ![t] = f] /\ frame[t].op = "idle" /\ ~closing /\ consent
  BY DEF Begin
<1> HIDE DEF f
<1>5. frame'[t] = f /\ Moves(t)
  BY <1>1, <1>3, <1>4 DEF Moves
<1>6. QED
  BY <1>2, <1>4, <1>5

\* A call goes on to another step.
LEMMA GotoMoves ==
    ASSUME CallTypes, NEW t \in Threads,
           NEW at \in CaptureStages \cup FlushStages \cup {"gate", "purge", "over"},
           Goto(t, at)
    PROVE  /\ Moves(t) /\ frame'[t].at = at /\ frame'[t].op = frame[t].op
           /\ frame'[t].era = frame[t].era /\ frame'[t].late = frame[t].late
           /\ frame'[t].line = frame[t].line
<1>1. frame \in [Threads -> Frame] /\ frame[t] \in Frame
  BY DEF CallTypes
<1>2. frame' = [frame EXCEPT ![t] = [frame[t] EXCEPT !.at = at]]
  BY DEF Goto
<1>3. [frame[t] EXCEPT !.at = at] =
         [op |-> frame[t].op, at |-> at, era |-> frame[t].era, late |-> frame[t].late,
          sig |-> frame[t].sig, now |-> frame[t].now, line |-> frame[t].line,
          log |-> frame[t].log]
  BY <1>1 DEF Frame
<1>4. [frame[t] EXCEPT !.at = at] \in Frame
  BY <1>1, <1>3 DEF Frame
<1>5. frame'[t] = [frame[t] EXCEPT !.at = at] /\ Moves(t)
  BY <1>1, <1>2, <1>4 DEF Moves
<1>6. QED
  BY <1>3, <1>5

\* A call ends.
LEMMA ReturnMoves ==
    ASSUME CallTypes, NEW t \in Threads, Return(t)
    PROVE  Moves(t) /\ frame'[t] = Idle
BY IdleIsFrame DEF CallTypes, Return, Moves

\* A flush, an upload or the destructor begins.
LEMMA FlushMoves ==
    ASSUME CallTypes, NEW t \in Threads, NEW f \in Frame, frame' = [frame EXCEPT ![t] = f]
    PROVE  Moves(t) /\ frame'[t] = f
BY DEF CallTypes, Moves

\* The frames they begin with.
LEMMA FlushFrames ==
    ASSUME NEW op \in {"flush", "upload", "quit"}, NEW line \in Nat
    PROVE  LET f == [Idle EXCEPT !.op = op, !.at = "take"]
               g == [Idle EXCEPT !.op = op, !.at = "take", !.line = line]
           IN  /\ f \in Frame /\ f.op = op /\ f.at = "take" /\ f.line = 0
               /\ g \in Frame /\ g.op = op /\ g.at = "take" /\ g.line = line
<1> DEFINE f == [Idle EXCEPT !.op = op, !.at = "take"]
           g == [Idle EXCEPT !.op = op, !.at = "take", !.line = line]
<1>1. f.op = op /\ f.at = "take" /\ f.line = 0 /\ g.op = op /\ g.at = "take" /\ g.line = line
  BY DEF Idle
<1>2. f \in Frame
  BY IdleIsFrame DEF Frame, FlushStages
<1>3. g \in Frame
  BY IdleIsFrame DEF Frame, FlushStages
<1>4. QED
  BY <1>1, <1>2, <1>3


\* The calls of the capture interface begin alike.
CaptureBegins(t) ==
    AddBreadcrumb(t) \/ LogLine(t) \/ ReportBug(t) \/ \E log \in BOOLEAN : ReportCrash(t, log)

\* Which call it is says where it starts.
LEMMA BegunCalls ==
    ASSUME NEW t, CaptureBegins(t)
    PROVE  /\ \E op \in CaptureOps, at \in CaptureStages \ {"dedupe"}, log \in BOOLEAN :
                 Begin(t, op, at, log)
           /\ \E op \in CaptureOps : Spend(op)
           /\ UNCHANGED unbegun
<1>1. CASE AddBreadcrumb(t)
  BY <1>1 DEF AddBreadcrumb, Begin, CaptureOps, CaptureStages
<1>2. CASE LogLine(t)
  BY <1>2 DEF LogLine, Begin, CaptureOps, CaptureStages
<1>3. CASE ReportBug(t)
  BY <1>3 DEF ReportBug, Begin, CaptureOps, CaptureStages
<1>4. CASE \E log \in BOOLEAN : ReportCrash(t, log)
  <2>1. PICK log \in BOOLEAN : ReportCrash(t, log)
    BY <1>4
  <2>2. CASE log
    BY <2>1, <2>2 DEF ReportCrash, Begin, CaptureOps, CaptureStages
  <2>3. CASE ~ log
    BY <2>1, <2>3 DEF ReportCrash, Begin, CaptureOps, CaptureStages
  <2>4. QED
    BY <2>2, <2>3
<1>5. QED
  BY <1>1, <1>2, <1>3, <1>4 DEF CaptureBegins

\* Next, with the actions in the groups the proofs need.
LEMMA NextCases ==
    ASSUME Next
    PROVE  \/ \E t \in Callers : CaptureBegins(t)
           \/ \E t \in Callers : RecordBreadcrumb(t)
           \/ \E t \in Callers : ReadClock(t)
           \/ \E t \in Callers : Check(t)
           \/ \E t \in Callers : AppendLog(t)
           \/ \E t \in Callers : Enqueue(t)
           \/ \E t \in Callers : \E granted \in BOOLEAN : Exchange(t, granted)
           \/ \E t \in Callers : Purge(t)
           \/ \E t \in Callers : BeginQuit(t)
           \/ \E t \in Callers : EndQuit(t)
           \/ \E t \in Threads : BeginFlush(t)
           \/ \E t \in Threads : TakeChunk(t)
           \/ \E t \in Threads : PutChunk(t)
           \/ \E t \in Threads : EndFlush(t)
           \/ \E line \in awaited : BeginUpload(line)
           \/ \E moved, torn \in BOOLEAN : Relaunch(moved, torn)
           \/ Tick \/ Rest
BY DEF Next, CallStep, FlushStep, CaptureBegins

\* What stays as it is in the steps of a capture call, and in any step but the ends.
LEMMA Quietly == UNCHANGED quietly <=> UNCHANGED <<consent, now, closing, era, session, budget>>
BY DEF quietly

\* One call moves; where it arrives is proper.
LEMMA ShapeKept ==
    ASSUME CallShape, NEW t \in Threads, Moves(t), UNCHANGED <<era, closing>>,
           Proper(frame[t])', t # Worker \/ frame'[t].op \in WorkerOps
    PROVE  CallShape'
<1>1. \A u \in Threads \ {t} : Proper(frame[u])'
  BY DEF CallShape, Moves, Proper
<1>2. frame'[Worker].op \in WorkerOps
  BY CallersAreThreads DEF CallShape, Moves
<1>3. QED
  BY <1>1, <1>2 DEF CallShape

\* A call that returns is idle.
LEMMA ShapeReturns ==
    ASSUME CallTypes, CallShape, NEW t \in Threads, Return(t), UNCHANGED <<era, closing>>
    PROVE  Moves(t) /\ frame'[t] = Idle /\ CallShape'
<1>1. Moves(t) /\ frame'[t] = Idle
  BY ReturnMoves
<1>2. Proper(frame[t])' /\ frame'[t].op \in WorkerOps
  BY <1>1 DEF Proper, Idle, CaptureStages, WorkerOps
<1>3. QED
  BY <1>1, <1>2, ShapeKept

\* Each step of a capture call goes on to a step of it, or to the flush.
LEMMA ShapeCaptures ==
    ASSUME CallTypes, CallShape, NEW t \in Threads, NEW at \in CaptureStages \cup {"take"},
           frame[t].at \in CaptureStages, Moves(t), UNCHANGED <<era, closing>>,
           frame'[t].at = at, frame'[t].op = frame[t].op, frame'[t].era = frame[t].era,
           frame'[t].late = frame[t].late
    PROVE  CallShape'
<1>1. Proper(frame[t]) /\ frame[t].op \in CaptureOps
  BY DEF CallShape, Proper
<1>2. Proper(frame[t])'
  BY <1>1 DEF Proper, CaptureOps, CaptureStages
<1>3. t # Worker
  BY <1>1 DEF CallShape, WorkerOps, CaptureOps
<1>4. QED
  BY <1>2, <1>3, ShapeKept

\* A flush goes on to what is behind it.
LEMMA ShapeFlushes ==
    ASSUME CallTypes, CallShape, NEW t \in Threads, NEW at \in {"write", AfterFlush(t)},
           frame[t].at \in {"take", "write"}, Goto(t, at), UNCHANGED <<era, closing>>
    PROVE  /\ Moves(t) /\ frame'[t].at = at /\ frame'[t].op = frame[t].op
           /\ frame'[t].line = frame[t].line /\ CallShape'
<1>1. AfterFlush(t) \in {"read", "join", "return"}
      /\ (frame[t].op = "quit" <=> AfterFlush(t) = "join")
  BY DEF AfterFlush
<1>2. at \in CaptureStages \cup FlushStages \cup {"gate", "purge", "over"}
  BY <1>1 DEF FlushStages
<1>3. Moves(t) /\ frame'[t].at = at /\ frame'[t].op = frame[t].op
      /\ frame'[t].line = frame[t].line
  BY <1>2, GotoMoves
<1>4. Proper(frame[t])
  BY DEF CallShape
<1>5. Proper(frame[t])'
  BY <1>1, <1>3, <1>4 DEF Proper, CaptureStages
<1>6. t # Worker \/ frame'[t].op \in WorkerOps
  BY <1>3 DEF CallShape
<1>7. QED
  BY <1>3, <1>5, <1>6, ShapeKept


\* report_crash has read the clock.
LEMMA ClockMoves ==
    ASSUME CallTypes, now \in Nat, NEW t \in Threads, ReadClock(t)
    PROVE  /\ Moves(t) /\ frame'[t].at = "dedupe" /\ frame'[t].op = frame[t].op
           /\ frame'[t].era = frame[t].era /\ frame'[t].late = frame[t].late
           /\ frame'[t].line = frame[t].line /\ frame'[t].sig \in Signatures
<1>1. frame \in [Threads -> Frame] /\ frame[t] \in Frame
  BY DEF CallTypes
<1>2. PICK sig \in Signatures :
         frame' = [frame EXCEPT ![t].at = "dedupe", ![t].sig = sig, ![t].now = now]
  BY DEF ReadClock
<1> DEFINE f == [frame[t] EXCEPT !.at = "dedupe", !.sig = sig, !.now = now]
<1>3. frame' = [frame EXCEPT ![t] = f]
  BY <1>1, <1>2
<1>4. f \in Frame
  BY <1>1 DEF Frame, CaptureStages
<1>5. f.at = "dedupe" /\ f.op = frame[t].op /\ f.era = frame[t].era /\ f.late = frame[t].late
      /\ f.line = frame[t].line /\ f.sig = sig
  BY <1>1 DEF Frame
<1> HIDE DEF f
<1>6. frame'[t] = f /\ Moves(t)
  BY <1>1, <1>3, <1>4 DEF Moves
<1>7. QED
  BY <1>5, <1>6

\* A line or a crash entry is in the buffer, or was refused.
LEMMA AppendMoves ==
    ASSUME LogTypes, CallTypes, NEW t \in Threads, AppendLog(t)
    PROVE  /\ Moves(t) /\ frame'[t].at \in {"snapshot", "add"} /\ frame'[t].op = frame[t].op
           /\ frame'[t].era = frame[t].era /\ frame'[t].late = frame[t].late
           /\ frame'[t].line \in {0, accepted + 1}
           /\ frame'[t].line # 0 => accepted < accepted'
<1> DEFINE at == IF frame[t].op = "attach" THEN "snapshot" ELSE "add"
           line == IF accepted' > accepted THEN accepted + 1 ELSE 0
           f == [frame[t] EXCEPT !.at = at, !.line = line]
<1>1. frame \in [Threads -> Frame] /\ frame[t] \in Frame /\ accepted \in Nat
  BY DEF CallTypes, LogTypes, LogTypeOK
<1>2. frame' = [frame EXCEPT ![t].at = at, ![t].line = line]
  BY DEF AppendLog
<1>3. at \in {"snapshot", "add"} /\ line \in Nat /\ line \in {0, accepted + 1}
      /\ (line # 0 => accepted' > accepted)
  BY <1>1
<1> HIDE DEF at, line
<1>4. frame' = [frame EXCEPT ![t] = f]
  BY <1>1, <1>2
<1>5. f \in Frame
  BY <1>1, <1>3 DEF Frame, CaptureStages
<1>6. f.at = at /\ f.op = frame[t].op /\ f.era = frame[t].era /\ f.late = frame[t].late
      /\ f.line = line
  BY <1>1 DEF Frame
<1> HIDE DEF f
<1>7. frame'[t] = f /\ Moves(t)
  BY <1>1, <1>4, <1>5 DEF Moves
<1>8. accepted' > accepted => accepted < accepted'
  OBVIOUS
<1>9. QED
  BY <1>3, <1>6, <1>7, <1>8

\* set_consent changes the flag: a revocation makes what is under way late and
\* goes on to the purge.
LEMMA ExchangeMoves ==
    ASSUME CallTypes, NEW t \in Threads, NEW granted \in BOOLEAN, Exchange(t, granted)
    PROVE  /\ frame' \in [Threads -> Frame]
           /\ IF granted
              THEN frame' = frame
              ELSE /\ frame'[t].op = "revoke" /\ frame'[t].at = "purge" /\ frame'[t].line = 0
                   /\ \A u \in Threads \ {t} :
                         /\ frame'[u].op = frame[u].op /\ frame'[u].at = frame[u].at
                         /\ frame'[u].era = frame[u].era /\ frame'[u].line = frame[u].line
                         /\ frame'[u].sig = frame[u].sig
                         /\ frame'[u].late = (frame[u].op # "idle")
<1> DEFINE r == [Idle EXCEPT !.op = "revoke", !.at = "purge"]
           l(u) == [frame[u] EXCEPT !.late = frame[u].op # "idle"]
<1>1. frame \in [Threads -> Frame] /\ \A u \in Threads : frame[u] \in Frame
  BY DEF CallTypes
<1>2. frame' = [u \in Threads |-> IF granted THEN frame[u] ELSE IF u = t THEN r ELSE l(u)]
  BY DEF Exchange
<1>3. r \in Frame
  BY IdleIsFrame DEF Frame
<1>4. r.op = "revoke" /\ r.at = "purge" /\ r.line = 0
  BY DEF Idle
<1>5. ASSUME NEW u \in Threads
      PROVE  /\ l(u) \in Frame
             /\ l(u).op = frame[u].op /\ l(u).at = frame[u].at /\ l(u).era = frame[u].era
             /\ l(u).line = frame[u].line /\ l(u).late = (frame[u].op # "idle")
             /\ l(u).sig = frame[u].sig
  <2>1. frame[u] \in Frame /\ (frame[u].op # "idle") \in BOOLEAN
    BY <1>1
  <2>2. l(u) = [op |-> frame[u].op, at |-> frame[u].at, era |-> frame[u].era,
                late |-> frame[u].op # "idle", sig |-> frame[u].sig, now |-> frame[u].now,
                line |-> frame[u].line, log |-> frame[u].log]
    BY <2>1 DEF Frame
  <2>3. QED
    BY <2>1, <2>2 DEF Frame
<1> HIDE DEF r, l
<1>6. CASE granted
  BY <1>1, <1>2, <1>6
<1>7. CASE ~ granted
  <2>1. frame' = [u \in Threads |-> IF u = t THEN r ELSE l(u)]
    BY <1>2, <1>7
  <2>2. frame' \in [Threads -> Frame] /\ frame'[t] = r
        /\ \A u \in Threads \ {t} : frame'[u] = l(u)
    BY <2>1, <1>3, <1>5
  <2>3. QED
    BY <1>4, <1>5, <1>7, <2>2
<1>8. QED
  BY <1>6, <1>7

\* Every step takes every call to a step it has.
LEMMA ShapeStep ==
    ASSUME LogTypes, ClientTypes, CallTypes, CallShape, Next
    PROVE  frame' \in [Threads -> Frame] /\ CallShape'
<1>a. frame \in [Threads -> Frame] /\ era \in Nat /\ now \in Nat
  BY DEF CallTypes, ClientTypes
<1>b. ASSUME NEW t, Moves(t), CallShape' PROVE frame' \in [Threads -> Frame] /\ CallShape'
  BY <1>b DEF Moves
<1>1. ASSUME NEW t \in Callers, CaptureBegins(t) PROVE Moves(t) /\ CallShape'
  <2>1. PICK op \in CaptureOps, at \in CaptureStages, log \in BOOLEAN : Begin(t, op, at, log)
    BY <1>1, BegunCalls
  <2>2. UNCHANGED <<era, closing>>
    BY <1>1, BegunCalls DEF unbegun, pastVars
  <2>3. t \in Threads /\ t # Worker
    BY CallersAreThreads
  <2>4. /\ Moves(t) /\ ~closing
        /\ frame'[t].op = op /\ frame'[t].at = at /\ frame'[t].era = era
    BY <1>a, <2>1, <2>3, BeginMoves
  <2>5. Proper(frame[t])'
    BY <2>2, <2>4 DEF Proper, CaptureOps, CaptureStages
  <2>6. QED
    BY <2>2, <2>3, <2>4, <2>5, ShapeKept
<1>2. ASSUME NEW t \in Threads, Return(t), UNCHANGED <<era, closing>>
      PROVE  Moves(t) /\ CallShape'
  BY <1>2, ShapeReturns
<1>3. ASSUME NEW t \in Callers, ReadClock(t) PROVE Moves(t) /\ CallShape'
  <2>1. UNCHANGED <<era, closing>> /\ frame[t].at = "clock"
    BY <1>3 DEF ReadClock, quietly
  <2>2. t \in Threads
    BY CallersAreThreads
  <2>3. QED
    BY <1>3, <1>a, <2>1, <2>2, ClockMoves, ShapeCaptures DEF CaptureStages
<1>4. ASSUME NEW t \in Callers, AppendLog(t) PROVE Moves(t) /\ CallShape'
  <2>1. UNCHANGED <<era, closing>> /\ frame[t].at = "append"
    BY <1>4 DEF AppendLog, quietly
  <2>2. t \in Threads
    BY CallersAreThreads
  <2>3. QED
    BY <1>4, <2>1, <2>2, AppendMoves, ShapeCaptures DEF CaptureStages
<1>5. ASSUME NEW t \in Threads, NEW at \in CaptureStages \cup {"take"}, Goto(t, at),
             frame[t].at \in CaptureStages, UNCHANGED <<era, closing>>
      PROVE  Moves(t) /\ CallShape'
  BY <1>5, GotoMoves, ShapeCaptures DEF FlushStages
<1>6. ASSUME NEW t \in Callers, Check(t) PROVE Moves(t) /\ CallShape'
  <2>1. UNCHANGED <<era, closing>> /\ frame[t].at = "dedupe"
    BY <1>6 DEF Check, quietly
  <2>2. t \in Threads
    BY CallersAreThreads
  <2>3. \E at \in CaptureStages : Goto(t, at)
    BY <1>6 DEF Check, CaptureStages
  <2>4. QED
    BY <1>5, <2>1, <2>2, <2>3 DEF CaptureStages
<1>7. ASSUME NEW t \in Callers, Enqueue(t) PROVE Moves(t) /\ CallShape'
  <2>1. UNCHANGED <<era, closing>> /\ frame[t].at = "snapshot"
        /\ (Return(t) \/ Goto(t, "take"))
    BY <1>7 DEF Enqueue, quietly
  <2>2. t \in Threads
    BY CallersAreThreads
  <2>3. QED
    BY <1>2, <1>5, <2>1, <2>2 DEF CaptureStages
<1>8. ASSUME NEW t \in Callers, NEW granted \in BOOLEAN, Exchange(t, granted)
      PROVE  frame' \in [Threads -> Frame] /\ CallShape'
  <2>1. t \in Threads /\ t # Worker /\ UNCHANGED closing /\ ~closing /\ frame[t].op = "idle"
        /\ era' = (IF granted THEN era ELSE era + 1)
    BY <1>8, CallersAreThreads DEF Exchange
  <2>2. CASE granted
    <3>1. frame' = frame /\ UNCHANGED <<era, closing>>
      BY <1>8, <2>1, <2>2, ExchangeMoves
    <3>2. QED
      BY <1>a, <3>1 DEF CallShape, Proper
  <2>3. CASE ~ granted
    <3>1. /\ frame' \in [Threads -> Frame] /\ frame'[t].op = "revoke" /\ frame'[t].at = "purge"
          /\ \A u \in Threads \ {t} :
                /\ frame'[u].op = frame[u].op /\ frame'[u].at = frame[u].at
                /\ frame'[u].late = (frame[u].op # "idle")
      BY <1>8, <2>1, <2>3, ExchangeMoves
    <3>2. ASSUME NEW u \in Threads \ {t} PROVE Proper(frame[u])'
      <4>1. Proper(frame[u])
        BY DEF CallShape
      <4>2. QED
        BY <2>1, <3>1, <4>1 DEF Proper, CaptureOps, CaptureStages
    <3>3. Proper(frame[t])'
      BY <2>1, <3>1 DEF Proper, CaptureStages
    <3>4. frame'[Worker].op \in WorkerOps
      BY <2>1, <3>1, CallersAreThreads DEF CallShape
    <3>5. QED
      BY <3>1, <3>2, <3>3, <3>4 DEF CallShape
  <2>4. QED
    BY <2>2, <2>3
<1>9. ASSUME NEW t \in Callers, BeginQuit(t) PROVE Moves(t) /\ CallShape'
  <2> DEFINE f == [Idle EXCEPT !.op = "quit", !.at = "take"]
  <2>1. /\ t \in Threads /\ t # Worker /\ closing' /\ UNCHANGED era
        /\ \A u \in Callers : frame[u].op = "idle"
        /\ frame' = [frame EXCEPT ![t] = f]
    BY <1>9, CallersAreThreads DEF BeginQuit, pastVars
  <2>2. f \in Frame /\ f.op = "quit" /\ f.at = "take"
    BY FlushFrames
  <2> HIDE DEF f
  <2>3. Moves(t) /\ frame'[t] = f
    BY <2>1, <2>2, FlushMoves
  <2>4. Proper(frame[t])'
    BY <2>1, <2>2, <2>3 DEF Proper, CaptureStages
  <2>5. ASSUME NEW u \in Threads \ {t} PROVE Proper(frame[u])'
    <3>1. Proper(frame[u]) /\ frame'[u] = frame[u] /\ frame[u].op \in WorkerOps
      BY <2>1, <2>3, CallersAreThreads DEF CallShape, Moves, WorkerOps
    <3>2. QED
      BY <2>1, <3>1 DEF Proper, WorkerOps
  <2>6. frame'[Worker].op \in WorkerOps
    BY <2>1, <2>3, CallersAreThreads DEF CallShape, Moves
  <2>7. QED
    BY <2>3, <2>4, <2>5, <2>6 DEF CallShape
<1>10. ASSUME NEW t \in Callers, EndQuit(t) PROVE Moves(t) /\ CallShape'
  <2>1. t \in Threads /\ t # Worker /\ UNCHANGED <<era, closing>> /\ Goto(t, "over")
        /\ frame[t].at = "join"
    BY <1>10, CallersAreThreads DEF EndQuit, quietly
  <2>2. Moves(t) /\ frame'[t].at = "over" /\ frame'[t].op = frame[t].op
    BY <2>1, GotoMoves
  <2>3. Proper(frame[t])
    BY <2>1 DEF CallShape
  <2>4. Proper(frame[t])'
    BY <2>1, <2>2, <2>3 DEF Proper, CaptureStages
  <2>5. QED
    BY <2>1, <2>2, <2>4, ShapeKept
<1>11. ASSUME NEW t \in Threads, NEW f \in Frame, frame' = [frame EXCEPT ![t] = f],
              f.op \in {"flush", "upload"}, f.at = "take", UNCHANGED <<era, closing>>
       PROVE  Moves(t) /\ CallShape'
  <2>1. Moves(t) /\ frame'[t] = f
    BY <1>11, FlushMoves
  <2>2. Proper(frame[t])' /\ frame'[t].op \in WorkerOps
    BY <1>11, <2>1 DEF Proper, CaptureStages, WorkerOps
  <2>3. QED
    BY <1>11, <2>1, <2>2, ShapeKept
<1>12. ASSUME NEW t \in Threads, BeginFlush(t) PROVE Moves(t) /\ CallShape'
  <2>1. frame' = [frame EXCEPT ![t] = [Idle EXCEPT !.op = "flush", !.at = "take"]]
        /\ UNCHANGED <<era, closing>>
    BY <1>12 DEF BeginFlush, pastVars
  <2>2. QED
    BY <1>11, <2>1, FlushFrames
<1>13. ASSUME NEW line \in awaited, BeginUpload(line) PROVE Moves(Worker) /\ CallShape'
  <2>1. frame' = [frame EXCEPT ![Worker] = [Idle EXCEPT !.op = "upload", !.at = "take",
                                                        !.line = line]]
        /\ UNCHANGED <<era, closing>>
    BY <1>13 DEF BeginUpload
  <2>2. line \in Nat
    BY DEF CallTypes
  <2>3. QED
    BY <1>11, <2>1, <2>2, FlushFrames, CallersAreThreads
<1>14. ASSUME NEW t \in Threads, TakeChunk(t) \/ PutChunk(t) PROVE Moves(t) /\ CallShape'
  <2>1. UNCHANGED <<era, closing>> /\ frame[t].at \in {"take", "write"}
        /\ \E at \in {"write", AfterFlush(t)} : Goto(t, at)
    BY <1>14 DEF TakeChunk, PutChunk, quietly, pastVars
  <2>2. QED
    BY <2>1, ShapeFlushes
<1>15. ASSUME NEW t \in Threads, EndFlush(t) PROVE Moves(t) /\ CallShape'
  BY <1>2, <1>15 DEF EndFlush, quietly
<1>16. ASSUME NEW t \in Callers, RecordBreadcrumb(t) \/ Purge(t) PROVE Moves(t) /\ CallShape'
  BY <1>2, <1>16, CallersAreThreads DEF RecordBreadcrumb, Purge, quietly
<1>17. ASSUME NEW moved \in BOOLEAN, NEW torn \in BOOLEAN, Relaunch(moved, torn)
       PROVE  frame' \in [Threads -> Frame] /\ CallShape'
  <2>1. frame' = [t \in Threads |-> Idle] /\ closing' = FALSE
    BY <1>17 DEF Relaunch
  <2>2. \A t \in Threads : frame'[t] = Idle
    BY <2>1
  <2>3. Idle.op = "idle" /\ Idle.at = "gate"
    BY DEF Idle
  <2>4. QED
    BY <2>1, <2>2, <2>3, IdleIsFrame, CallersAreThreads
       DEF CallShape, Proper, WorkerOps, CaptureStages
<1>18. ASSUME Tick \/ Rest PROVE frame' \in [Threads -> Frame] /\ CallShape'
  <2>1. UNCHANGED <<frame, closing, era>>
    BY <1>18 DEF Tick, Rest, vars, callVars, pastVars
  <2>2. QED
    BY <1>a, <2>1 DEF CallShape, Proper
<1>19. QED
  BY <1>b, <1>1, <1>3, <1>4, <1>6, <1>7, <1>8, <1>9, <1>10, <1>12, <1>13, <1>14, <1>15, <1>16,
     <1>17, <1>18, NextCases

-----------------------------------------------------------------------------
(* Types *)

\* The log changes in the steps that append, take, write and rotate only.
LEMMA LogSteps ==
    ASSUME Next
    PROVE  \/ UNCHANGED logVars
           \/ \E t \in Callers : AppendLog(t)
           \/ \E t \in Threads : TakeChunk(t)
           \/ \E t \in Threads : PutChunk(t)
           \/ \E moved, torn \in BOOLEAN : Relaunch(moved, torn)
<1>1. ASSUME NEW t, CaptureBegins(t) PROVE UNCHANGED logVars
  BY <1>1, BegunCalls DEF unbegun
<1>2. ASSUME NEW t, \/ RecordBreadcrumb(t) \/ ReadClock(t) \/ Check(t) \/ Enqueue(t) \/ Purge(t)
                    \/ BeginQuit(t) \/ EndQuit(t) \/ BeginFlush(t) \/ EndFlush(t)
                    \/ BeginUpload(t) \/ (\E granted \in BOOLEAN : Exchange(t, granted))
      PROVE  UNCHANGED logVars
  BY <1>2 DEF RecordBreadcrumb, ReadClock, Check, Enqueue, Purge, BeginQuit, EndQuit,
              BeginFlush, EndFlush, BeginUpload, Exchange
<1>3. ASSUME Tick \/ Rest PROVE UNCHANGED logVars
  BY <1>3 DEF Tick, Rest, vars
<1>4. QED
  BY <1>1, <1>2, <1>3, NextCases

\* The types of the log, and what a step does to the number of lines accepted.
LEMMA LogStep ==
    ASSUME LogTypes, Next
    PROVE  LogTypes' /\ accepted <= accepted'
<1>1. CASE UNCHANGED logVars
  BY <1>1 DEF LogTypes, LogTypeOK, logVars, logMemory
<1>2. ASSUME NEW t \in Callers, AppendLog(t) PROVE LogTypes' /\ accepted <= accepted'
  <2>1. \E n \in 1 .. 2 : AppendLines(n)
    BY <1>2 DEF AppendLog
  <2>2. QED
    BY <2>1, AppendTypes
<1>3. ASSUME NEW t \in Threads, TakeChunk(t) PROVE LogTypes' /\ UNCHANGED accepted
  <2>1. TakePending(t)
    BY <1>3 DEF TakeChunk
  <2>2. CASE buffer = <<>>
    <3>1. UNCHANGED logVars
      BY <2>1, <2>2 DEF TakePending, logVars, logMemory
    <3>2. QED
      BY <3>1 DEF LogTypes, LogTypeOK, logVars, logMemory
  <2>3. CASE buffer # <<>>
    BY <2>1, <2>3, TakeTypes
  <2>4. QED
    BY <2>2, <2>3
<1>4. ASSUME NEW t \in Threads, PutChunk(t) PROVE LogTypes' /\ UNCHANGED accepted
  <2>1. WriteChunk(t) \/ WriteFails(t)
    BY <1>4 DEF PutChunk
  <2>2. QED
    BY <2>1, WriteTypes
<1>5. ASSUME NEW moved \in BOOLEAN, NEW torn \in BOOLEAN, Relaunch(moved, torn)
      PROVE  LogTypes' /\ UNCHANGED accepted
  BY <1>5, RotateTypes DEF Relaunch
<1>6. accepted \in Nat
  BY DEF LogTypes, LogTypeOK
<1>7. QED
  BY <1>1, <1>2, <1>3, <1>4, <1>5, <1>6, LogSteps

\* What DedupeWindow::check remembers when it lets a report through, and when not.
LEMMA CheckRecent ==
    ASSUME ClientTypes, CallTypes, NEW t \in Threads, Check(t)
    PROVE  LET sig == frame[t].sig
               at  == frame[t].now
           IN  IF Allows(sig, at)
               THEN /\ recent'[sig] = [last |-> at, suppressed |-> 0]
                    /\ sig \in DOMAIN recent'
                    /\ \/ /\ sig \in DOMAIN recent \/ Cardinality(DOMAIN recent) < MaxTracked
                          /\ DOMAIN recent' = DOMAIN recent \cup {sig}
                          /\ \A s \in DOMAIN recent \ {sig} : recent'[s] = recent[s]
                          /\ UNCHANGED clears
                       \/ DOMAIN recent' = {sig} /\ sig \notin DOMAIN recent
                          /\ clears' = clears + 1
               ELSE /\ sig \in DOMAIN recent /\ DOMAIN recent' = DOMAIN recent
                    /\ \A s \in DOMAIN recent :
                          recent'[s] \in Sent /\ recent'[s].last = recent[s].last
                    /\ UNCHANGED <<clears, passed>>
<1> DEFINE sig == frame[t].sig
           at  == frame[t].now
           full == sig \notin DOMAIN recent /\ Cardinality(DOMAIN recent) >= MaxTracked
           kept == IF full THEN {} ELSE DOMAIN recent
<1>1. /\ IsFiniteSet(DOMAIN recent) /\ MaxTracked \in Nat
      /\ \A s \in DOMAIN recent : recent[s] \in Sent
  BY CaptureAssumption DEF ClientTypes
<1>2. Cardinality(DOMAIN recent) \in Nat
  BY <1>1, FS_CardinalityType
<1>3. CASE Allows(sig, at)
  <2>1. /\ recent' = [s \in kept \cup {sig} |->
                        IF s = sig THEN [last |-> at, suppressed |-> 0] ELSE recent[s]]
        /\ clears' = IF full THEN clears + 1 ELSE clears
    BY <1>3 DEF Check
  <2>2. /\ DOMAIN recent' = kept \cup {sig}
        /\ recent'[sig] = [last |-> at, suppressed |-> 0]
        /\ \A s \in kept \ {sig} : recent'[s] = recent[s]
    BY <2>1
  <2>3. CASE full
    BY <1>3, <2>1, <2>2, <2>3
  <2>4. CASE ~ full
    <3>1. sig \in DOMAIN recent \/ Cardinality(DOMAIN recent) < MaxTracked
      BY <1>1, <1>2, <2>4
    <3>2. QED
      BY <1>3, <2>1, <2>2, <2>4, <3>1
  <2>5. QED
    BY <2>3, <2>4
<1>4. CASE ~ Allows(sig, at)
  <2>1. sig \in DOMAIN recent
    BY <1>4 DEF Allows
  <2>2. recent' = [recent EXCEPT ![sig].suppressed = @ + 1] /\ UNCHANGED <<clears, passed>>
    BY <1>4 DEF Check
  <2>3. /\ DOMAIN recent' = DOMAIN recent
        /\ \A s \in DOMAIN recent \ {sig} : recent'[s] = recent[s]
        /\ recent'[sig] = [recent[sig] EXCEPT !.suppressed = recent[sig].suppressed + 1]
    BY <2>1, <2>2
  <2>4. recent'[sig] \in Sent /\ recent'[sig].last = recent[sig].last
    BY <1>1, <2>1, <2>3 DEF Sent
  <2>5. QED
    BY <1>1, <1>4, <2>1, <2>2, <2>3, <2>4
<1>5. QED
  BY <1>3, <1>4


\* What is left of the budget.
LEMMA SpendTypes ==
    ASSUME budget \in [Kinds -> Nat], NEW kind \in Kinds, Spend(kind)
    PROVE  budget' \in [Kinds -> Nat]
<1>1. budget[kind] \in Nat /\ budget[kind] > 0
  BY DEF Spend
<1>2. budget[kind] - 1 \in Nat
  BY <1>1
<1>3. QED
  BY <1>2 DEF Spend

\* The types of the client: the flag, the ring, the window, the clock.
LEMMA ClientStep ==
    ASSUME ClientTypes, CallTypes, CallShape, Filled(ring), Next
    PROVE  ClientTypes' /\ Filled(ring)'
<1> DEFINE others == <<consent, closing, ring, recent, now, era, clears, session>>
<1>a. /\ ring \in Ring /\ budget \in [Kinds -> Nat] /\ era \in Nat /\ now \in Nat
      /\ clears \in Nat /\ session \in Nat /\ consent \in BOOLEAN /\ closing \in BOOLEAN
  BY DEF ClientTypes
<1>b. CaptureOps \cup {"consent", "flush", "tick", "fault", "launch"} = Kinds
  BY DEF CaptureOps, Kinds
<1>c. CASE UNCHANGED <<consent, closing, ring, recent, now, era, clears, session, budget>>
  BY <1>c DEF ClientTypes, Filled, Back
<1>d. ASSUME budget' \in [Kinds -> Nat], UNCHANGED others
      PROVE  ClientTypes' /\ Filled(ring)'
  BY <1>d DEF ClientTypes, Filled, Back
<1>e. ASSUME ring' \in Ring /\ Filled(ring'),
             UNCHANGED <<consent, closing, recent, now, era, clears, session, budget>>
      PROVE  ClientTypes' /\ Filled(ring)'
  BY <1>e DEF ClientTypes, Filled, Back
<1>f. ASSUME consent' \in BOOLEAN, closing' \in BOOLEAN, now' \in Nat, era' \in Nat,
             budget' \in [Kinds -> Nat], UNCHANGED <<ring, recent, clears, session>>
      PROVE  ClientTypes' /\ Filled(ring)'
  BY <1>f DEF ClientTypes, Filled, Back
<1>1. ASSUME NEW t \in Callers, CaptureBegins(t) PROVE ClientTypes' /\ Filled(ring)'
  <2>1. budget' \in [Kinds -> Nat]
    BY <1>a, <1>b, <1>1, BegunCalls, SpendTypes
  <2>2. UNCHANGED others
    BY <1>1, BegunCalls DEF unbegun, pastVars
  <2>3. QED
    BY <1>d, <2>1, <2>2
<1>2. ASSUME NEW t \in Callers, RecordBreadcrumb(t) PROVE ClientTypes' /\ Filled(ring)'
  <2> DEFINE crumb == [era |-> frame[t].era, late |-> frame[t].late]
  <2>1. frame[t] \in Frame
    BY CallersAreThreads DEF CallTypes
  <2>2. crumb \in Crumb /\ crumb # NoCrumb
    <3>1. frame[t].era \in Nat /\ frame[t].late \in BOOLEAN
      BY <2>1 DEF Frame
    <3>2. crumb.era # -1
      BY <3>1
    <3>3. crumb # NoCrumb
      BY <3>2 DEF NoCrumb
    <3>4. crumb \in Crumb
      BY <3>1 DEF Crumb
    <3>5. QED
      BY <3>3, <3>4
  <2>3. ring' = Added(ring, crumb)
    BY <1>2 DEF RecordBreadcrumb
  <2> HIDE DEF crumb
  <2>4. UNCHANGED <<consent, closing, recent, now, era, clears, session, budget>>
    BY <1>2 DEF RecordBreadcrumb, quietly
  <2>5. QED
    BY <1>a, <1>e, <2>2, <2>3, <2>4, AddedFills
<1>3. ASSUME NEW t \in Callers, ReadClock(t) \/ AppendLog(t) \/ Enqueue(t) \/ EndQuit(t)
      PROVE  ClientTypes' /\ Filled(ring)'
  <2>1. UNCHANGED <<consent, closing, ring, recent, now, era, clears, session, budget>>
    BY <1>3 DEF ReadClock, AppendLog, Enqueue, EndQuit, quietly
  <2>2. QED
    BY <1>c, <2>1
<1>4. ASSUME NEW t \in Callers, Check(t) PROVE ClientTypes' /\ Filled(ring)'
  <2> DEFINE sig == frame[t].sig
  <2>1. t \in Threads /\ sig \in Signatures /\ frame[t].now \in Nat
    <3>1. t \in Threads /\ frame[t].at = "dedupe"
      BY <1>4, CallersAreThreads DEF Check
    <3>2. frame[t] \in Frame /\ sig \in Signatures
      BY <3>1 DEF CallTypes
    <3>3. QED
      BY <3>1, <3>2 DEF Frame
  <2>2. UNCHANGED <<consent, closing, ring, now, era, session, budget>>
    BY <1>4 DEF Check, quietly
  <2>3. /\ IsFiniteSet(DOMAIN recent) /\ DOMAIN recent \subseteq Signatures
        /\ Cardinality(DOMAIN recent) \in Nat /\ Cardinality(DOMAIN recent) <= MaxTracked
        /\ \A s \in DOMAIN recent : recent[s] \in Sent
        /\ MaxTracked \in Nat \ {0}
    BY CaptureAssumption, FS_CardinalityType DEF ClientTypes
  <2>4. /\ DOMAIN recent' \subseteq Signatures /\ IsFiniteSet(DOMAIN recent')
        /\ Cardinality(DOMAIN recent') <= MaxTracked
        /\ \A s \in DOMAIN recent' : recent'[s] \in Sent
        /\ clears' \in Nat
    <3>1. CASE ~ Allows(sig, frame[t].now)
      <4>1. /\ DOMAIN recent' = DOMAIN recent /\ UNCHANGED clears
            /\ \A s \in DOMAIN recent : recent'[s] \in Sent
        BY <1>4, <2>1, <3>1, CheckRecent
      <4>2. QED
        BY <1>a, <2>3, <4>1
    <3>2. CASE Allows(sig, frame[t].now)
      <4>1. recent'[sig] \in Sent
        <5>1. recent'[sig] = [last |-> frame[t].now, suppressed |-> 0]
          BY <1>4, <2>1, <3>2, CheckRecent
        <5>2. QED
          BY <2>1, <5>1 DEF Sent
      <4>2. CASE /\ sig \in DOMAIN recent \/ Cardinality(DOMAIN recent) < MaxTracked
                 /\ DOMAIN recent' = DOMAIN recent \cup {sig}
                 /\ \A s \in DOMAIN recent \ {sig} : recent'[s] = recent[s]
                 /\ UNCHANGED clears
        <5>1. IsFiniteSet(DOMAIN recent') /\ Cardinality(DOMAIN recent') <= MaxTracked
          <6>1. CASE sig \in DOMAIN recent
            <7>1. DOMAIN recent' = DOMAIN recent
              BY <4>2, <6>1
            <7>2. QED
              BY <2>3, <7>1
          <6>2. CASE sig \notin DOMAIN recent
            <7>1. /\ IsFiniteSet(DOMAIN recent \cup {sig})
                  /\ Cardinality(DOMAIN recent \cup {sig}) = Cardinality(DOMAIN recent) + 1
              BY <2>3, <6>2, FS_AddElement
            <7>2. QED
              BY <2>3, <4>2, <6>2, <7>1
          <6>3. QED
            BY <6>1, <6>2
        <5>2. QED
          BY <1>a, <2>1, <2>3, <4>1, <4>2, <5>1
      <4>3. CASE DOMAIN recent' = {sig} /\ clears' = clears + 1
        <5>1. IsFiniteSet({sig}) /\ Cardinality({sig}) = 1
          BY FS_Singleton
        <5>2. QED
          BY <1>a, <2>1, <2>3, <4>1, <4>3, <5>1
      <4>4. QED
        BY <1>4, <2>1, <3>2, <4>2, <4>3, CheckRecent
    <3>3. QED
      BY <3>1, <3>2
  <2>5. QED
    BY <1>a, <2>2, <2>4 DEF ClientTypes, Filled, Back
<1>5. ASSUME NEW t \in Callers, NEW granted \in BOOLEAN, Exchange(t, granted)
      PROVE  ClientTypes' /\ Filled(ring)'
  <2>1. budget' \in [Kinds -> Nat]
    BY <1>a, <1>b, <1>5, SpendTypes DEF Exchange
  <2>2. /\ consent' \in BOOLEAN /\ era' \in Nat
        /\ UNCHANGED <<ring, recent, now, closing, clears, session>>
    BY <1>a, <1>5 DEF Exchange
  <2>3. QED
    BY <1>a, <1>f, <2>1, <2>2
<1>6. ASSUME NEW t \in Callers, Purge(t) PROVE ClientTypes' /\ Filled(ring)'
  <2>1. ring' = EmptyRing
        /\ UNCHANGED <<consent, closing, recent, now, era, clears, session, budget>>
    BY <1>6 DEF Purge, quietly
  <2>2. QED
    BY <1>e, <2>1, EmptyRingFilled
<1>7. ASSUME NEW t \in Callers, BeginQuit(t) PROVE ClientTypes' /\ Filled(ring)'
  <2>1. closing' \in BOOLEAN
        /\ UNCHANGED <<consent, ring, recent, now, era, clears, session, budget>>
    BY <1>7 DEF BeginQuit, pastVars, boundVars
  <2>2. QED
    BY <1>a, <1>f, <2>1
<1>8. ASSUME NEW t \in Threads, BeginFlush(t) PROVE ClientTypes' /\ Filled(ring)'
  <2>1. budget' \in [Kinds -> Nat]
    BY <1>a, <1>b, <1>8, SpendTypes DEF BeginFlush
  <2>2. UNCHANGED others
    BY <1>8 DEF BeginFlush, pastVars
  <2>3. QED
    BY <1>d, <2>1, <2>2
<1>9. ASSUME NEW t \in Threads, TakeChunk(t) \/ EndFlush(t) PROVE ClientTypes' /\ Filled(ring)'
  <2>1. UNCHANGED <<consent, closing, ring, recent, now, era, clears, session, budget>>
    BY <1>9 DEF TakeChunk, EndFlush, quietly
  <2>2. QED
    BY <1>c, <2>1
<1>10. ASSUME NEW t \in Threads, PutChunk(t) PROVE ClientTypes' /\ Filled(ring)'
  <2>1. budget' \in [Kinds -> Nat]
    BY <1>a, <1>b, <1>10, SpendTypes DEF PutChunk
  <2>2. UNCHANGED others
    BY <1>10 DEF PutChunk, pastVars
  <2>3. QED
    BY <1>d, <2>1, <2>2
<1>11. ASSUME NEW line \in awaited, BeginUpload(line) PROVE ClientTypes' /\ Filled(ring)'
  <2>1. UNCHANGED <<consent, closing, ring, recent, now, era, clears, session, budget>>
    BY <1>11 DEF BeginUpload, boundVars
  <2>2. QED
    BY <1>c, <2>1
<1>12. ASSUME NEW moved \in BOOLEAN, NEW torn \in BOOLEAN, Relaunch(moved, torn)
       PROVE  ClientTypes' /\ Filled(ring)'
  <2>1. /\ consent' = TRUE /\ ring' = EmptyRing /\ recent' = <<>> /\ closing' = FALSE
        /\ session' = session + 1 /\ UNCHANGED <<now, era, clears>>
    BY <1>12 DEF Relaunch
  <2>2. budget' \in [Kinds -> Nat]
    BY <1>a, <1>b, <1>12, SpendTypes DEF Relaunch
  <2>3. DOMAIN recent' = {}
    BY <2>1
  <2>4. /\ IsFiniteSet(DOMAIN recent') /\ Cardinality(DOMAIN recent') <= MaxTracked
        /\ DOMAIN recent' \subseteq Signatures /\ \A s \in DOMAIN recent' : recent'[s] \in Sent
    BY <2>3, FS_EmptySet, CaptureAssumption
  <2>5. session' \in Nat
    BY <1>a, <2>1
  <2>6. ring' \in Ring /\ Filled(ring')
    BY <2>1, EmptyRingFilled
  <2>7. ClientTypes'
    BY <1>a, <2>1, <2>2, <2>4, <2>5, <2>6 DEF ClientTypes
  <2>8. QED
    BY <2>6, <2>7 DEF Filled, Back
<1>13. ASSUME Tick \/ Rest PROVE ClientTypes' /\ Filled(ring)'
  <2>1. CASE Tick
    <3>1. budget' \in [Kinds -> Nat]
      BY <1>a, <1>b, <2>1, SpendTypes DEF Tick
    <3>2. now' \in Nat /\ UNCHANGED <<consent, ring, recent, closing, era, clears, session>>
      BY <1>a, <2>1 DEF Tick, pastVars
    <3>3. QED
      BY <1>a, <1>f, <3>1, <3>2
  <2>2. CASE Rest
    <3>1. UNCHANGED <<consent, closing, ring, recent, now, era, clears, session, budget>>
      BY <2>2 DEF Rest, vars, callVars, pastVars, boundVars
    <3>2. QED
      BY <1>c, <3>1
  <2>3. QED
    BY <1>13, <2>1, <2>2
<1>14. QED
  BY <1>1, <1>2, <1>3, <1>4, <1>5, <1>6, <1>7, <1>8, <1>9, <1>10, <1>11, <1>12, <1>13, NextCases


\* The types of the calls: a chunk is in the hands of a flush that has yet to write it,
\* and no call answers for a line that was not accepted.
LEMMA CallTypesStep ==
    ASSUME LogTypes, ClientTypes, CallTypes, CallShape, Next
    PROVE  CallTypes'
<1> DEFINE Calm(t) == /\ frame'[t].line <= accepted'
                      /\ frame'[t].at = "dedupe" => frame'[t].sig \in Signatures
<1>a. /\ frame' \in [Threads -> Frame] /\ accepted <= accepted'
      /\ accepted \in Nat /\ accepted' \in Nat
      /\ chunk \in [Threads -> Seq(Entry)] /\ awaited \subseteq 1 .. accepted
      /\ frame \in [Threads -> Frame] /\ era \in Nat /\ now \in Nat
  BY ShapeStep, LogStep DEF CallTypes, LogTypes, LogTypeOK, ClientTypes
<1>b. awaited \subseteq 1 .. accepted'
  BY <1>a
<1>c. ASSUME NEW t \in Threads
      PROVE  /\ frame[t] \in Frame /\ frame[t].line \in Nat /\ frame[t].line <= accepted'
             /\ frame[t].at = "dedupe" => frame[t].sig \in Signatures
  <2>1. frame[t] \in Frame /\ frame[t].line <= accepted
        /\ (frame[t].at = "dedupe" => frame[t].sig \in Signatures)
    BY DEF CallTypes
  <2>2. frame[t].line \in Nat
    BY <2>1 DEF Frame
  <2>3. QED
    BY <1>a, <2>1, <2>2
<1>d. ASSUME NEW t \in Threads, Moves(t), Calm(t), awaited' \subseteq 1 .. accepted',
             chunk'[t] # <<>> => frame'[t].at = "write",
             \A u \in Threads \ {t} : chunk'[u] = chunk[u]
      PROVE  CallTypes'
  <2>1. ASSUME NEW u \in Threads \ {t}
        PROVE  /\ Calm(u) /\ (chunk'[u] # <<>> => frame'[u].at = "write")
    <3>1. frame'[u] = frame[u] /\ chunk'[u] = chunk[u]
      BY <1>d DEF Moves
    <3>2. chunk[u] # <<>> => frame[u].at = "write"
      BY DEF CallTypes
    <3>3. QED
      BY <1>c, <3>1, <3>2
  <2>2. QED
    BY <1>a, <1>d, <2>1 DEF CallTypes
<1>e. ASSUME NEW t \in Threads, frame[t].at # "write", Moves(t), Calm(t),
             awaited' \subseteq 1 .. accepted', UNCHANGED chunk
      PROVE  CallTypes'
  <2>1. chunk[t] = <<>>
    BY <1>e DEF CallTypes
  <2>2. QED
    BY <1>d, <1>e, <2>1
<1>f. ASSUME NEW t \in Threads, frame[t].at # "write", Return(t), UNCHANGED <<awaited, chunk>>
      PROVE  CallTypes'
  <2>1. Moves(t) /\ frame'[t] = Idle
    BY <1>f, ReturnMoves
  <2>2. Calm(t)
    BY <1>a, <2>1 DEF Idle
  <2>3. QED
    BY <1>b, <1>e, <1>f, <2>1, <2>2
<1>g. ASSUME NEW t \in Threads, NEW at \in CaptureStages \cup FlushStages \cup {"over"},
             at # "dedupe", Goto(t, at)
      PROVE  Moves(t) /\ Calm(t) /\ frame'[t].at = at
  BY <1>c, <1>g, GotoMoves
<1>1. ASSUME NEW t \in Callers, CaptureBegins(t) PROVE CallTypes'
  <2>1. PICK op \in CaptureOps, at \in CaptureStages \ {"dedupe"}, log \in BOOLEAN :
           Begin(t, op, at, log)
    BY <1>1, BegunCalls
  <2>2. UNCHANGED <<chunk, awaited>>
    BY <1>1, BegunCalls DEF unbegun, pastVars, logVars, logMemory
  <2>3. t \in Threads
    BY CallersAreThreads
  <2>4. Moves(t) /\ frame[t].op = "idle" /\ frame'[t].line = 0 /\ frame'[t].at = at
    BY <1>a, <2>1, <2>3, BeginMoves
  <2>5. Calm(t)
    BY <1>a, <2>4
  <2>6. frame[t].at # "write"
    BY <2>3, <2>4 DEF CallShape, Proper
  <2>7. QED
    BY <1>b, <1>e, <2>2, <2>3, <2>4, <2>5, <2>6
<1>2. ASSUME NEW t \in Callers, RecordBreadcrumb(t) \/ Purge(t) PROVE CallTypes'
  <2>1. Return(t) /\ frame[t].at # "write" /\ UNCHANGED <<awaited, chunk>> /\ t \in Threads
    BY <1>2, CallersAreThreads DEF RecordBreadcrumb, Purge, logVars, logMemory
  <2>2. QED
    BY <1>f, <2>1
<1>3. ASSUME NEW t \in Callers, ReadClock(t) PROVE CallTypes'
  <2>1. frame[t].at # "write" /\ UNCHANGED <<awaited, chunk>> /\ t \in Threads
    BY <1>3, CallersAreThreads DEF ReadClock, logVars, logMemory
  <2>2. Moves(t) /\ Calm(t)
    BY <1>a, <1>c, <1>3, <2>1, ClockMoves
  <2>3. QED
    BY <1>b, <1>e, <2>1, <2>2
<1>4. ASSUME NEW t \in Callers, Check(t) PROVE CallTypes'
  <2>1. frame[t].at # "write" /\ UNCHANGED <<awaited, chunk>> /\ t \in Threads
    BY <1>4, CallersAreThreads DEF Check, logVars, logMemory
  <2>2. \E at \in {"append", "snapshot", "add"} : Goto(t, at)
    BY <1>4 DEF Check
  <2>3. Moves(t) /\ Calm(t)
    BY <1>g, <2>1, <2>2 DEF CaptureStages
  <2>4. QED
    BY <1>b, <1>e, <2>1, <2>3
<1>5. ASSUME NEW t \in Callers, AppendLog(t) PROVE CallTypes'
  <2>1. frame[t].at # "write" /\ UNCHANGED awaited /\ t \in Threads
        /\ \E n \in 1 .. 2 : AppendLines(n)
    BY <1>5, CallersAreThreads DEF AppendLog
  <2>2. UNCHANGED chunk
    BY <2>1, AppendTypes
  <2>3. Moves(t) /\ frame'[t].at # "dedupe" /\ frame'[t].line \in {0, accepted + 1}
        /\ (frame'[t].line # 0 => accepted < accepted')
    BY <1>5, <2>1, AppendMoves
  <2>4. Calm(t)
    BY <1>a, <2>3
  <2>5. QED
    BY <1>b, <1>e, <2>1, <2>2, <2>3, <2>4
<1>6. ASSUME NEW t \in Callers, Enqueue(t) PROVE CallTypes'
  <2>1. frame[t].at # "write" /\ UNCHANGED <<accepted, chunk>> /\ t \in Threads
        /\ (Return(t) \/ Goto(t, "take"))
        /\ (awaited' = awaited \/ (frame[t].line # 0 /\ awaited' = awaited \cup {frame[t].line}))
    BY <1>6, CallersAreThreads DEF Enqueue, logVars, logMemory
  <2>2. awaited' \subseteq 1 .. accepted'
    <3>1. frame[t].line \in Nat /\ frame[t].line <= accepted'
      BY <1>c, <2>1
    <3>2. frame[t].line # 0 => frame[t].line \in 1 .. accepted'
      BY <1>a, <3>1
    <3>3. QED
      BY <1>b, <2>1, <3>2
  <2>3. Moves(t) /\ Calm(t)
    <3>1. CASE Return(t)
      BY <1>a, <2>1, <3>1, ReturnMoves DEF Idle
    <3>2. CASE Goto(t, "take")
      BY <1>g, <2>1, <3>2 DEF FlushStages
    <3>3. QED
      BY <2>1, <3>1, <3>2
  <2>4. QED
    BY <1>e, <2>1, <2>2, <2>3
<1>7. ASSUME NEW t \in Callers, NEW granted \in BOOLEAN, Exchange(t, granted)
      PROVE  CallTypes'
  <2>1. t \in Threads /\ UNCHANGED <<chunk, awaited>> /\ frame[t].op = "idle"
    BY <1>7, CallersAreThreads DEF Exchange, logVars, logMemory
  <2>2. ASSUME NEW u \in Threads
        PROVE  Calm(u) /\ (chunk[u] # <<>> => frame'[u].at = "write")
    <3>1. chunk[u] # <<>> => frame[u].at = "write"
      BY DEF CallTypes
    <3>2. CASE granted
      BY <1>c, <1>7, <2>1, <3>1, <3>2, ExchangeMoves
    <3>3. CASE ~ granted /\ u = t
      <4>1. chunk[t] = <<>>
        BY <2>1, <3>1, <3>3 DEF CallShape, Proper
      <4>2. frame'[t].at = "purge" /\ frame'[t].line = 0
        BY <1>7, <2>1, <3>3, ExchangeMoves
      <4>3. QED
        BY <1>a, <3>3, <4>1, <4>2
    <3>4. CASE ~ granted /\ u # t
      <4>1. frame'[u].at = frame[u].at /\ frame'[u].line = frame[u].line
            /\ frame'[u].sig = frame[u].sig
        BY <1>7, <2>1, <3>4, ExchangeMoves
      <4>2. QED
        BY <1>c, <3>1, <4>1
    <3>5. QED
      BY <3>2, <3>3, <3>4
  <2>3. QED
    BY <1>a, <1>b, <2>1, <2>2 DEF CallTypes
<1>8. ASSUME NEW t \in Threads, NEW f \in Frame, frame' = [frame EXCEPT ![t] = f],
             f.at = "take", f.line \in 0 .. accepted, frame[t].op = "idle",
             awaited' \subseteq awaited, UNCHANGED chunk
      PROVE  CallTypes'
  <2>1. Moves(t) /\ frame'[t] = f
    BY <1>8, FlushMoves
  <2>2. Calm(t)
    BY <1>a, <1>8, <2>1
  <2>3. frame[t].at # "write"
    BY <1>8 DEF CallShape, Proper
  <2>4. QED
    BY <1>b, <1>e, <1>8, <2>1, <2>2, <2>3
<1>9. ASSUME NEW t \in Threads, BeginFlush(t) \/ (BeginQuit(t) /\ t \in Callers)
      PROVE  CallTypes'
  <2>1. /\ frame[t].op = "idle" /\ UNCHANGED <<awaited, chunk>>
        /\ \E op \in {"flush", "quit"} :
              frame' = [frame EXCEPT ![t] = [Idle EXCEPT !.op = op, !.at = "take"]]
    BY <1>9 DEF BeginFlush, BeginQuit, pastVars, logVars, logMemory
  <2>2. PICK op \in {"flush", "quit"} :
           frame' = [frame EXCEPT ![t] = [Idle EXCEPT !.op = op, !.at = "take"]]
    BY <2>1
  <2>3. 0 \in 0 .. accepted /\ 0 \in Nat
    BY <1>a
  <2> DEFINE f == [Idle EXCEPT !.op = op, !.at = "take"]
  <2>4. f \in Frame /\ f.at = "take" /\ f.line = 0
    <3>1. op \in {"flush", "upload", "quit"}
      OBVIOUS
    <3>2. f \in Frame
      BY <2>3, <3>1, FlushFrames
    <3>3. f.at = "take" /\ f.line = 0
      BY DEF Idle
    <3>4. QED
      BY <3>2, <3>3
  <2>5. frame' = [frame EXCEPT ![t] = f]
    BY <2>2
  <2> HIDE DEF f
  <2>6. QED
    BY <1>8, <2>1, <2>3, <2>4, <2>5
<1>10. ASSUME NEW line \in awaited, BeginUpload(line) PROVE CallTypes'
  <2>1. /\ frame[Worker].op = "idle" /\ awaited' \subseteq awaited /\ UNCHANGED chunk
        /\ frame' = [frame EXCEPT ![Worker] = [Idle EXCEPT !.op = "upload", !.at = "take",
                                                           !.line = line]]
    BY <1>10 DEF BeginUpload, logVars, logMemory
  <2>2. line \in 0 .. accepted /\ line \in Nat
    BY <1>a
  <2> DEFINE f == [Idle EXCEPT !.op = "upload", !.at = "take", !.line = line]
  <2>3. f \in Frame /\ f.at = "take" /\ f.line = line
    BY <2>2, FlushFrames
  <2>4. frame' = [frame EXCEPT ![Worker] = f]
    BY <2>1
  <2> HIDE DEF f
  <2>5. QED
    BY <1>8, <2>1, <2>2, <2>3, <2>4, CallersAreThreads
<1>11. ASSUME NEW t \in Threads, TakeChunk(t) PROVE CallTypes'
  <2>1. /\ frame[t].at = "take" /\ UNCHANGED awaited /\ TakePending(t)
        /\ Goto(t, IF buffer = <<>> THEN AfterFlush(t) ELSE "write")
    BY <1>11 DEF TakeChunk
  <2>2. AfterFlush(t) \in {"read", "join", "return"}
    BY DEF AfterFlush
  <2>3. Moves(t) /\ Calm(t) /\ (buffer # <<>> => frame'[t].at = "write")
    BY <1>g, <2>1, <2>2 DEF FlushStages
  <2>4. CASE buffer = <<>>
    <3>1. UNCHANGED chunk
      BY <2>1, <2>4 DEF TakePending
    <3>2. QED
      BY <1>b, <1>e, <2>1, <2>3, <3>1
  <2>5. CASE buffer # <<>>
    <3>1. \A u \in Threads \ {t} : chunk'[u] = chunk[u]
      BY <2>1, <2>5, TakeTypes
    <3>2. QED
      BY <1>b, <1>d, <2>1, <2>3, <2>5, <3>1
  <2>6. QED
    BY <2>4, <2>5
<1>12. ASSUME NEW t \in Threads, PutChunk(t) PROVE CallTypes'
  <2>1. /\ WriteChunk(t) \/ WriteFails(t)
        /\ Goto(t, AfterFlush(t)) /\ UNCHANGED awaited
    BY <1>12 DEF PutChunk, pastVars
  <2>2. AfterFlush(t) \in {"read", "join", "return"}
    BY DEF AfterFlush
  <2>3. Moves(t) /\ Calm(t)
    BY <1>g, <2>1, <2>2 DEF FlushStages
  <2>4. chunk' = [chunk EXCEPT ![t] = <<>>]
    BY <2>1, WriteTypes
  <2>5. chunk'[t] = <<>> /\ \A u \in Threads \ {t} : chunk'[u] = chunk[u]
    BY <1>a, <2>4
  <2>6. QED
    BY <1>b, <1>d, <2>1, <2>3, <2>5
<1>13. ASSUME NEW t \in Threads, EndFlush(t) PROVE CallTypes'
  <2>1. Return(t) /\ frame[t].at # "write" /\ UNCHANGED <<awaited, chunk>>
    BY <1>13 DEF EndFlush, logVars, logMemory
  <2>2. QED
    BY <1>f, <2>1
<1>14. ASSUME NEW t \in Callers, EndQuit(t) PROVE CallTypes'
  <2>1. t \in Threads /\ Goto(t, "over") /\ frame[t].at # "write" /\ UNCHANGED <<awaited, chunk>>
    BY <1>14, CallersAreThreads DEF EndQuit, logVars, logMemory
  <2>2. Moves(t) /\ Calm(t)
    BY <1>g, <2>1
  <2>3. QED
    BY <1>b, <1>e, <2>1, <2>2
<1>15. ASSUME NEW moved \in BOOLEAN, NEW torn \in BOOLEAN, Relaunch(moved, torn)
       PROVE  CallTypes'
  <2>1. frame' = [t \in Threads |-> Idle] /\ awaited' = {} /\ Rotate(moved, torn)
    BY <1>15 DEF Relaunch
  <2>2. \A t \in Threads : frame'[t] = Idle /\ chunk'[t] = <<>>
    BY <2>1, RotateTypes
  <2>3. Idle.line = 0 /\ Idle.at = "gate"
    BY DEF Idle
  <2>4. QED
    BY <1>a, <2>1, <2>2, <2>3 DEF CallTypes
<1>16. ASSUME Tick \/ Rest PROVE CallTypes'
  <2>1. UNCHANGED <<frame, chunk, awaited, accepted>>
    BY <1>16 DEF Tick, Rest, vars, callVars, pastVars, logVars, logMemory
  <2>2. QED
    BY <2>1 DEF CallTypes
<1>17. QED
  BY <1>1, <1>2, <1>3, <1>4, <1>5, <1>6, <1>7, <1>9, <1>10, <1>11, <1>12, <1>13, <1>14, <1>15,
     <1>16, NextCases, CallersAreThreads

-----------------------------------------------------------------------------
(* What an ended call leaves in the buffer *)

\* append adds new numbers behind those of the buffer, or nothing.
LEMMA AppendEntries ==
    ASSUME LogTypes, NEW n \in 1 .. 2, AppendLines(n)
    PROVE  \/ UNCHANGED <<buffer, accepted>>
           \/ /\ accepted' = accepted + n /\ Len(buffer) \in Nat /\ accepted \in Nat
              /\ DOMAIN buffer = 1 .. Len(buffer)
              /\ DOMAIN buffer' = 1 .. Len(buffer) + n
              /\ \A i \in 1 .. Len(buffer) + n :
                    buffer'[i].id = IF i <= Len(buffer) THEN buffer[i].id
                                    ELSE accepted + (i - Len(buffer))
<1> DEFINE new == [i \in 1 .. n |-> [id |-> accepted + i, drops |-> 0, flush |-> 0]]
<1>1. buffer \in Seq(Entry) /\ accepted \in Nat
  BY DEF LogTypes, LogTypeOK
<1>2. new \in Seq(Entry) /\ Len(new) = n /\ \A i \in 1 .. n : new[i].id = accepted + i
  <2>1. \A i \in 1 .. n : [id |-> accepted + i, drops |-> 0, flush |-> 0] \in Entry
    BY <1>1 DEF Entry
  <2>2. QED
    BY <2>1
<1>3. CASE Len(buffer) >= MaxPending
  BY <1>3 DEF AppendLines
<1>4. CASE ~ Len(buffer) >= MaxPending
  <2>1. buffer' = buffer \o new /\ accepted' = accepted + n
    BY <1>4 DEF AppendLines
  <2> HIDE DEF new
  <2>2. /\ Len(buffer) \in Nat /\ DOMAIN buffer = 1 .. Len(buffer)
        /\ DOMAIN buffer' = 1 .. Len(buffer) + n
        /\ \A i \in 1 .. Len(buffer) + n :
              buffer'[i] = IF i <= Len(buffer) THEN buffer[i] ELSE new[i - Len(buffer)]
    BY <1>1, <1>2, <2>1, JoinedEntries
  <2>3. ASSUME NEW i \in 1 .. Len(buffer) + n
        PROVE  buffer'[i].id = IF i <= Len(buffer) THEN buffer[i].id
                               ELSE accepted + (i - Len(buffer))
    <3>1. CASE i <= Len(buffer)
      BY <2>2, <3>1
    <3>2. CASE ~ i <= Len(buffer)
      <4>1. i - Len(buffer) \in 1 .. n
        BY <2>2, <3>2
      <4>2. QED
        BY <1>2, <2>2, <3>2, <4>1
    <3>3. QED
      BY <3>1, <3>2
  <2>4. QED
    BY <1>1, <2>1, <2>2, <2>3
<1>5. QED
  BY <1>3, <1>4

\* No new line takes the number of one accepted before.
LEMMA AppendIds ==
    ASSUME LogTypes, NEW n \in 1 .. 2, AppendLines(n), NEW line \in Nat, line <= accepted,
           line \notin Ids(buffer)
    PROVE  line \notin Ids(buffer')
<1>1. CASE UNCHANGED <<buffer, accepted>>
  BY <1>1
<1>2. CASE ~ UNCHANGED <<buffer, accepted>>
  <2>1. /\ Len(buffer) \in Nat /\ accepted \in Nat /\ DOMAIN buffer = 1 .. Len(buffer)
        /\ DOMAIN buffer' = 1 .. Len(buffer) + n
        /\ \A i \in 1 .. Len(buffer) + n :
              buffer'[i].id = IF i <= Len(buffer) THEN buffer[i].id
                              ELSE accepted + (i - Len(buffer))
    BY <1>2, AppendEntries
  <2>2. SUFFICES ASSUME line # 0, NEW i \in DOMAIN buffer', buffer'[i].id = line
                 PROVE  FALSE
    BY DEF Ids
  <2>3. CASE i <= Len(buffer)
    <3>1. i \in DOMAIN buffer /\ buffer[i].id = line
      BY <2>1, <2>2, <2>3
    <3>2. QED
      BY <2>2, <3>1 DEF Ids
  <2>4. CASE ~ i <= Len(buffer)
    <3>1. line = accepted + (i - Len(buffer)) /\ i - Len(buffer) \in 1 .. n
      BY <2>1, <2>2, <2>4
    <3>2. QED
      BY <2>1, <3>1
  <2>5. QED
    BY <2>3, <2>4
<1>3. QED
  BY <1>1, <1>2

\* The buffer has nothing a flush that is past its take answers for.
LEMMA FlushedStep ==
    ASSUME LogTypes, ClientTypes, CallTypes, CallShape, Flushed, Next
    PROVE  Flushed'
<1> DEFINE Clean(t) ==
              /\ frame[t].at \in {"write", "return", "read"} =>
                    frame[t].line = 0 \/ frame[t].line \notin Ids(buffer)
              /\ frame[t].op = "quit" /\ frame[t].at # "take" => buffer = <<>>
<1>a. /\ \A t \in Threads : Clean(t) /\ frame[t] \in Frame /\ Proper(frame[t])
      /\ \A ended \in left : ended[2] # "memory"
      /\ frame \in [Threads -> Frame]
      /\ now \in Nat /\ era \in Nat /\ closing \in BOOLEAN
  BY DEF Flushed, CallTypes, CallShape, ClientTypes, EndedIsFlushed
<1>b. ASSUME NEW t \in Threads, Moves(t), Clean(t)', UNCHANGED <<buffer, left>>
      PROVE  Flushed'
  <2>1. ASSUME NEW u \in Threads \ {t} PROVE Clean(u)'
    <3>1. frame'[u] = frame[u] /\ buffer' = buffer
      BY <1>b DEF Moves
    <3>2. QED
      BY <1>a, <3>1
  <2>2. QED
    BY <1>a, <1>b, <2>1 DEF Flushed, EndedIsFlushed
<1>c. ASSUME NEW t \in Threads, Return(t), UNCHANGED <<buffer, left>> PROVE Flushed'
  <2>1. Moves(t) /\ frame'[t] = Idle
    BY <1>c, ReturnMoves
  <2>2. Clean(t)'
    BY <2>1 DEF Idle
  <2>3. QED
    BY <1>b, <1>c, <2>1, <2>2
<1>d. ASSUME NEW t \in Threads, Moves(t), frame'[t].at \in CaptureStages \cup {"take"},
             frame'[t].op = "quit" => frame'[t].at = "take", UNCHANGED <<buffer, left>>
      PROVE  Flushed'
  <2>1. Clean(t)'
    BY <1>d DEF CaptureStages
  <2>2. QED
    BY <1>b, <1>d, <2>1
<1>1. ASSUME NEW t \in Callers, CaptureBegins(t) PROVE Flushed'
  <2>1. PICK op \in CaptureOps, at \in CaptureStages, log \in BOOLEAN : Begin(t, op, at, log)
    BY <1>1, BegunCalls
  <2>2. UNCHANGED <<buffer, left>> /\ t \in Threads
    BY <1>1, BegunCalls, CallersAreThreads DEF unbegun, pastVars, logVars, logMemory
  <2>3. Moves(t) /\ frame'[t].op = op /\ frame'[t].at = at
    BY <1>a, <2>1, <2>2, BeginMoves
  <2>4. frame'[t].op # "quit"
    BY <2>3 DEF CaptureOps
  <2>5. QED
    BY <1>d, <2>2, <2>3, <2>4
<1>2. ASSUME NEW t \in Callers, RecordBreadcrumb(t) \/ Purge(t) PROVE Flushed'
  <2>1. Return(t) /\ UNCHANGED <<buffer, left>> /\ t \in Threads
    BY <1>2, CallersAreThreads DEF RecordBreadcrumb, Purge, logVars, logMemory
  <2>2. QED
    BY <1>c, <2>1
<1>e. ASSUME NEW t \in Threads, frame[t].at \in CaptureStages PROVE frame[t].op # "quit" /\ ~closing
  BY <1>a, <1>e DEF Proper, CaptureOps
<1>3. ASSUME NEW t \in Callers, ReadClock(t) PROVE Flushed'
  <2>1. frame[t].at \in CaptureStages /\ UNCHANGED <<buffer, left>> /\ t \in Threads
    BY <1>3, CallersAreThreads DEF ReadClock, logVars, logMemory, CaptureStages
  <2>2. Moves(t) /\ frame'[t].at = "dedupe" /\ frame'[t].op = frame[t].op
    BY <1>a, <1>3, <2>1, ClockMoves
  <2>3. QED
    BY <1>d, <1>e, <2>1, <2>2 DEF CaptureStages
<1>f. ASSUME NEW t \in Threads, frame[t].at \in CaptureStages,
             NEW at \in CaptureStages \cup {"take"}, Goto(t, at), UNCHANGED <<buffer, left>>
      PROVE  Flushed'
  <2>1. Moves(t) /\ frame'[t].at = at /\ frame'[t].op = frame[t].op
    BY <1>f, GotoMoves DEF FlushStages
  <2>2. QED
    BY <1>d, <1>e, <1>f, <2>1
<1>4. ASSUME NEW t \in Callers, Check(t) PROVE Flushed'
  <2>1. frame[t].at \in CaptureStages /\ UNCHANGED <<buffer, left>> /\ t \in Threads
    BY <1>4, CallersAreThreads DEF Check, logVars, logMemory, CaptureStages
  <2>2. \E at \in CaptureStages : Goto(t, at)
    BY <1>4 DEF Check, CaptureStages
  <2>3. QED
    BY <1>f, <2>1, <2>2
<1>5. ASSUME NEW t \in Callers, Enqueue(t) PROVE Flushed'
  <2>1. frame[t].at \in CaptureStages /\ UNCHANGED <<buffer, left>> /\ t \in Threads
        /\ (Return(t) \/ Goto(t, "take"))
    BY <1>5, CallersAreThreads DEF Enqueue, logVars, logMemory, CaptureStages
  <2>2. QED
    BY <1>c, <1>f, <2>1
<1>6. ASSUME NEW t \in Callers, AppendLog(t) PROVE Flushed'
  <2>1. frame[t].at \in CaptureStages /\ UNCHANGED left /\ t \in Threads
    BY <1>6, CallersAreThreads DEF AppendLog, CaptureStages
  <2>2. PICK n \in 1 .. 2 : AppendLines(n)
    BY <1>6 DEF AppendLog
  <2>3. Moves(t) /\ frame'[t].at \in {"snapshot", "add"} /\ frame'[t].op = frame[t].op
    BY <1>6, <2>1, AppendMoves
  <2>4. Clean(t)'
    BY <1>e, <2>1, <2>3
  <2>5. ASSUME NEW u \in Threads \ {t} PROVE Clean(u)'
    <3>1. frame'[u] = frame[u] /\ frame[u].op # "quit"
      BY <1>a, <1>e, <2>1, <2>3 DEF Moves, Proper
    <3>2. frame[u].line \in Nat /\ frame[u].line <= accepted
      BY <1>a DEF CallTypes, Frame
    <3>3. frame[u].line \notin Ids(buffer) => frame[u].line \notin Ids(buffer')
      BY <2>2, <3>2, AppendIds
    <3>4. QED
      BY <1>a, <3>1, <3>3
  <2>6. QED
    BY <1>a, <2>1, <2>4, <2>5 DEF Flushed, EndedIsFlushed
<1>7. ASSUME NEW t \in Callers, NEW granted \in BOOLEAN, Exchange(t, granted) PROVE Flushed'
  <2>1. UNCHANGED <<buffer, left>> /\ t \in Threads
    BY <1>7, CallersAreThreads DEF Exchange, logVars, logMemory
  <2>2. CASE granted
    <3>1. frame' = frame
      BY <1>7, <2>1, <2>2, ExchangeMoves
    <3>2. QED
      BY <2>1, <3>1 DEF Flushed, EndedIsFlushed, Ids
  <2>3. CASE ~ granted
    <3>1. Clean(t)'
      BY <1>7, <2>1, <2>3, ExchangeMoves
    <3>2. ASSUME NEW u \in Threads \ {t} PROVE Clean(u)'
      <4>1. /\ frame'[u].op = frame[u].op /\ frame'[u].at = frame[u].at
            /\ frame'[u].line = frame[u].line
        BY <1>7, <2>1, <2>3, ExchangeMoves
      <4>2. QED
        BY <1>a, <2>1, <4>1
    <3>3. QED
      BY <1>a, <2>1, <3>1, <3>2 DEF Flushed, EndedIsFlushed
  <2>4. QED
    BY <2>2, <2>3
<1>g. ASSUME NEW t \in Threads, NEW f \in Frame, frame' = [frame EXCEPT ![t] = f],
             f.at = "take", UNCHANGED <<buffer, left>>
      PROVE  Flushed'
  <2>1. Moves(t) /\ frame'[t] = f
    BY <1>g, FlushMoves
  <2>2. QED
    BY <1>d, <1>g, <2>1
<1>8. ASSUME NEW t \in Threads, BeginFlush(t) \/ BeginQuit(t) PROVE Flushed'
  <2>1. PICK op \in {"flush", "upload", "quit"} :
           frame' = [frame EXCEPT ![t] = [Idle EXCEPT !.op = op, !.at = "take"]]
    BY <1>8 DEF BeginFlush, BeginQuit
  <2>2. UNCHANGED <<buffer, left>>
    BY <1>8 DEF BeginFlush, BeginQuit, pastVars, logVars, logMemory
  <2> DEFINE f == [Idle EXCEPT !.op = op, !.at = "take"]
  <2>3. f \in Frame
    BY FlushFrames
  <2>4. f.at = "take"
    BY DEF Idle
  <2>5. QED
    BY <1>g, <2>1, <2>2, <2>3, <2>4
<1>9. ASSUME NEW line \in awaited, BeginUpload(line) PROVE Flushed'
  <2> DEFINE f == [Idle EXCEPT !.op = "upload", !.at = "take", !.line = line]
  <2>1. frame' = [frame EXCEPT ![Worker] = f] /\ UNCHANGED <<buffer, left>>
    BY <1>9 DEF BeginUpload, logVars, logMemory
  <2>2. line \in Nat
    BY DEF CallTypes
  <2>3. f \in Frame
    BY <2>2, FlushFrames
  <2>4. f.at = "take"
    BY DEF Idle
  <2>5. QED
    BY <1>g, <2>1, <2>3, <2>4, CallersAreThreads
<1>10. ASSUME NEW t \in Threads, TakeChunk(t) PROVE Flushed'
  <2>1. TakePending(t) /\ UNCHANGED left
    BY <1>10 DEF TakeChunk
  <2>2. buffer' = <<>>
    BY <2>1 DEF TakePending
  <2>3. Ids(buffer') = {}
    BY <2>2 DEF Ids
  <2>4. QED
    BY <1>a, <2>1, <2>2, <2>3 DEF Flushed, EndedIsFlushed
<1>11. ASSUME NEW t \in Threads, PutChunk(t) PROVE Flushed'
  <2>1. /\ WriteChunk(t) \/ WriteFails(t)
        /\ frame[t].at = "write" /\ Goto(t, AfterFlush(t)) /\ UNCHANGED left
    BY <1>11 DEF PutChunk, pastVars
  <2>2. UNCHANGED buffer
    BY <2>1, WriteTypes
  <2>3. AfterFlush(t) \in {"read", "join", "return"}
    BY DEF AfterFlush
  <2>4. /\ Moves(t) /\ frame'[t].at = AfterFlush(t) /\ frame'[t].op = frame[t].op
        /\ frame'[t].line = frame[t].line
    BY <2>1, <2>3, GotoMoves DEF FlushStages
  <2>5. Clean(t)'
    BY <1>a, <2>1, <2>2, <2>3, <2>4
  <2>6. QED
    BY <1>b, <2>1, <2>2, <2>4, <2>5
<1>12. ASSUME NEW t \in Threads, EndFlush(t) PROVE Flushed'
  <2>1. Return(t) /\ UNCHANGED buffer /\ frame[t].at \in {"return", "read"}
        /\ left' = IF frame[t].line = 0 THEN left
                   ELSE left \cup {<<frame[t].op, PlaceOf(frame[t].line)>>}
    BY <1>12 DEF EndFlush, logVars, logMemory
  <2>2. frame[t].line # 0 => PlaceOf(frame[t].line) # "memory"
    BY <1>a, <2>1 DEF PlaceOf
  <2>3. \A ended \in left' : ended[2] # "memory"
    BY <1>a, <2>1, <2>2
  <2>4. Moves(t) /\ frame'[t] = Idle
    BY <2>1, ReturnMoves
  <2>5. ASSUME NEW u \in Threads PROVE Clean(u)'
    BY <1>a, <2>1, <2>4 DEF Moves, Idle
  <2>6. QED
    BY <2>3, <2>5 DEF Flushed, EndedIsFlushed
<1>13. ASSUME NEW t \in Callers, EndQuit(t) PROVE Flushed'
  <2>1. /\ t \in Threads /\ frame[t].at = "join" /\ Goto(t, "over") /\ UNCHANGED buffer
        /\ left' = left \cup {<<"quit", PlaceOf(e.id)>> : e \in {x \in InMemory : x.id # 0}}
    BY <1>13, CallersAreThreads DEF EndQuit, logVars, logMemory
  <2>2. frame[t].op = "quit" /\ buffer = <<>>
    BY <1>a, <2>1 DEF Proper
  <2>3. Ids(buffer) = {}
    BY <2>2 DEF Ids
  <2>4. \A line : PlaceOf(line) # "memory"
    BY <2>3 DEF PlaceOf
  <2>5. \A ended \in left' : ended[2] # "memory"
    BY <1>a, <2>1, <2>4
  <2>6. Moves(t) /\ frame'[t].at = "over"
    BY <2>1, GotoMoves
  <2>7. ASSUME NEW u \in Threads PROVE Clean(u)'
    BY <1>a, <2>1, <2>2, <2>3, <2>6 DEF Moves
  <2>8. QED
    BY <2>5, <2>7 DEF Flushed, EndedIsFlushed
<1>14. ASSUME NEW moved \in BOOLEAN, NEW torn \in BOOLEAN, Relaunch(moved, torn) PROVE Flushed'
  <2>1. frame' = [t \in Threads |-> Idle] /\ Rotate(moved, torn) /\ UNCHANGED left
    BY <1>14 DEF Relaunch
  <2>2. \A t \in Threads : frame'[t].op = "idle" /\ frame'[t].at = "gate"
    BY <2>1 DEF Idle
  <2>3. QED
    BY <1>a, <2>1, <2>2 DEF Flushed, EndedIsFlushed
<1>15. ASSUME Tick \/ Rest PROVE Flushed'
  <2>1. UNCHANGED <<frame, buffer, left>>
    BY <1>15 DEF Tick, Rest, vars, callVars, pastVars, logVars, logMemory
  <2>2. QED
    BY <2>1 DEF Flushed, EndedIsFlushed, Ids
<1>16. QED
  BY <1>1, <1>2, <1>3, <1>4, <1>5, <1>6, <1>7, <1>8, <1>9, <1>10, <1>11, <1>12, <1>13, <1>14,
     <1>15, NextCases, CallersAreThreads

-----------------------------------------------------------------------------
(* The dedupe window *)

\* What was let through since the map was last emptied is remembered, and the next
\* report of the same signature is a window away from all of it.
LEMMA RememberedStep ==
    ASSUME ClientTypes, CallTypes, Remembered, Next
    PROVE  Remembered'
<1>1. CASE UNCHANGED <<passed, clears, session, recent>>
  BY <1>1 DEF Remembered, DedupeHolds
<1>2. ASSUME NEW t \in Callers, Check(t) PROVE Remembered'
  <2> DEFINE sig == frame[t].sig
             at  == frame[t].now
             q   == [sig |-> sig, now |-> at, clears |-> clears', session |-> session,
                     nth |-> Cardinality(passed)]
  <2>1. t \in Threads /\ sig \in Signatures /\ at \in Nat
    <3>1. t \in Threads /\ frame[t].at = "dedupe"
      BY <1>2, CallersAreThreads DEF Check
    <3>2. frame[t] \in Frame /\ sig \in Signatures
      BY <3>1 DEF CallTypes
    <3>3. QED
      BY <3>1, <3>2 DEF Frame
  <2>2. UNCHANGED session /\ session \in Nat /\ clears \in Nat /\ Window \in Nat
        /\ \A s \in DOMAIN recent : recent[s].last \in Nat
    BY <1>2, CaptureAssumption DEF Check, quietly, ClientTypes, Sent
  <2>3. CASE ~ Allows(sig, at)
    <3>1. /\ DOMAIN recent' = DOMAIN recent /\ UNCHANGED <<clears, passed>>
          /\ \A s \in DOMAIN recent : recent'[s].last = recent[s].last
      BY <1>2, <2>1, <2>3, CheckRecent
    <3>2. QED
      BY <2>2, <3>1 DEF Remembered, DedupeHolds
  <2>4. CASE Allows(sig, at)
    <3>1. passed' = passed \cup {q}
      BY <1>2, <2>4 DEF Check
    <3>2. recent'[sig].last = at /\ sig \in DOMAIN recent'
      <4>1. recent'[sig] = [last |-> at, suppressed |-> 0] /\ sig \in DOMAIN recent'
        BY <1>2, <2>1, <2>4, CheckRecent
      <4>2. QED
        BY <4>1
    <3>3. sig \notin DOMAIN recent \/ at - recent[sig].last >= Window
      BY <2>4 DEF Allows
    <3>4. \/ /\ \A s \in DOMAIN recent \ {sig} : s \in DOMAIN recent' /\ recent'[s] = recent[s]
             /\ clears' = clears
          \/ sig \notin DOMAIN recent /\ clears' = clears + 1
      BY <1>2, <2>1, <2>4, CheckRecent
    <3>5. clears' \in Nat /\ clears <= clears'
      BY <2>2, <3>4
    <3>6. ASSUME NEW p \in passed, p.clears = clears', p.session = session
          PROVE  /\ p.sig \in DOMAIN recent' /\ p.now <= recent'[p.sig].last
                 /\ p.sig = sig => at - p.now >= Window
      <4>1. p.clears = clears
        BY <2>2, <3>4, <3>6 DEF Remembered
      <4>2. p.sig \in DOMAIN recent /\ p.now <= recent[p.sig].last /\ p.now \in Nat
        BY <3>6, <4>1 DEF Remembered
      <4>3. clears' = clears
        BY <3>6, <4>1
      <4>4. CASE p.sig # sig
        <5>1. p.sig \in DOMAIN recent' /\ recent'[p.sig] = recent[p.sig]
          BY <2>2, <3>4, <4>2, <4>3, <4>4
        <5>2. QED
          BY <4>2, <4>4, <5>1
      <4>5. CASE p.sig = sig
        <5>1. at - recent[sig].last >= Window /\ recent[sig].last \in Nat
              /\ p.now <= recent[sig].last
          BY <2>2, <3>3, <4>2, <4>5
        <5>2. at - p.now >= Window /\ p.now <= at
          BY <2>1, <2>2, <4>2, <5>1
        <5>3. QED
          BY <3>2, <4>5, <5>2
      <4>6. QED
        BY <4>4, <4>5
    <3>7. /\ q.sig = sig /\ q.now = at /\ q.clears = clears' /\ q.session = session
      OBVIOUS
    <3> HIDE DEF q
    <3>8. ASSUME NEW p \in passed'
          PROVE  /\ p.sig \in Signatures /\ p.now \in Nat /\ p.clears \in Nat /\ p.session \in Nat
                 /\ p.clears <= clears' /\ p.session <= session'
                 /\ p.clears = clears' /\ p.session = session' =>
                       p.sig \in DOMAIN recent' /\ p.now <= recent'[p.sig].last
      <4>1. CASE p \in passed
        <5>1. /\ p.sig \in Signatures /\ p.now \in Nat /\ p.clears \in Nat /\ p.session \in Nat
              /\ p.clears <= clears /\ p.session <= session
          BY <4>1 DEF Remembered
        <5>2. p.clears <= clears'
          BY <2>2, <3>5, <5>1
        <5>3. QED
          BY <2>2, <3>6, <4>1, <5>1, <5>2
      <4>2. CASE p = q
        BY <2>1, <2>2, <3>2, <3>5, <3>7, <4>2
      <4>3. QED
        BY <3>1, <4>1, <4>2
    <3>9. ASSUME NEW p \in passed', NEW r \in passed', p # r, p.sig = r.sig,
                 p.session = r.session, p.clears = r.clears
          PROVE  p.now - r.now >= Window \/ r.now - p.now >= Window
      <4>1. CASE p \in passed /\ r \in passed
        BY <3>9, <4>1 DEF Remembered, DedupeHolds
      <4>2. CASE p = q /\ r \in passed
        BY <3>6, <3>7, <3>9, <4>2
      <4>3. CASE r = q /\ p \in passed
        BY <3>6, <3>7, <3>9, <4>3
      <4>4. QED
        BY <3>1, <3>9, <4>1, <4>2, <4>3
    <3>10. DedupeHolds'
      BY <3>9 DEF DedupeHolds
    <3>11. QED
      BY <3>8, <3>10 DEF Remembered
  <2>5. QED
    BY <2>3, <2>4
<1>3. ASSUME NEW moved \in BOOLEAN, NEW torn \in BOOLEAN, Relaunch(moved, torn)
      PROVE  Remembered'
  <2>1. session' = session + 1 /\ UNCHANGED <<passed, clears>> /\ session \in Nat
    BY <1>3 DEF Relaunch, ClientTypes
  <2>2. \A p \in passed : p.session \in Nat /\ p.session <= session
    BY DEF Remembered
  <2>3. \A p \in passed : p.session <= session' /\ p.session # session'
    BY <2>1, <2>2
  <2>4. QED
    BY <2>1, <2>3 DEF Remembered, DedupeHolds
<1>4. ASSUME NEW t, CaptureBegins(t) PROVE UNCHANGED <<passed, clears, session, recent>>
  BY <1>4, BegunCalls DEF unbegun, pastVars
<1>5. ASSUME NEW t, \/ RecordBreadcrumb(t) \/ ReadClock(t) \/ AppendLog(t) \/ Enqueue(t)
                    \/ Purge(t) \/ BeginQuit(t) \/ EndQuit(t) \/ BeginFlush(t) \/ EndFlush(t)
                    \/ BeginUpload(t) \/ TakeChunk(t) \/ PutChunk(t)
                    \/ (\E granted \in BOOLEAN : Exchange(t, granted))
      PROVE  UNCHANGED <<passed, clears, session, recent>>
  BY <1>5 DEF RecordBreadcrumb, ReadClock, AppendLog, Enqueue, Purge, BeginQuit, EndQuit,
              BeginFlush, EndFlush, BeginUpload, TakeChunk, PutChunk, Exchange, quietly,
              pastVars, boundVars
<1>6. ASSUME Tick \/ Rest PROVE UNCHANGED <<passed, clears, session, recent>>
  BY <1>6 DEF Tick, Rest, vars, callVars, pastVars, boundVars
<1>7. QED
  BY <1>1, <1>2, <1>3, <1>4, <1>5, <1>6, NextCases

-----------------------------------------------------------------------------
(* The trail after a revocation *)

\* What a capture adds to the ring passed the gate after the last revocation, or is late.
LEMMA PurgedStep ==
    ASSUME LogTypes, ClientTypes, CallTypes, CallShape, Purged, Next
    PROVE  Purged'
<1> DEFINE Fresh(r) == \A i \in 0 .. RingSize - 1 :
                          r.slots[i] # NoCrumb => r.slots[i].era = era \/ r.slots[i].late
           Purging == \E t \in Threads : frame[t].at = "purge"
<1>a. /\ ring \in Ring /\ era \in Nat /\ now \in Nat
      /\ Purged <=> Purging \/ Fresh(ring)
  BY DEF Purged, ClientTypes
<1>b. Purged' <=> Purging' \/ Fresh(ring)'
  BY DEF Purged
<1>c. ASSUME NEW t \in Threads, frame[t].at # "purge", Moves(t), UNCHANGED <<ring, era>>
      PROVE  Purged'
  <2>1. ASSUME Purging PROVE Purging'
    <3>1. PICK u \in Threads : frame[u].at = "purge"
      BY <2>1
    <3>2. frame'[u] = frame[u]
      BY <1>c, <3>1 DEF Moves
    <3>3. QED
      BY <3>1, <3>2
  <2>2. QED
    BY <1>a, <1>b, <1>c, <2>1
<1>1. ASSUME NEW t \in Callers, CaptureBegins(t) PROVE Purged'
  <2>1. PICK op \in CaptureOps, at \in CaptureStages, log \in BOOLEAN : Begin(t, op, at, log)
    BY <1>1, BegunCalls
  <2>2. UNCHANGED <<ring, era>> /\ t \in Threads
    BY <1>1, BegunCalls, CallersAreThreads DEF unbegun, pastVars
  <2>3. Moves(t) /\ frame[t].op = "idle"
    BY <1>a, <2>1, <2>2, BeginMoves
  <2>4. frame[t].at # "purge"
    BY <2>2, <2>3 DEF CallShape, Proper
  <2>5. QED
    BY <1>c, <2>2, <2>3, <2>4
<1>2. ASSUME NEW t \in Callers, RecordBreadcrumb(t) PROVE Purged'
  <2> DEFINE crumb == [era |-> frame[t].era, late |-> frame[t].late]
  <2>1. t \in Threads /\ frame[t].at = "add" /\ UNCHANGED era /\ Return(t)
        /\ ring' = Added(ring, crumb)
    BY <1>2, CallersAreThreads DEF RecordBreadcrumb, quietly
  <2>2. frame[t].era = era \/ frame[t].late
    BY <2>1 DEF CallShape, Proper, CaptureStages
  <2>3. crumb.era = era \/ crumb.late
    BY <2>2
  <2> HIDE DEF crumb
  <2>4. Moves(t)
    BY <2>1, ReturnMoves
  <2>5. ASSUME Purging PROVE Purging'
    <3>1. PICK u \in Threads : frame[u].at = "purge"
      BY <2>5
    <3>2. frame'[u] = frame[u]
      BY <2>1, <2>4, <3>1 DEF Moves
    <3>3. QED
      BY <3>1, <3>2
  <2>6. ASSUME Fresh(ring) PROVE Fresh(ring)'
    <3>1. ring.slots \in [0 .. RingSize - 1 -> Crumb] /\ ring.head \in 0 .. RingSize - 1
      BY <1>a DEF Ring
    <3>2. ring'.slots = [ring.slots EXCEPT ![ring.head] = crumb]
      BY <2>1 DEF Added
    <3>3. \A i \in 0 .. RingSize - 1 :
             ring'.slots[i] = IF i = ring.head THEN crumb ELSE ring.slots[i]
      BY <3>1, <3>2
    <3>4. QED
      BY <2>1, <2>3, <2>6, <3>3
  <2>7. QED
    BY <1>a, <1>b, <2>5, <2>6
<1>3. ASSUME NEW t \in Callers, NEW granted \in BOOLEAN, Exchange(t, granted) PROVE Purged'
  <2>1. t \in Threads /\ UNCHANGED ring /\ era' = (IF granted THEN era ELSE era + 1)
    BY <1>3, CallersAreThreads DEF Exchange
  <2>2. CASE granted
    <3>1. frame' = frame /\ era' = era
      BY <1>3, <2>1, <2>2, ExchangeMoves
    <3>2. QED
      BY <1>a, <1>b, <2>1, <3>1
  <2>3. CASE ~ granted
    BY <1>3, <1>b, <2>1, <2>3, ExchangeMoves
  <2>4. QED
    BY <2>2, <2>3
<1>4. ASSUME NEW t \in Callers, Purge(t) PROVE Purged'
  <2>1. ring' = EmptyRing
    BY <1>4 DEF Purge
  <2>2. Fresh(ring)'
    BY <2>1 DEF EmptyRing
  <2>3. QED
    BY <1>b, <2>2
<1>5. ASSUME NEW t \in Threads,
             \/ ReadClock(t) \/ Check(t) \/ AppendLog(t) \/ Enqueue(t) \/ EndQuit(t)
             \/ BeginQuit(t) \/ BeginFlush(t) \/ TakeChunk(t) \/ PutChunk(t) \/ EndFlush(t)
      PROVE  Purged'
  <2>1. UNCHANGED <<ring, era>>
    BY <1>5 DEF ReadClock, Check, AppendLog, Enqueue, EndQuit, BeginQuit, BeginFlush, TakeChunk,
                PutChunk, EndFlush, quietly, pastVars
  <2>2. frame[t].at # "purge"
    <3>1. CASE BeginQuit(t) \/ BeginFlush(t)
      <4>1. t \in Callers \/ BeginFlush(t)
        BY <3>1 DEF BeginQuit
      <4>2. frame[t].op = "idle"
        BY <3>1, <4>1 DEF BeginQuit, BeginFlush
      <4>3. QED
        BY <4>2 DEF CallShape, Proper
    <3>2. CASE ~ (BeginQuit(t) \/ BeginFlush(t))
      BY <1>5, <3>2 DEF ReadClock, Check, AppendLog, Enqueue, EndQuit, TakeChunk, PutChunk, EndFlush
    <3>3. QED
      BY <3>1, <3>2
  <2>3. frame' \in [Threads -> Frame]
    BY <1>5, CallersAreThreads, ShapeStep
  <2>4. \A u \in Threads \ {t} : frame'[u] = frame[u]
    <3>1. frame \in [Threads -> Frame]
      BY DEF CallTypes
    <3>2. CASE ReadClock(t) \/ AppendLog(t)
      BY <1>a, <3>2, ClockMoves, AppendMoves DEF Moves
    <3>3. CASE Check(t) \/ Enqueue(t) \/ EndQuit(t) \/ TakeChunk(t) \/ PutChunk(t) \/ EndFlush(t)
      BY <3>1, <3>3 DEF Check, Enqueue, EndQuit, TakeChunk, PutChunk, EndFlush, Goto, Return
    <3>4. CASE BeginQuit(t) \/ BeginFlush(t)
      BY <3>1, <3>4 DEF BeginQuit, BeginFlush
    <3>5. QED
      BY <1>5, <3>2, <3>3, <3>4
  <2>5. QED
    BY <1>c, <2>1, <2>2, <2>3, <2>4 DEF Moves
<1>6. ASSUME NEW line \in awaited, BeginUpload(line) PROVE Purged'
  <2> DEFINE f == [Idle EXCEPT !.op = "upload", !.at = "take", !.line = line]
  <2>1. frame' = [frame EXCEPT ![Worker] = f] /\ UNCHANGED <<ring, era>>
        /\ frame[Worker].op = "idle"
    BY <1>6 DEF BeginUpload
  <2>2. line \in Nat /\ Worker \in Threads
    BY CallersAreThreads DEF CallTypes
  <2>3. f \in Frame
    BY <2>2, FlushFrames
  <2> HIDE DEF f
  <2>4. Moves(Worker) /\ frame[Worker].at # "purge"
    BY <2>1, <2>2, <2>3, FlushMoves DEF CallShape, Proper
  <2>5. QED
    BY <1>c, <2>1, <2>2, <2>4
<1>7. ASSUME NEW moved \in BOOLEAN, NEW torn \in BOOLEAN, Relaunch(moved, torn) PROVE Purged'
  <2>1. ring' = EmptyRing
    BY <1>7 DEF Relaunch
  <2>2. QED
    BY <1>b, <2>1 DEF EmptyRing
<1>8. ASSUME Tick \/ Rest PROVE Purged'
  <2>1. UNCHANGED <<frame, ring, era>>
    BY <1>8 DEF Tick, Rest, vars, callVars, pastVars
  <2>2. QED
    BY <2>1 DEF Purged
<1>9. QED
  BY <1>1, <1>2, <1>3, <1>4, <1>5, <1>6, <1>7, <1>8, NextCases, CallersAreThreads

-----------------------------------------------------------------------------
(* The order of the lines *)

\* The part of the invariant that is about the order.
OrderInv == BufferInOrder /\ ChunksInOrder /\ FilesInOrder

\* The entries of a sequence have numbers.
LEMMA NumbersTyped ==
    ASSUME NEW s \in Seq(Entry), NEW i \in DOMAIN s
    PROVE  s[i].id \in Nat /\ DOMAIN s = 1 .. Len(s) /\ Len(s) \in Nat
<1>1. DOMAIN s = 1 .. Len(s) /\ Len(s) \in Nat
  BY LenProperties
<1>2. s[i] \in Entry
  BY <1>1, ElementOfSeq
<1>3. QED
  BY <1>1, <1>2 DEF Entry

\* A line that is appended comes after everything accepted.
LEMMA AppendOrder ==
    ASSUME LogTypes, OrderInv, NEW n \in 1 .. 2, AppendLines(n)
    PROVE  OrderInv'
<1>1. UNCHANGED <<chunk, file, previous, overlaps>>
  BY DEF AppendLines
<1>2. /\ buffer \in Seq(Entry) /\ accepted \in Nat
      /\ chunk \in [Threads -> Seq(Entry)] /\ file \in Seq(Entry)
  BY DEF LogTypes, LogTypeOK
<1>3. CASE UNCHANGED <<buffer, accepted>>
  BY <1>1, <1>3 DEF OrderInv, BufferInOrder, ChunksInOrder, FilesInOrder, Rising, Older, Ordered,
                    MayFollow
<1>4. CASE ~ UNCHANGED <<buffer, accepted>>
  <2>1. /\ accepted' = accepted + n /\ Len(buffer) \in Nat
        /\ DOMAIN buffer = 1 .. Len(buffer) /\ DOMAIN buffer' = 1 .. Len(buffer) + n
        /\ \A i \in 1 .. Len(buffer) + n :
              buffer'[i].id = IF i <= Len(buffer) THEN buffer[i].id
                              ELSE accepted + (i - Len(buffer))
    BY <1>4, AppendEntries
  <2>2. ASSUME NEW i \in 1 .. Len(buffer) + n
        PROVE  \/ i \in DOMAIN buffer /\ buffer'[i].id = buffer[i].id
                  /\ buffer[i].id \in 1 .. accepted
               \/ i \notin DOMAIN buffer /\ i - Len(buffer) \in 1 .. n
                  /\ buffer'[i].id = accepted + (i - Len(buffer))
    <3>1. CASE i <= Len(buffer)
      BY <2>1, <3>1 DEF OrderInv, BufferInOrder
    <3>2. CASE ~ i <= Len(buffer)
      BY <2>1, <3>2
    <3>3. QED
      BY <3>1, <3>2
  <2>3. BufferInOrder'
    <3>1. ASSUME NEW i \in DOMAIN buffer', NEW j \in DOMAIN buffer', i < j
          PROVE  buffer'[i].id < buffer'[j].id
      <4>1. CASE j \in DOMAIN buffer
        <5>1. i \in DOMAIN buffer
          BY <2>1, <3>1, <4>1
        <5>2. buffer[i].id < buffer[j].id
          <6>1. buffer[j].id # 0
            BY <1>2, <4>1 DEF OrderInv, BufferInOrder
          <6>2. QED
            BY <3>1, <4>1, <5>1, <6>1 DEF OrderInv, BufferInOrder, Rising
        <5>3. QED
          BY <2>1, <2>2, <4>1, <5>1, <5>2
      <4>2. CASE j \notin DOMAIN buffer
        BY <1>2, <2>1, <2>2, <3>1, <4>2
      <4>3. QED
        BY <4>1, <4>2
    <3>2. \A i \in DOMAIN buffer' : buffer'[i].id \in 1 .. accepted'
      BY <1>2, <2>1, <2>2
    <3>3. QED
      BY <3>1, <3>2 DEF BufferInOrder, Rising
  <2>4. ASSUME NEW s \in Seq(Entry), Older(s)
        PROVE  /\ \A i \in DOMAIN s : s[i].id <= accepted'
               /\ \A i \in DOMAIN s, j \in DOMAIN buffer' : s[i].id < buffer'[j].id
    <3>1. ASSUME NEW i \in DOMAIN s
          PROVE  s[i].id <= accepted' /\ \A j \in DOMAIN buffer' : s[i].id < buffer'[j].id
      <4>1. s[i].id \in Nat /\ s[i].id <= accepted
            /\ \A j \in DOMAIN buffer : s[i].id < buffer[j].id
        BY <2>4, NumbersTyped DEF Older
      <4>2. s[i].id <= accepted'
        BY <1>2, <2>1, <4>1
      <4>3. ASSUME NEW j \in DOMAIN buffer' PROVE s[i].id < buffer'[j].id
        BY <1>2, <2>1, <2>2, <4>1
      <4>4. QED
        BY <4>2, <4>3
    <3>2. QED
      BY <3>1
  <2>5. \A t \in Threads : Older(chunk[t])'
    BY <1>1, <1>2, <2>4 DEF OrderInv, ChunksInOrder, Older
  <2>6. Older(file)'
    BY <1>1, <1>2, <2>4 DEF OrderInv, FilesInOrder, Older
  <2>7. ChunksInOrder'
    BY <1>1, <2>5 DEF OrderInv, ChunksInOrder, Rising
  <2>8. FilesInOrder'
    BY <1>1, <2>6 DEF OrderInv, FilesInOrder, Ordered, MayFollow
  <2>9. QED
    BY <2>3, <2>7, <2>8 DEF OrderInv
<1>5. QED
  BY <1>3, <1>4

\* A chunk is the buffer, so nothing older is behind it, and the flushes under way
\* overlap with the one that takes it.
LEMMA TakeOrder ==
    ASSUME LogTypes, OrderInv, NEW t \in Threads, TakePending(t), buffer # <<>>
    PROVE  OrderInv'
<1>1. /\ buffer' = <<>> /\ UNCHANGED <<file, previous, accepted>>
      /\ \A u \in Threads \ {t} : chunk'[u] = chunk[u]
      /\ DOMAIN chunk'[t] = DOMAIN Taken
      /\ \A i \in DOMAIN Taken : /\ chunk'[t][i].id = Taken[i].id
                                 /\ chunk'[t][i].flush = flushes + 1
      /\ overlaps' = overlaps \cup {{g, flushes + 1} : g \in UnderWay}
  BY TakeTypes
<1>2. /\ buffer \in Seq(Entry) /\ accepted \in Nat
      /\ chunk \in [Threads -> Seq(Entry)] /\ file \in Seq(Entry)
  BY DEF LogTypes, LogTypeOK
<1>3. /\ Len(buffer) \in Nat /\ DOMAIN buffer = 1 .. Len(buffer) /\ Len(Marker) \in 0 .. 1
      /\ DOMAIN Marker = 1 .. Len(Marker)
      /\ \A i \in DOMAIN Marker : Marker[i].id = 0
      /\ DOMAIN Taken = 1 .. Len(buffer) + Len(Marker)
      /\ \A i \in DOMAIN Taken :
            Taken[i] = IF i <= Len(buffer) THEN buffer[i] ELSE Marker[i - Len(buffer)]
  BY <1>2, TakenEntries, LenProperties
<1>4. ASSUME NEW i \in DOMAIN Taken
      PROVE  \/ i \in DOMAIN buffer /\ chunk'[t][i].id = buffer[i].id
                /\ buffer[i].id \in 1 .. accepted
             \/ i = Len(buffer) + 1 /\ chunk'[t][i].id = 0
  <2>1. CASE i <= Len(buffer)
    BY <1>1, <1>3, <2>1 DEF OrderInv, BufferInOrder
  <2>2. CASE ~ i <= Len(buffer)
    <3>1. i = Len(buffer) + 1 /\ i - Len(buffer) \in DOMAIN Marker
      BY <1>3, <2>2
    <3>2. Taken[i].id = 0
      BY <1>3, <2>2, <3>1
    <3>3. QED
      BY <1>1, <3>1, <3>2
  <2>3. QED
    BY <2>1, <2>2
<1>5. BufferInOrder'
  BY <1>1 DEF BufferInOrder, Rising
<1>6. Rising(chunk[t])'
  <2>1. ASSUME NEW i \in DOMAIN Taken, NEW j \in DOMAIN Taken, i < j, chunk'[t][j].id # 0
        PROVE  chunk'[t][i].id < chunk'[t][j].id
    <3>1. j \in DOMAIN buffer /\ chunk'[t][j].id = buffer[j].id
      BY <1>4, <2>1
    <3>2. i \in DOMAIN buffer
      BY <1>3, <2>1, <3>1
    <3>3. chunk'[t][i].id = buffer[i].id
      BY <1>3, <1>4, <3>2
    <3>4. buffer[j].id # 0
      BY <2>1, <3>1
    <3>5. QED
      BY <2>1, <3>1, <3>2, <3>3, <3>4 DEF OrderInv, BufferInOrder, Rising
  <2>2. QED
    BY <1>1, <2>1 DEF Rising
<1>7. Older(chunk[t])'
  <2>1. ASSUME NEW i \in DOMAIN Taken PROVE chunk'[t][i].id <= accepted'
    BY <1>1, <1>2, <1>4
  <2>2. DOMAIN buffer' = {}
    BY <1>1
  <2>3. QED
    BY <1>1, <2>1, <2>2 DEF Older
<1>8. ASSUME NEW u \in Threads \ {t} PROVE Rising(chunk[u])' /\ Older(chunk[u])'
  <2>1. Rising(chunk[u]) /\ Older(chunk[u])
    BY DEF OrderInv, ChunksInOrder
  <2>2. QED
    BY <1>1, <2>1 DEF Rising, Older
<1>9. ASSUME NEW u \in Threads, NEW v \in Threads, u # v,
             NEW i \in DOMAIN chunk'[u], NEW j \in DOMAIN chunk'[v]
      PROVE  {chunk'[u][i].flush, chunk'[v][j].flush} \in overlaps'
  <2>1. CASE u # t /\ v # t
    BY <1>1, <1>9, <2>1 DEF OrderInv, ChunksInOrder
  <2>2. CASE u = t
    <3>1. chunk'[v] = chunk[v] /\ chunk'[u][i].flush = flushes + 1
      BY <1>1, <1>9, <2>2
    <3>2. chunk[v][j].flush \in UnderWay
      BY <1>9, <3>1 DEF UnderWay
    <3>3. {chunk[v][j].flush, flushes + 1} \in overlaps'
      BY <1>1, <3>2
    <3>4. {chunk[v][j].flush, flushes + 1} = {flushes + 1, chunk[v][j].flush}
      OBVIOUS
    <3>5. QED
      BY <3>1, <3>3, <3>4
  <2>3. CASE v = t
    <3>1. chunk'[u] = chunk[u] /\ chunk'[v][j].flush = flushes + 1
      BY <1>1, <1>9, <2>3
    <3>2. chunk[u][i].flush \in UnderWay
      BY <1>9, <3>1 DEF UnderWay
    <3>3. QED
      BY <1>1, <3>1, <3>2
  <2>4. QED
    BY <2>1, <2>2, <2>3
<1>10. ChunksInOrder'
  BY <1>6, <1>7, <1>8, <1>9 DEF ChunksInOrder
<1>11. \A e, f : MayFollow(e, f) => MayFollow(e, f)'
  BY <1>1 DEF MayFollow
<1>12. Ordered(file)' /\ Ordered(previous)' /\ Older(file)'
  BY <1>1, <1>11 DEF OrderInv, FilesInOrder, Ordered, Older
<1>13. ASSUME NEW u \in Threads, NEW i \in DOMAIN file, NEW j \in DOMAIN chunk'[u]
       PROVE  MayFollow(file[i], chunk[u][j])'
  <2>1. CASE u # t
    <3>1. MayFollow(file[i], chunk[u][j])
      BY <1>1, <1>13, <2>1 DEF OrderInv, FilesInOrder
    <3>2. QED
      BY <1>1, <2>1, <3>1 DEF MayFollow
  <2>2. CASE u = t
    <3>1. j \in DOMAIN Taken /\ file[i].id \in Nat
      BY <1>1, <1>2, <1>13, <2>2, NumbersTyped
    <3>2. CASE chunk'[t][j].id = 0
      BY <2>2, <3>2 DEF MayFollow
    <3>3. CASE j \in DOMAIN buffer /\ chunk'[t][j].id = buffer[j].id
      <4>1. file[i].id < buffer[j].id
        BY <3>3 DEF OrderInv, FilesInOrder, Older
      <4>2. buffer[j].id \in Nat
        BY <1>2, <3>3, NumbersTyped
      <4>3. ~ file[i].id > chunk'[t][j].id
        BY <3>1, <3>3, <4>1, <4>2
      <4>4. QED
        BY <1>1, <2>2, <4>3 DEF MayFollow
    <3>4. QED
      BY <1>4, <3>1, <3>2, <3>3
  <2>3. QED
    BY <2>1, <2>2
<1>14. FilesInOrder'
  <2>1. file' = file
    BY <1>1
  <2>2. \A u \in Threads : \A i \in DOMAIN file', j \in DOMAIN chunk'[u] :
           MayFollow(file[i], chunk[u][j])'
    BY <1>13, <2>1
  <2>3. QED
    BY <1>12, <2>2 DEF FilesInOrder
<1>15. QED
  BY <1>5, <1>10, <1>14 DEF OrderInv

\* What may become the file while t flushes.
FitForFile(s, t) ==
    /\ Ordered(s) /\ Older(s)
    /\ \A u \in Threads \ {t} : \A i \in DOMAIN s, j \in DOMAIN chunk[u] :
          MayFollow(s[i], chunk[u][j])

\* The old file is fit, and so is the old file with the chunk behind it.
LEMMA FitFiles ==
    ASSUME LogTypes, OrderInv, NEW t \in Threads
    PROVE  FitForFile(file, t) /\ FitForFile(file \o chunk[t], t)
<1> DEFINE all == file \o chunk[t]
<1>1. file \in Seq(Entry) /\ chunk[t] \in Seq(Entry)
  BY DEF LogTypes, LogTypeOK
<1>2. FitForFile(file, t)
  BY DEF FitForFile, OrderInv, FilesInOrder
<1>3. /\ Len(file) \in Nat /\ Len(chunk[t]) \in Nat
      /\ DOMAIN file = 1 .. Len(file) /\ DOMAIN chunk[t] = 1 .. Len(chunk[t])
      /\ DOMAIN all = 1 .. Len(file) + Len(chunk[t])
      /\ \A i \in 1 .. Len(file) + Len(chunk[t]) :
            all[i] = IF i <= Len(file) THEN file[i] ELSE chunk[t][i - Len(file)]
  BY <1>1, JoinedEntries
<1> HIDE DEF all
<1>4. ASSUME NEW i \in DOMAIN all
      PROVE  \/ i \in DOMAIN file /\ all[i] = file[i]
             \/ i \notin DOMAIN file /\ i - Len(file) \in DOMAIN chunk[t]
                /\ all[i] = chunk[t][i - Len(file)]
  <2>1. CASE i <= Len(file)
    BY <1>3, <2>1
  <2>2. CASE ~ i <= Len(file)
    <3>1. i - Len(file) \in 1 .. Len(chunk[t])
      BY <1>3, <2>2
    <3>2. QED
      BY <1>3, <2>2, <3>1
  <2>3. QED
    BY <2>1, <2>2
<1>5. Ordered(all)
  <2>1. SUFFICES ASSUME NEW i \in DOMAIN all, NEW j \in DOMAIN all, i < j
                 PROVE  MayFollow(all[i], all[j])
    BY DEF Ordered
  <2>2. CASE j \in DOMAIN file
    <3>1. i \in DOMAIN file
      BY <1>3, <2>1, <2>2
    <3>2. all[i] = file[i] /\ all[j] = file[j]
      BY <1>4, <2>2, <3>1
    <3>3. QED
      BY <1>2, <2>1, <2>2, <3>1, <3>2 DEF FitForFile, Ordered
  <2>3. CASE j \notin DOMAIN file /\ i \in DOMAIN file
    <3>1. j - Len(file) \in DOMAIN chunk[t] /\ all[j] = chunk[t][j - Len(file)]
          /\ all[i] = file[i]
      BY <1>4, <2>3
    <3>2. QED
      BY <2>3, <3>1 DEF OrderInv, FilesInOrder
  <2>4. CASE j \notin DOMAIN file /\ i \notin DOMAIN file
    <3>1. /\ j - Len(file) \in DOMAIN chunk[t] /\ all[j] = chunk[t][j - Len(file)]
          /\ i - Len(file) \in DOMAIN chunk[t] /\ all[i] = chunk[t][i - Len(file)]
      BY <1>4, <2>4
    <3>2. i - Len(file) < j - Len(file)
      BY <1>3, <2>1
    <3>3. all[j].id # 0 => all[i].id < all[j].id
      BY <3>1, <3>2 DEF OrderInv, ChunksInOrder, Rising
    <3>4. all[i].id \in Nat /\ all[j].id \in Nat
      BY <1>1, <3>1, NumbersTyped
    <3>5. all[j].id # 0 => ~ all[i].id > all[j].id
      BY <3>3, <3>4
    <3>6. QED
      BY <3>5 DEF MayFollow
  <2>5. QED
    BY <2>2, <2>3, <2>4
<1>6. Older(all)
  <2>1. Older(file) /\ Older(chunk[t])
    BY DEF OrderInv, FilesInOrder, ChunksInOrder
  <2>2. QED
    BY <1>4, <2>1 DEF Older
<1>7. ASSUME NEW u \in Threads \ {t}, NEW i \in DOMAIN all, NEW j \in DOMAIN chunk[u]
      PROVE  MayFollow(all[i], chunk[u][j])
  <2>1. CASE i \in DOMAIN file
    BY <1>4, <2>1 DEF OrderInv, FilesInOrder
  <2>2. CASE i \notin DOMAIN file
    <3>1. i - Len(file) \in DOMAIN chunk[t] /\ all[i] = chunk[t][i - Len(file)]
      BY <1>4, <2>2
    <3>2. {all[i].flush, chunk[u][j].flush} \in overlaps
      BY <3>1 DEF OrderInv, ChunksInOrder
    <3>3. QED
      BY <3>2 DEF MayFollow
  <2>3. QED
    BY <2>1, <2>2
<1>8. QED
  BY <1>2, <1>5, <1>6, <1>7 DEF FitForFile, all

\* A stretch leaves what was fit.
LEMMA KeptFits ==
    ASSUME LogTypes, LogTypes', NEW t \in Threads, NEW s \in Seq(Entry), FitForFile(s, t),
           Stretch(file', s), UNCHANGED <<buffer, accepted, overlaps>>,
           chunk' = [chunk EXCEPT ![t] = <<>>]
    PROVE  /\ Ordered(file)' /\ Older(file)'
           /\ \A u \in Threads : \A i \in DOMAIN file', j \in DOMAIN chunk'[u] :
                 MayFollow(file[i], chunk[u][j])'
<1>1. PICK k \in 0 .. Len(s) : /\ Len(file') <= Len(s) - k
                               /\ \A i \in 1 .. Len(file') : file'[i] = s[i + k]
  BY DEF Stretch
<1>2. Len(s) \in Nat /\ DOMAIN s = 1 .. Len(s)
  BY LenProperties
<1>3. Len(file') \in Nat /\ DOMAIN file' = 1 .. Len(file')
  <2>1. file' \in Seq(Entry)
    BY DEF LogTypes, LogTypeOK
  <2>2. QED
    BY <2>1, LenProperties
<1>4. \A i \in DOMAIN file' : i + k \in DOMAIN s /\ file'[i] = s[i + k]
  BY <1>1, <1>2, <1>3
<1>5. Ordered(file)'
  <2>1. ASSUME NEW i \in DOMAIN file', NEW j \in DOMAIN file', i < j
        PROVE  MayFollow(file'[i], file'[j])
    <3>1. i + k \in DOMAIN s /\ j + k \in DOMAIN s /\ file'[i] = s[i + k] /\ file'[j] = s[j + k]
      BY <1>4
    <3>2. i + k < j + k
      BY <1>1, <1>2, <1>3, <2>1
    <3>3. QED
      BY <3>1, <3>2 DEF FitForFile, Ordered
  <2>2. QED
    BY <2>1 DEF Ordered, MayFollow
<1>6. Older(file)'
  BY <1>4 DEF FitForFile, Older
<1>7. ASSUME NEW u \in Threads, NEW i \in DOMAIN file', NEW j \in DOMAIN chunk'[u]
      PROVE  MayFollow(file[i], chunk[u][j])'
  <2>1. chunk \in [Threads -> Seq(Entry)]
    BY DEF LogTypes, LogTypeOK
  <2>2. u # t /\ chunk'[u] = chunk[u]
    BY <1>7, <2>1
  <2>3. MayFollow(file'[i], chunk[u][j])
    BY <1>4, <1>7, <2>2 DEF FitForFile
  <2>4. QED
    BY <2>2, <2>3 DEF MayFollow
<1>8. QED
  BY <1>5, <1>6, <1>7

\* A chunk is written, or not, and the file may be trimmed.
LEMMA WriteOrder ==
    ASSUME LogTypes, OrderInv, NEW t \in Threads,
           WriteChunk(t) \/ WriteFails(t)
    PROVE  OrderInv'
<1>1. /\ LogTypes' /\ Stretch(file', file \o chunk[t])
      /\ chunk' = [chunk EXCEPT ![t] = <<>>]
      /\ UNCHANGED <<buffer, previous, accepted, overlaps>>
  BY WriteTypes
<1>2. file \in Seq(Entry) /\ chunk[t] \in Seq(Entry) /\ file \o chunk[t] \in Seq(Entry)
      /\ chunk \in [Threads -> Seq(Entry)]
  BY JoinedEntries DEF LogTypes, LogTypeOK
<1>3. /\ Ordered(file)' /\ Older(file)'
      /\ \A u \in Threads : \A i \in DOMAIN file', j \in DOMAIN chunk'[u] :
            MayFollow(file[i], chunk[u][j])'
  <2>1. FitForFile(file \o chunk[t], t)
    BY FitFiles
  <2>2. QED
    BY <1>1, <1>2, <2>1, KeptFits
<1>4. \A u \in Threads : chunk'[u] = chunk[u] \/ chunk'[u] = <<>>
  BY <1>1, <1>2
<1>5. BufferInOrder' /\ Ordered(previous)'
  BY <1>1 DEF OrderInv, BufferInOrder, FilesInOrder, Rising, Ordered, MayFollow
<1>6. ChunksInOrder'
  <2>1. ASSUME NEW u \in Threads PROVE Rising(chunk[u])' /\ Older(chunk[u])'
    <3>1. CASE chunk'[u] = chunk[u]
      BY <1>1, <3>1 DEF OrderInv, ChunksInOrder, Rising, Older
    <3>2. CASE chunk'[u] = <<>>
      BY <3>2 DEF Rising, Older
    <3>3. QED
      BY <1>4, <3>1, <3>2
  <2>2. ASSUME NEW u \in Threads, NEW v \in Threads, u # v,
               NEW i \in DOMAIN chunk'[u], NEW j \in DOMAIN chunk'[v]
        PROVE  {chunk'[u][i].flush, chunk'[v][j].flush} \in overlaps'
    <3>1. chunk'[u] = chunk[u] /\ chunk'[v] = chunk[v]
      BY <1>4, <2>2
    <3>2. i \in DOMAIN chunk[u] /\ j \in DOMAIN chunk[v] /\ overlaps' = overlaps
      BY <1>1, <2>2, <3>1
    <3>3. {chunk[u][i].flush, chunk[v][j].flush} \in overlaps
      BY <2>2, <3>2 DEF OrderInv, ChunksInOrder
    <3>4. QED
      BY <3>1, <3>2, <3>3
  <2>3. QED
    BY <2>1, <2>2 DEF ChunksInOrder
<1>7. QED
  BY <1>3, <1>5, <1>6 DEF OrderInv, FilesInOrder

\* Every step keeps the order.
LEMMA OrderStep ==
    ASSUME LogTypes, OrderInv, Next
    PROVE  OrderInv'
<1>1. ASSUME UNCHANGED logVars PROVE OrderInv'
  BY <1>1 DEF logVars, logMemory, OrderInv, BufferInOrder, ChunksInOrder, FilesInOrder, Rising,
              Older, Ordered, MayFollow
<1>2. ASSUME NEW t \in Callers, AppendLog(t) PROVE OrderInv'
  <2>1. \E n \in 1 .. 2 : AppendLines(n)
    BY <1>2 DEF AppendLog
  <2>2. QED
    BY <2>1, AppendOrder
<1>3. ASSUME NEW t \in Threads, TakeChunk(t) PROVE OrderInv'
  <2>1. TakePending(t)
    BY <1>3 DEF TakeChunk
  <2>2. CASE buffer = <<>>
    BY <1>1, <2>1, <2>2 DEF TakePending, logVars, logMemory
  <2>3. CASE buffer # <<>>
    BY <2>1, <2>3, TakeOrder
  <2>4. QED
    BY <2>2, <2>3
<1>4. ASSUME NEW t \in Threads, PutChunk(t) PROVE OrderInv'
  BY <1>4, WriteOrder DEF PutChunk
<1>5. ASSUME NEW moved \in BOOLEAN, NEW torn \in BOOLEAN, Relaunch(moved, torn) PROVE OrderInv'
  <2>1. /\ buffer' = <<>> /\ chunk' = [t \in Threads |-> <<>>]
        /\ file' = file \/ file' = <<>>
        /\ previous' = file \/ previous' = <<>>
        /\ UNCHANGED <<accepted, overlaps>>
    BY <1>5, RotateTypes DEF Relaunch
  <2>2. DOMAIN buffer' = {} /\ \A t \in Threads : DOMAIN chunk'[t] = {}
    BY <2>1
  <2>3. BufferInOrder' /\ ChunksInOrder'
    BY <2>2 DEF BufferInOrder, ChunksInOrder, Rising, Older
  <2>4. Ordered(file)' /\ Ordered(previous)'
    BY <2>1 DEF OrderInv, FilesInOrder, Ordered, MayFollow
  <2>5. Older(file)'
    BY <2>1, <2>2 DEF OrderInv, FilesInOrder, Older
  <2>6. QED
    BY <2>2, <2>3, <2>4, <2>5 DEF OrderInv, FilesInOrder
<1>6. QED
  BY <1>1, <1>2, <1>3, <1>4, <1>5, LogSteps

-----------------------------------------------------------------------------
(* The theorem, and what it gives *)

\* A new client over an empty log.
LEMMA CaptureStarts == Init => CaptureInv
<1>1. SUFFICES ASSUME Init PROVE CaptureInv
  OBVIOUS
<1>2. LogTypes
  <2>1. <<>> \in Seq(Entry) /\ chunk \in [Threads -> Seq(Entry)]
    BY <1>1 DEF Init, LogInit
  <2>2. QED
    BY <1>1, <2>1 DEF Init, LogInit, LogTypes, LogTypeOK
<1>3. /\ \A t \in Threads : chunk[t] = <<>> /\ frame[t] = Idle
      /\ DOMAIN buffer = {} /\ DOMAIN file = {} /\ DOMAIN previous = {}
      /\ \A t \in Threads : DOMAIN chunk[t] = {}
  BY <1>1 DEF Init, LogInit
<1>4. ClientTypes /\ Filled(ring)
  <2>1. DOMAIN recent = {} /\ IsFiniteSet(DOMAIN recent) /\ Cardinality(DOMAIN recent) = 0
    BY <1>1, FS_EmptySet DEF Init
  <2>2. MaxTracked \in Nat /\ budget \in [Kinds -> Nat]
    BY <1>1, CaptureAssumption DEF Init
  <2>3. ring \in Ring /\ Filled(ring)
    BY <1>1, EmptyRingFilled DEF Init
  <2>4. consent \in BOOLEAN /\ closing \in BOOLEAN
    BY <1>1 DEF Init
  <2>5. now \in Nat /\ era \in Nat /\ clears \in Nat /\ session \in Nat
    BY <1>1 DEF Init
  <2>6. DOMAIN recent \subseteq Signatures /\ \A s \in DOMAIN recent : recent[s] \in Sent
    BY <2>1
  <2>7. Cardinality(DOMAIN recent) <= MaxTracked
    BY <2>1, <2>2
  <2>8. QED
    BY <2>1, <2>2, <2>3, <2>4, <2>5, <2>6, <2>7 DEF ClientTypes
<1>5. CallTypes
  <2>1. frame \in [Threads -> Frame]
    BY <1>1, IdleIsFrame DEF Init
  <2>2. accepted = 0 /\ awaited = {}
    BY <1>1 DEF Init, LogInit
  <2>3. Idle.line = 0 /\ Idle.at = "gate"
    BY DEF Idle
  <2>4. QED
    BY <1>3, <2>1, <2>2, <2>3 DEF CallTypes
<1>6. CallShape
  <2>1. Worker \in Threads
    BY CaptureAssumption
  <2>2. Idle.op = "idle" /\ Idle.at = "gate"
    BY DEF Idle
  <2>3. QED
    BY <1>1, <1>3, <2>1, <2>2 DEF Init, CallShape, Proper, WorkerOps, CaptureStages
<1>7. Flushed
  <2>1. Idle.at = "gate" /\ Idle.op = "idle" /\ left = {}
    BY <1>1 DEF Init, Idle
  <2>2. QED
    BY <1>3, <2>1 DEF Flushed, EndedIsFlushed
<1>8. Remembered
  BY <1>1 DEF Init, Remembered, DedupeHolds
<1>9. Purged
  BY <1>1 DEF Init, Purged, EmptyRing
<1>10. BufferInOrder /\ ChunksInOrder /\ FilesInOrder
  BY <1>3 DEF BufferInOrder, ChunksInOrder, FilesInOrder, Rising, Ordered, Older
<1>11. QED
  BY <1>2, <1>4, <1>5, <1>6, <1>7, <1>8, <1>9, <1>10 DEF CaptureInv

\* Nothing of the invariant is about anything but the state.
LEMMA CaptureRests == CaptureInv /\ UNCHANGED vars => CaptureInv'
<1>1. SUFFICES ASSUME CaptureInv, UNCHANGED vars PROVE CaptureInv'
  OBVIOUS
<1>2. LogTypes' /\ ClientTypes' /\ CallTypes'
  BY <1>1 DEF CaptureInv, LogTypes, LogTypeOK, ClientTypes, CallTypes, vars, logVars, logMemory,
              callVars, pastVars, boundVars
<1>3. CallShape' /\ Flushed' /\ Remembered'
  BY <1>1 DEF CaptureInv, CallShape, Proper, Flushed, EndedIsFlushed, Remembered, DedupeHolds,
              vars, logVars, logMemory, callVars, pastVars, boundVars
<1>4. Filled(ring)' /\ Purged'
  BY <1>1 DEF CaptureInv, Filled, Purged, vars, logVars, logMemory, callVars, pastVars, boundVars
<1>5. BufferInOrder' /\ ChunksInOrder' /\ FilesInOrder'
  BY <1>1 DEF CaptureInv, BufferInOrder, ChunksInOrder, FilesInOrder, Rising, Ordered, Older,
              MayFollow, vars, logVars, logMemory, callVars, pastVars, boundVars
<1>6. QED
  BY <1>2, <1>3, <1>4, <1>5 DEF CaptureInv

\* Every step keeps the whole of it.
LEMMA CaptureStep == CaptureInv /\ [Next]_vars => CaptureInv'
<1>1. SUFFICES ASSUME CaptureInv, Next PROVE CaptureInv'
  BY CaptureRests
<1>2. /\ LogTypes /\ ClientTypes /\ CallTypes /\ CallShape /\ Flushed /\ Remembered
      /\ Filled(ring) /\ Purged /\ OrderInv
  BY <1>1 DEF CaptureInv, OrderInv
<1>3. LogTypes'
  BY <1>1, <1>2, LogStep
<1>4. ClientTypes' /\ Filled(ring)'
  BY <1>1, <1>2, ClientStep
<1>5. CallTypes'
  BY <1>1, <1>2, CallTypesStep
<1>6. CallShape'
  BY <1>1, <1>2, ShapeStep
<1>7. Flushed'
  BY <1>1, <1>2, FlushedStep
<1>8. Remembered'
  BY <1>1, <1>2, RememberedStep
<1>9. Purged'
  BY <1>1, <1>2, PurgedStep
<1>10. OrderInv'
  BY <1>1, <1>2, OrderStep
<1>11. QED
  BY <1>3, <1>4, <1>5, <1>6, <1>7, <1>8, <1>9, <1>10 DEF CaptureInv, OrderInv

\* The invariant holds of every run of the capture calls, whatever their order.
THEOREM CaptureHolds == Spec => []CaptureInv
<1>1. Init => CaptureInv
  BY CaptureStarts
<1>2. CaptureInv /\ [Next]_vars => CaptureInv'
  BY CaptureStep
<1>3. QED
  BY <1>1, <1>2, PTL DEF Spec

\* The ring's indices stay in its array and the dedupe map within its bound, a thread
\* has a chunk only between take_pending and write_chunk, and every report that waits
\* for its log answers for a line that was accepted.
THEOREM CaptureTypes == Spec => []TypeOK
<1>1. CaptureInv => TypeOK
  <2>1. SUFFICES ASSUME CaptureInv PROVE TypeOK
    OBVIOUS
  <2>2. LogTypes /\ ClientTypes /\ CallTypes
    BY <2>1 DEF CaptureInv
  <2>3. /\ ring.head \in 0 .. RingSize - 1 /\ ring.count \in 0 .. RingSize
        /\ \A i \in 0 .. RingSize - 1 : ring.slots[i] \in Crumb
    BY <2>2 DEF ClientTypes, Ring
  <2>4. QED
    BY <2>2, <2>3 DEF TypeOK, LogTypes, ClientTypes, CallTypes
<1>2. QED
  BY <1>1, CaptureHolds, PTL

\* DedupeWindow::check never lets two reports of a signature through within the window
\* unless the bounded map was emptied between them, in whatever order the threads that
\* read the clock reach the lock.
THEOREM WindowHolds == Spec => []DedupeHolds
<1>1. CaptureInv => DedupeHolds
  BY DEF CaptureInv, Remembered
<1>2. QED
  BY <1>1, CaptureHolds, PTL

\* After set_consent(false) has purged the ring, no slot holds a crumb from before the
\* revocation but of a capture then under way, and a report never attaches a slot that
\* was scrubbed or never filled.
THEOREM TrailIsPurged == Spec => []RevokedTrailIsPurged
<1>1. CaptureInv => RevokedTrailIsPurged
  <2>1. SUFFICES ASSUME CaptureInv PROVE RevokedTrailIsPurged
    OBVIOUS
  <2>2. ring \in Ring /\ Filled(ring) /\ Purged
    BY <2>1 DEF CaptureInv, ClientTypes
  <2>3. NoCrumb \notin EntriesOf(Snapshot(ring))
    BY <2>2, SnapshotFilled
  <2>4. DOMAIN ring.slots = 0 .. RingSize - 1
    BY <2>2 DEF Ring
  <2>5. QED
    BY <2>2, <2>3, <2>4 DEF RevokedTrailIsPurged, Purged
<1>2. QED
  BY <1>1, CaptureHolds, PTL

\* When report_crash, read_current or ~Client is through with its flush, no line it
\* answers for is still in the buffer, whoever else flushed meanwhile.
THEOREM FlushedAtTheEnd == Spec => []EndedIsFlushed
<1>1. CaptureInv => EndedIsFlushed
  BY DEF CaptureInv, Flushed
<1>2. QED
  BY <1>1, CaptureHolds, PTL

\* Both files hold the lines in the order they were accepted, except between two flushes
\* that were both between take_pending and write_chunk at one time.
THEOREM LinesInOrder == Spec => []LogOrder
<1>1. CaptureInv => LogOrder
  BY DEF CaptureInv, FilesInOrder, Ordered, MayFollow, LogOrder
<1>2. QED
  BY <1>1, CaptureHolds, PTL

-----------------------------------------------------------------------------
(* The sum over a set of entries of the lines they say were dropped *)

\* How many lines the markers among a set of entries announce, as Announced adds them up.
Drops(S) == MapThenSumSet(LAMBDA e : e.drops, S)

\* A finite set of entries that count.
Counted(S) == IsFiniteSet(S) /\ \A e \in S : e.drops \in Nat

\* The element a sum takes next.
Pick(s) == CHOOSE x \in s : TRUE

\* f has the sums over the subsets of S.
SumsOver(S, f) ==
    f = [s \in SUBSET S |-> IF s = {} THEN 0 ELSE Pick(s).drops + f[s \ {Pick(s)}]]

\* A set without the element a sum takes next.
LEMMA PickedElement ==
    ASSUME NEW s, s # {}, IsFiniteSet(s)
    PROVE  /\ Pick(s) \in s /\ IsFiniteSet(s \ {Pick(s)})
           /\ Cardinality(s) \in Nat \ {0} /\ Cardinality(s \ {Pick(s)}) = Cardinality(s) - 1
<1>1. Pick(s) \in s
  BY DEF Pick
<1>2. IsFiniteSet(s \ {Pick(s)}) /\ Cardinality(s \ {Pick(s)}) = Cardinality(s) - 1
  BY <1>1, FS_RemoveElement
<1>3. Cardinality(s) \in Nat /\ Cardinality(s) # 0
  BY FS_CardinalityType, FS_EmptySet
<1>4. QED
  BY <1>1, <1>2, <1>3

\* A finite set has sums.
LEMMA SumsExist ==
    ASSUME NEW S, Counted(S)
    PROVE  \E f \in [SUBSET S -> Nat] : SumsOver(S, f)
<1> DEFINE n == Cardinality(S)
           V == [SUBSET S -> Nat]
           next(f) == [s \in SUBSET S |-> IF s = {} THEN 0 ELSE Pick(s).drops + f[s \ {Pick(s)}]]
           base == [s \in SUBSET S |-> 0]
           step == [x \in V \X (1 .. n) |-> next(x[1])]
<1>1. n \in Nat /\ IsFiniteSet(S) /\ \A e \in S : e.drops \in Nat
  BY FS_CardinalityType DEF Counted
<1>2. \A s \in SUBSET S : /\ IsFiniteSet(s) /\ Cardinality(s) \in 0 .. n
                          /\ s # {} => Pick(s) \in S
  <2>1. ASSUME NEW s \in SUBSET S PROVE IsFiniteSet(s) /\ Cardinality(s) \in 0 .. n
    <3>1. IsFiniteSet(s) /\ Cardinality(s) <= n
      BY <1>1, FS_Subset
    <3>2. Cardinality(s) \in Nat
      BY <3>1, FS_CardinalityType
    <3>3. QED
      BY <1>1, <3>1, <3>2
  <2>2. QED
    BY <2>1 DEF Pick
<1> HIDE DEF n
<1>3. ASSUME NEW f \in V PROVE next(f) \in V
  BY <1>1, <1>2
<1>4. base \in V
  OBVIOUS
<1>5. step \in [V \X (1 .. n) -> V] /\ \A f \in V, i \in 1 .. n : step[<<f, i>>] = next(f)
  <2> HIDE DEF V, next
  <2>1. QED
    BY <1>3
<1>6. PICK f : RunOf(V, base, n, step, f)
  <2> HIDE DEF V, base, step
  <2>1. StepFunction(V, n, step)
    BY <1>1, <1>5 DEF StepFunction
  <2>2. QED
    BY <1>4, <2>1, RecursionExists
<1>7. f \in [0 .. n -> V] /\ f[0] = base /\ \A i \in 1 .. n : f[i] = next(f[i - 1])
  <2> HIDE DEF V, base, step, next
  <2>1. f \in [0 .. n -> V] /\ f[0] = base /\ \A i \in 1 .. n : f[i] = step[<<f[i - 1], i>>]
    BY <1>6 DEF RunOf
  <2>2. \A i \in 1 .. n : f[i - 1] \in V
    BY <1>1, <2>1
  <2>3. QED
    BY <1>5, <2>1, <2>2
<1> DEFINE g == [s \in SUBSET S |-> f[Cardinality(s)][s]]
<1>8. g \in [SUBSET S -> Nat]
  BY <1>2, <1>7
<1>9. ASSUME NEW s \in SUBSET S
      PROVE  g[s] = IF s = {} THEN 0 ELSE Pick(s).drops + g[s \ {Pick(s)}]
  <2>1. CASE s = {}
    <3>1. Cardinality(s) = 0
      BY <2>1, FS_EmptySet
    <3>2. g[s] = base[s]
      BY <1>7, <3>1
    <3>3. QED
      BY <2>1, <3>2
  <2>2. CASE s # {}
    <3> DEFINE k == Cardinality(s)
               r == s \ {Pick(s)}
    <3>1. k \in 1 .. n /\ Cardinality(r) = k - 1 /\ r \in SUBSET S
      BY <1>1, <1>2, <2>2, PickedElement
    <3>2. g[s] = f[k][s] /\ g[r] = f[k - 1][r]
      BY <3>1
    <3>3. f[k] = next(f[k - 1])
      BY <1>7, <3>1
    <3> HIDE DEF g, k
    <3>4. f[k][s] = Pick(s).drops + f[k - 1][r]
      BY <2>2, <3>3
    <3>5. QED
      BY <2>2, <3>2, <3>4
  <2>3. QED
    BY <2>1, <2>2
<1>10. SumsOver(S, g)
  <2>1. g = [s \in SUBSET S |-> g[s]]
    OBVIOUS
  <2> HIDE DEF g
  <2>2. QED
    BY <1>9, <2>1 DEF SumsOver
<1> HIDE DEF g
<1>11. QED
  BY <1>8, <1>10

\* The sums over the subsets of a set do not depend on the set.
LEMMA SumsAgree ==
    ASSUME NEW S, NEW T, Counted(T), S \subseteq T, NEW f, SumsOver(S, f), NEW g, SumsOver(T, g)
    PROVE  f[S] = g[S]
<1> DEFINE N == {n \in Nat : \A s \in SUBSET S : Cardinality(s) = n => f[s] = g[s]}
<1>1. /\ \A s \in SUBSET S : f[s] = IF s = {} THEN 0 ELSE Pick(s).drops + f[s \ {Pick(s)}]
      /\ \A s \in SUBSET T : g[s] = IF s = {} THEN 0 ELSE Pick(s).drops + g[s \ {Pick(s)}]
  BY Zenon DEF SumsOver
<1>2. \A s \in SUBSET S : s \in SUBSET T /\ IsFiniteSet(s) /\ Cardinality(s) \in Nat
  <2>1. IsFiniteSet(T) /\ \A s \in SUBSET S : s \subseteq T
    BY DEF Counted
  <2>2. QED
    BY <2>1, FS_Subset, FS_CardinalityType
<1>3. 0 \in N
  <2>1. ASSUME NEW s \in SUBSET S, Cardinality(s) = 0 PROVE f[s] = g[s]
    <3>1. s = {}
      BY <1>2, <2>1, FS_EmptySet
    <3>2. QED
      BY <1>1, <1>2, <3>1
  <2>2. QED
    BY <2>1
<1>4. ASSUME NEW n \in Nat, n \in N PROVE n + 1 \in N
  <2>1. ASSUME NEW s \in SUBSET S, Cardinality(s) = n + 1 PROVE f[s] = g[s]
    <3>1. s # {}
      BY <2>1, FS_EmptySet
    <3> DEFINE r == s \ {Pick(s)}
    <3>2. r \in SUBSET S /\ Cardinality(r) = n
      BY <1>2, <2>1, <3>1, PickedElement
    <3>3. f[r] = g[r]
      BY <1>4, <3>2
    <3>4. f[s] = Pick(s).drops + f[r] /\ g[s] = Pick(s).drops + g[r]
      BY <1>1, <1>2, <3>1
    <3>5. QED
      BY <3>3, <3>4
  <2>2. QED
    BY <2>1
<1>5. \A n \in Nat : n \in N
  <2> HIDE DEF N
  <2>1. QED
    BY <1>3, <1>4, SetInduction
<1>6. QED
  BY <1>2, <1>5

\* The sum over a set is that of any function that has its sums.
LEMMA SumIs ==
    ASSUME NEW S, Counted(S)
    PROVE  \E f \in [SUBSET S -> Nat] : SumsOver(S, f) /\ Drops(S) = f[S]
<1> DEFINE iter == CHOOSE f : SumsOver(S, f)
<1>1. PICK f \in [SUBSET S -> Nat] : SumsOver(S, f)
  BY SumsExist
<1>2. SumsOver(S, iter)
  BY <1>1, Zenon
<1>3. Drops(S) = iter[S]
  BY DEF Drops, MapThenSumSet, MapThenFoldSet, SumsOver, Pick
<1> HIDE DEF iter
<1>4. iter[S] = f[S]
  BY <1>1, <1>2, SumsAgree
<1>5. QED
  BY <1>1, <1>3, <1>4

\* A sum is a number; that over no entries is 0, and any other that of one element and the rest.
LEMMA DropsUnfold ==
    ASSUME NEW S, Counted(S)
    PROVE  /\ Drops(S) \in Nat
           /\ S = {} => Drops(S) = 0
           /\ S # {} => Drops(S) = Pick(S).drops + Drops(S \ {Pick(S)})
<1>1. PICK f \in [SUBSET S -> Nat] : SumsOver(S, f) /\ Drops(S) = f[S]
  BY SumIs
<1>2. f[S] = IF S = {} THEN 0 ELSE Pick(S).drops + f[S \ {Pick(S)}]
  BY <1>1, Zenon DEF SumsOver
<1>3. ASSUME S # {} PROVE Drops(S \ {Pick(S)}) = f[S \ {Pick(S)}]
  <2> DEFINE R == S \ {Pick(S)}
  <2>1. Counted(R) /\ R \subseteq S
    BY <1>3, PickedElement DEF Counted
  <2> HIDE DEF R
  <2>2. PICK g \in [SUBSET R -> Nat] : SumsOver(R, g) /\ Drops(R) = g[R]
    BY <2>1, SumIs
  <2>3. g[R] = f[R]
    BY <1>1, <2>1, <2>2, SumsAgree
  <2>4. QED
    BY <2>2, <2>3 DEF R
<1>4. QED
  BY <1>1, <1>2, <1>3

\* A set that counts, without one of its elements.
LEMMA CountedRest ==
    ASSUME NEW S, Counted(S), NEW x \in S
    PROVE  /\ Counted(S \ {x}) /\ x.drops \in Nat /\ Cardinality(S) \in Nat
           /\ Cardinality(S \ {x}) = Cardinality(S) - 1
BY FS_RemoveElement, FS_CardinalityType DEF Counted

\* A set of n + 1 elements, without one of them.
LEMMA OneFewer ==
    ASSUME NEW S, Counted(S), NEW x \in S, NEW n \in Nat, Cardinality(S) = n + 1
    PROVE  Counted(S \ {x}) /\ x.drops \in Nat /\ Cardinality(S \ {x}) = n
<1>1. Counted(S \ {x}) /\ x.drops \in Nat /\ Cardinality(S \ {x}) = (n + 1) - 1
  BY CountedRest
<1>2. (n + 1) - 1 = n
  OBVIOUS
<1>3. QED
  BY <1>1, <1>2

\* A sum is that of any of its elements and the rest.
LEMMA DropsRemove ==
    ASSUME NEW S, Counted(S), NEW x \in S
    PROVE  Drops(S) = x.drops + Drops(S \ {x})
<1> DEFINE Any(T) == \A y \in T : Drops(T) = y.drops + Drops(T \ {y})
           N == {n \in Nat : \A T : Counted(T) /\ Cardinality(T) = n => Any(T)}
<1>1. 0 \in N
  <2>1. ASSUME NEW T, Counted(T), Cardinality(T) = 0 PROVE T = {}
    BY <2>1, FS_EmptySet DEF Counted
  <2>2. QED
    BY <2>1
<1>2. ASSUME NEW n \in Nat, n \in N PROVE n + 1 \in N
  <2>1. ASSUME NEW T, Counted(T), Cardinality(T) = n + 1, NEW y \in T
        PROVE  Drops(T) = y.drops + Drops(T \ {y})
    <3> DEFINE c == Pick(T)
    <3>1. c \in T
      BY DEF Pick
    <3> HIDE DEF c
    <3>2. Drops(T) = c.drops + Drops(T \ {c})
      BY <2>1, DropsUnfold DEF c
    <3>3. CASE y = c
      BY <3>2, <3>3
    <3>4. CASE y # c
      <4> DEFINE A == T \ {c}
                 B == T \ {y}
                 C == A \ {y}
      <4>1. Counted(A) /\ Counted(B) /\ Cardinality(A) = n /\ Cardinality(B) = n
            /\ c.drops \in Nat /\ y.drops \in Nat
        BY <2>1, <3>1, OneFewer
      <4>8. y \in A /\ c \in B /\ C = B \ {c}
        BY <2>1, <3>1, <3>4
      <4> HIDE DEF A, B
      <4>2. Any(A) /\ Any(B)
        BY <1>2, <4>1
      <4>3. Drops(A) = y.drops + Drops(C) /\ Drops(B) = c.drops + Drops(C)
        BY <4>2, <4>8
      <4>4. Drops(C) \in Nat
        BY <4>1, <4>8, CountedRest, DropsUnfold
      <4>5. Drops(T) = c.drops + Drops(A)
        BY <3>2 DEF A
      <4>6. Drops(T) = y.drops + Drops(B)
        <5> DEFINE a == Drops(A)
                   b == Drops(B)
                   d == Drops(C)
                   t == Drops(T)
        <5>1. a = y.drops + d /\ b = c.drops + d /\ d \in Nat /\ t = c.drops + a
          BY <4>3, <4>4, <4>5
        <5> HIDE DEF a, b, d, t
        <5>2. t = y.drops + b
          BY <4>1, <5>1
        <5>3. QED
          BY <5>2 DEF t, b
      <4>7. QED
        BY <4>6 DEF B
    <3>5. QED
      BY <3>3, <3>4
  <2>2. QED
    BY <2>1
<1>3. \A n \in Nat : n \in N
  <2> HIDE DEF N
  <2>1. QED
    BY <1>1, <1>2, SetInduction
<1>4. Cardinality(S) \in Nat
  BY FS_CardinalityType DEF Counted
<1>5. Any(S)
  <2> HIDE DEF Any
  <2>1. QED
    BY <1>3, <1>4
<1>6. QED
  BY <1>5

\* A sum over one element more.
LEMMA DropsAdd ==
    ASSUME NEW S, Counted(S), NEW x, x \notin S, x.drops \in Nat
    PROVE  Counted(S \cup {x}) /\ Drops(S \cup {x}) = Drops(S) + x.drops
<1> DEFINE T == S \cup {x}
<1>1. Counted(T) /\ x \in T /\ T \ {x} = S
  BY FS_AddElement DEF Counted
<1> HIDE DEF T
<1>2. Drops(T) = x.drops + Drops(S)
  BY <1>1, DropsRemove
<1>3. Drops(S) \in Nat
  BY DropsUnfold
<1> DEFINE d == Drops(S)
<1> HIDE DEF d
<1>4. x.drops + d = d + x.drops
  BY <1>3 DEF d
<1>5. QED
  BY <1>1, <1>2, <1>4 DEF T, d

\* Only those that announce something matter for the sum.
LEMMA DropsOfMarkers ==
    ASSUME NEW S, Counted(S)
    PROVE  /\ Counted({e \in S : e.drops # 0})
           /\ Drops(S) = Drops({e \in S : e.drops # 0})
<1> DEFINE M(T) == {e \in T : e.drops # 0}
           Same(T) == Drops(T) = Drops(M(T))
           N == {n \in Nat : \A T : Counted(T) /\ Cardinality(T) = n => Same(T)}
<1>1. ASSUME NEW n \in Nat, NEW T, Counted(T), Cardinality(T) = n,
             \A x \in T : x.drops = 0 => Same(T \ {x})
      PROVE  Same(T)
  <2>1. CASE M(T) = T
    BY <2>1
  <2>2. ASSUME NEW x \in T, x.drops = 0 PROVE Same(T)
    <3>1. Same(T \ {x}) /\ M(T \ {x}) = M(T)
      BY <1>1, <2>2
    <3>2. Drops(T) = 0 + Drops(T \ {x}) /\ Drops(T \ {x}) \in Nat
      BY <1>1, <2>2, DropsRemove, CountedRest, DropsUnfold
    <3> DEFINE d == Drops(T \ {x})
    <3>3. Drops(T) = d
      <4>1. d \in Nat /\ Drops(T) = 0 + d
        BY <3>2
      <4> HIDE DEF d
      <4>2. QED
        BY <4>1
    <3>4. QED
      BY <3>1, <3>3
  <2>3. QED
    BY <2>1, <2>2
<1>2. 0 \in N
  <2>1. ASSUME NEW T, Counted(T), Cardinality(T) = 0 PROVE Same(T)
    <3>1. T = {}
      BY <2>1, FS_EmptySet DEF Counted
    <3>2. M(T) = T
      BY <3>1
    <3>3. QED
      BY <3>2
  <2> HIDE DEF Same
  <2>2. QED
    BY <2>1
<1>3. ASSUME NEW n \in Nat, n \in N PROVE n + 1 \in N
  <2>1. ASSUME NEW T, Counted(T), Cardinality(T) = n + 1 PROVE Same(T)
    <3>1. ASSUME NEW x \in T PROVE Same(T \ {x})
      <4>1. Counted(T \ {x}) /\ Cardinality(T \ {x}) = n
        BY <2>1, OneFewer
      <4> HIDE DEF Same
      <4>2. QED
        BY <1>3, <4>1
    <3> HIDE DEF Same
    <3>2. QED
      BY <1>1, <2>1, <3>1
  <2> HIDE DEF Same
  <2>2. QED
    BY <2>1
<1>4. \A n \in Nat : n \in N
  <2> HIDE DEF N
  <2>1. QED
    BY <1>2, <1>3, SetInduction
<1>5. Cardinality(S) \in Nat
  BY FS_CardinalityType DEF Counted
<1>6. Same(S)
  <2> HIDE DEF Same
  <2>1. QED
    BY <1>4, <1>5
<1>7. Counted(M(S))
  BY FS_Subset DEF Counted
<1>8. QED
  BY <1>6, <1>7

-----------------------------------------------------------------------------
(* The inductive invariant: where each line is *)

\* No line is twice in s.
OnceIn(s) == \A i, j \in DOMAIN s : s[i].id = s[j].id /\ s[i].id # 0 => i = j

\* The lines that were cut off, replaced or lost.
GoneIds == {e.id : e \in gone} \ {0}

\* The lines in the hands of flushes.
ChunkIds == UNION {Ids(chunk[t]) : t \in Threads}

\* Every line accepted is in one place, and there once.
InOnePlace ==
    /\ OnceIn(buffer) /\ OnceIn(file) /\ OnceIn(previous) /\ \A t \in Threads : OnceIn(chunk[t])
    /\ Ids(buffer) \cap (Ids(file) \cup Ids(previous) \cup ChunkIds \cup GoneIds) = {}
    /\ Ids(file) \cap (Ids(previous) \cup ChunkIds \cup GoneIds) = {}
    /\ Ids(previous) \cap (ChunkIds \cup GoneIds) = {}
    /\ ChunkIds \cap GoneIds = {}
    /\ \A t, u \in Threads : t # u => Ids(chunk[t]) \cap Ids(chunk[u]) = {}
    /\ 1 .. accepted = Ids(buffer) \cup Ids(file) \cup Ids(previous) \cup ChunkIds \cup GoneIds

\* All there are and were.
Entries == gone \cup InMemory \cup EntriesOf(file) \cup EntriesOf(previous)

\* The markers of overflows.
Markers == {e \in Entries : e.drops # 0}

\* What was refused and not forgotten with a process is announced by a marker, each flush
\* having made one at most, or counted by the buffer, which has no marker.
Announcing ==
    /\ IsFiniteSet(gone)
    /\ \A e \in Markers : e.flush <= flushes
    /\ \A e \in EntriesOf(buffer) : e.drops = 0
    /\ refused = dropped + Drops(Markers)

-----------------------------------------------------------------------------
(* The lines of a sequence *)

\* What a sequence of entries holds.
LEMMA LinesOf ==
    ASSUME NEW s \in Seq(Entry)
    PROVE  /\ Len(s) \in Nat /\ DOMAIN s = 1 .. Len(s)
           /\ \A i \in DOMAIN s : s[i] \in Entry /\ s[i] \in EntriesOf(s)
           /\ \A i \in DOMAIN s : s[i].id # 0 => s[i].id \in Ids(s)
           /\ \A id \in Ids(s) : id \in Nat \ {0} /\ \E i \in DOMAIN s : s[i].id = id
<1>1. Len(s) \in Nat /\ DOMAIN s = 1 .. Len(s) /\ \A i \in DOMAIN s : s[i] \in Entry
  BY LenProperties, ElementOfSeq
<1>2. \A i \in DOMAIN s : s[i].id \in Nat /\ s[i] \in EntriesOf(s)
  BY <1>1 DEF Entry, EntriesOf
<1>3. \A i \in DOMAIN s : s[i].id # 0 => s[i].id \in Ids(s)
  BY DEF Ids
<1>4. \A id \in Ids(s) : id # 0 /\ \E i \in DOMAIN s : s[i].id = id
  BY DEF Ids
<1>5. QED
  BY <1>1, <1>2, <1>3, <1>4

\* It is finite.
LEMMA FiniteEntries ==
    ASSUME NEW s \in Seq(Entry)
    PROVE  IsFiniteSet(EntriesOf(s))
<1> DEFINE n == Len(s)
           f == [i \in 1 .. n |-> s[i]]
           E == EntriesOf(s)
<1>1. n \in Nat /\ E = {s[i] : i \in 1 .. n}
  BY LenProperties DEF EntriesOf
<1> HIDE DEF n, E
<1>2. f \in Surjection(1 .. n, E)
  BY <1>1 DEF Surjection
<1>3. IsFiniteSet(1 .. n)
  <2>1. 1 \in Int /\ n \in Int
    BY <1>1
  <2>2. QED
    BY <2>1, FS_Interval
<1> HIDE DEF f
<1>4. IsFiniteSet(E)
  BY <1>2, <1>3, FS_Surjection
<1>5. QED
  BY <1>4 DEF E

\* Two sequences without a line in common, one behind the other.
LEMMA JoinedLines ==
    ASSUME NEW s \in Seq(Entry), NEW r \in Seq(Entry), OnceIn(s), OnceIn(r), Ids(s) \cap Ids(r) = {}
    PROVE  /\ OnceIn(s \o r) /\ Ids(s \o r) = Ids(s) \cup Ids(r)
           /\ EntriesOf(s \o r) = EntriesOf(s) \cup EntriesOf(r)
<1> DEFINE q == s \o r
           m == Len(s)
           n == Len(r)
<1>1. /\ m \in Nat /\ n \in Nat /\ DOMAIN s = 1 .. m /\ DOMAIN r = 1 .. n /\ DOMAIN q = 1 .. m + n
      /\ \A i \in 1 .. m + n : q[i] = IF i <= m THEN s[i] ELSE r[i - m]
  BY JoinedEntries
<1> HIDE DEF q, m, n
<1>2. /\ \A i \in DOMAIN q : (i \in DOMAIN s /\ q[i] = s[i]) \/ (i - m \in DOMAIN r /\ i > m /\ q[i] = r[i - m])
      /\ \A i \in DOMAIN s : i \in DOMAIN q /\ q[i] = s[i]
      /\ \A i \in DOMAIN r : i + m \in DOMAIN q /\ q[i + m] = r[i]
  <2>1. ASSUME NEW i \in DOMAIN q
        PROVE  (i \in DOMAIN s /\ q[i] = s[i]) \/ (i - m \in DOMAIN r /\ i > m /\ q[i] = r[i - m])
    BY <1>1
  <2>2. ASSUME NEW i \in DOMAIN s PROVE i \in DOMAIN q /\ q[i] = s[i]
    BY <1>1
  <2>3. ASSUME NEW i \in DOMAIN r PROVE i + m \in DOMAIN q /\ q[i + m] = r[i]
    <3>1. i + m \in 1 .. m + n /\ ~ (i + m <= m) /\ (i + m) - m = i
      BY <1>1
    <3>2. QED
      BY <1>1, <3>1
  <2>4. QED
    BY <2>1, <2>2, <2>3
<1>3. EntriesOf(q) = EntriesOf(s) \cup EntriesOf(r)
  <2>1. ASSUME NEW i \in DOMAIN q PROVE q[i] \in EntriesOf(s) \cup EntriesOf(r)
    BY <1>2 DEF EntriesOf
  <2>2. ASSUME NEW i \in DOMAIN s PROVE s[i] \in EntriesOf(q)
    BY <1>2 DEF EntriesOf
  <2>3. ASSUME NEW i \in DOMAIN r PROVE r[i] \in EntriesOf(q)
    <3>1. i + m \in DOMAIN q /\ q[i + m] = r[i]
      BY <1>2
    <3>2. QED
      BY <3>1 DEF EntriesOf
  <2>4. QED
    BY <2>1, <2>2, <2>3 DEF EntriesOf
<1>4. \A t : Ids(t) = {e.id : e \in EntriesOf(t)} \ {0}
  BY DEF Ids, EntriesOf
<1>5. Ids(q) = Ids(s) \cup Ids(r)
  BY <1>3, <1>4
<1>6. ASSUME NEW i \in DOMAIN q, NEW j \in DOMAIN q, q[i].id = q[j].id, q[i].id # 0
      PROVE  i = j
  <2>1. CASE i \in DOMAIN s /\ q[i] = s[i]
    <3>1. CASE j \in DOMAIN s /\ q[j] = s[j]
      BY <1>6, <2>1, <3>1 DEF OnceIn
    <3>2. CASE j - m \in DOMAIN r /\ q[j] = r[j - m]
      BY <1>6, <2>1, <3>2, LinesOf
    <3>3. QED
      BY <1>2, <3>1, <3>2
  <2>2. CASE i - m \in DOMAIN r /\ q[i] = r[i - m]
    <3>1. CASE j \in DOMAIN s /\ q[j] = s[j]
      BY <1>6, <2>2, <3>1, LinesOf
    <3>2. CASE j - m \in DOMAIN r /\ q[j] = r[j - m]
      <4>1. i - m = j - m
        BY <1>6, <2>2, <3>2 DEF OnceIn
      <4>2. QED
        BY <1>1, <4>1
    <3>3. QED
      BY <1>2, <3>1, <3>2
  <2>3. QED
    BY <1>2, <2>1, <2>2
<1>7. OnceIn(q)
  BY <1>6 DEF OnceIn
<1>8. QED
  BY <1>3, <1>5, <1>7 DEF q

\* A stretch of a sequence.
LEMMA CutLines ==
    ASSUME NEW s \in Seq(Entry), NEW r \in Seq(Entry), OnceIn(s), NEW k \in 0 .. Len(s),
           Len(r) <= Len(s) - k, \A i \in 1 .. Len(r) : r[i] = s[i + k]
    PROVE  /\ OnceIn(r) /\ EntriesOf(r) \subseteq EntriesOf(s) /\ Ids(r) \subseteq Ids(s)
           /\ {e.id : e \in EntriesOf(s) \ EntriesOf(r)} \ {0} = Ids(s) \ Ids(r)
<1>1. /\ Len(s) \in Nat /\ DOMAIN s = 1 .. Len(s) /\ Len(r) \in Nat /\ DOMAIN r = 1 .. Len(r)
      /\ \A i \in DOMAIN r : i + k \in DOMAIN s /\ r[i] = s[i + k]
  BY LenProperties
<1>2. EntriesOf(r) \subseteq EntriesOf(s)
  BY <1>1 DEF EntriesOf
<1>3. \A t : Ids(t) = {e.id : e \in EntriesOf(t)} \ {0}
  BY DEF Ids, EntriesOf
<1>4. Ids(r) \subseteq Ids(s)
  BY <1>2, <1>3
<1>5. ASSUME NEW i \in DOMAIN r, NEW j \in DOMAIN r, r[i].id = r[j].id, r[i].id # 0 PROVE i = j
  <2>1. i + k = j + k
    BY <1>1, <1>5 DEF OnceIn
  <2>2. QED
    BY <1>1, <2>1
<1>6. ASSUME NEW e \in EntriesOf(s), NEW f \in EntriesOf(r), e.id = f.id, e.id # 0 PROVE e = f
  <2>1. PICK i \in DOMAIN s : e = s[i]
    BY DEF EntriesOf
  <2>2. PICK j \in DOMAIN s : f = s[j]
    BY <1>2 DEF EntriesOf
  <2>3. QED
    BY <1>6, <2>1, <2>2 DEF OnceIn
<1>7. {e.id : e \in EntriesOf(s) \ EntriesOf(r)} \ {0} = Ids(s) \ Ids(r)
  <2>1. ASSUME NEW e \in EntriesOf(s), e.id # 0
        PROVE  e.id \in Ids(r) <=> e \in EntriesOf(r)
    BY <1>3, <1>6, <2>1
  <2>2. QED
    BY <1>3, <2>1
<1>8. QED
  BY <1>2, <1>4, <1>5, <1>7 DEF OnceIn

-----------------------------------------------------------------------------
(* Where the lines are: every step *)

\* Nothing moves.
LEMMA PlacesRest ==
    ASSUME InOnePlace, UNCHANGED <<buffer, file, previous, chunk, gone, accepted>>
    PROVE  InOnePlace'
<1>1. /\ Ids(buffer') = Ids(buffer) /\ Ids(file') = Ids(file) /\ Ids(previous') = Ids(previous)
      /\ GoneIds' = GoneIds /\ ChunkIds' = ChunkIds /\ (1 .. accepted)' = 1 .. accepted
      /\ chunk' = chunk
  BY DEF GoneIds, ChunkIds
<1>2. /\ OnceIn(buffer') = OnceIn(buffer) /\ OnceIn(file') = OnceIn(file)
      /\ OnceIn(previous') = OnceIn(previous)
  OBVIOUS
<1>3. OnceIn(buffer') /\ OnceIn(file') /\ OnceIn(previous') /\ \A t \in Threads : OnceIn(chunk'[t])
  BY <1>1, <1>2 DEF InOnePlace
<1>4. QED
  BY <1>1, <1>3 DEF InOnePlace

\* append.
LEMMA AppendPlaces ==
    ASSUME LogTypes, InOnePlace, NEW n \in 1 .. 2, AppendLines(n)
    PROVE  InOnePlace'
<1> DEFINE new == [i \in 1 .. n |-> [id |-> accepted + i, drops |-> 0, flush |-> 0]]
<1>1. buffer \in Seq(Entry) /\ accepted \in Nat /\ UNCHANGED <<chunk, file, previous, gone>>
  BY DEF LogTypes, LogTypeOK, AppendLines
<1>2. CASE UNCHANGED <<buffer, accepted>>
  BY <1>1, <1>2, PlacesRest
<1>3. CASE buffer' = buffer \o new /\ accepted' = accepted + n
  <2>1. new \in Seq(Entry) /\ DOMAIN new = 1 .. n /\ \A i \in 1 .. n : new[i].id = accepted + i
    <3>1. \A i \in 1 .. n : [id |-> accepted + i, drops |-> 0, flush |-> 0] \in Entry
      BY <1>1 DEF Entry
    <3>2. QED
      BY <3>1
  <2> HIDE DEF new
  <2>2. OnceIn(new)
    BY <1>1, <2>1 DEF OnceIn
  <2>3. Ids(new) = accepted + 1 .. accepted + n
    <3>1. ASSUME NEW id \in accepted + 1 .. accepted + n PROVE id \in Ids(new)
      <4>1. id - accepted \in 1 .. n /\ new[id - accepted].id = id /\ id # 0
        BY <1>1, <2>1
      <4>2. QED
        BY <2>1, <4>1 DEF Ids
    <3>2. ASSUME NEW id \in Ids(new) PROVE id \in accepted + 1 .. accepted + n
      BY <1>1, <2>1, <3>2 DEF Ids
    <3>3. QED
      BY <3>1, <3>2
  <2>4. /\ 1 .. accepted' = (1 .. accepted) \cup (accepted + 1 .. accepted + n)
        /\ (1 .. accepted) \cap (accepted + 1 .. accepted + n) = {}
    BY <1>1, <1>3
  <2>5. Ids(buffer) \subseteq 1 .. accepted
    BY DEF InOnePlace
  <2>6. OnceIn(buffer') /\ Ids(buffer') = Ids(buffer) \cup Ids(new)
    <3>1. Ids(buffer) \cap Ids(new) = {} /\ OnceIn(buffer)
      BY <2>3, <2>4, <2>5 DEF InOnePlace
    <3>2. QED
      BY <1>1, <1>3, <2>1, <2>2, <3>1, JoinedLines
  <2>7. /\ Ids(file)' = Ids(file) /\ Ids(previous)' = Ids(previous)
        /\ ChunkIds' = ChunkIds /\ GoneIds' = GoneIds
        /\ \A t \in Threads : Ids(chunk'[t]) = Ids(chunk[t]) /\ OnceIn(chunk'[t]) = OnceIn(chunk[t])
        /\ OnceIn(file)' = OnceIn(file) /\ OnceIn(previous)' = OnceIn(previous)
    BY <1>1 DEF ChunkIds, GoneIds, Ids, OnceIn
  <2> DEFINE old == 1 .. accepted
             more == accepted + 1 .. accepted + n
  <2>8. /\ 1 .. accepted' = old \cup more /\ old \cap more = {} /\ Ids(buffer') = Ids(buffer) \cup more
        /\ old = Ids(buffer) \cup Ids(file) \cup Ids(previous) \cup ChunkIds \cup GoneIds
    BY <2>3, <2>4, <2>6 DEF InOnePlace
  <2> HIDE DEF old, more
  <2>9. QED
    BY <2>6, <2>7, <2>8 DEF InOnePlace
<1>4. QED
  <2>1. UNCHANGED <<buffer, accepted>> \/ (buffer' = buffer \o new /\ accepted' = accepted + n)
    BY DEF AppendLines
  <2>2. QED
    BY <1>2, <1>3, <2>1

\* take_pending.
LEMMA TakePlaces ==
    ASSUME LogTypes, InOnePlace, NEW t \in Threads, chunk[t] = <<>>, TakePending(t), buffer # <<>>
    PROVE  InOnePlace'
<1>1. /\ buffer' = <<>> /\ \A u \in Threads \ {t} : chunk'[u] = chunk[u]
      /\ DOMAIN chunk'[t] = DOMAIN Taken /\ \A i \in DOMAIN Taken : chunk'[t][i].id = Taken[i].id
      /\ UNCHANGED <<file, previous, accepted>>
  BY TakeTypes
<1>2. UNCHANGED gone
  BY DEF TakePending
<1>3. buffer \in Seq(Entry) /\ Marker \in Seq(Entry) /\ \A i \in DOMAIN Marker : Marker[i].id = 0
  BY TakenEntries DEF LogTypes, LogTypeOK
<1>4. OnceIn(Taken) /\ Ids(Taken) = Ids(buffer)
  <2>1. OnceIn(Marker) /\ Ids(Marker) = {}
    BY <1>3 DEF OnceIn, Ids
  <2>2. OnceIn(buffer)
    BY DEF InOnePlace
  <2>3. Ids(buffer) \cap Ids(Marker) = {}
    BY <2>1
  <2> DEFINE m == Marker
  <2>4. OnceIn(buffer \o m) /\ Ids(buffer \o m) = Ids(buffer) \cup Ids(m)
    <3>1. m \in Seq(Entry) /\ OnceIn(m) /\ Ids(buffer) \cap Ids(m) = {}
      BY <1>3, <2>1, <2>3
    <3> HIDE DEF m
    <3>2. QED
      BY <1>3, <2>2, <3>1, JoinedLines
  <2>5. QED
    BY <2>1, <2>4 DEF Taken
<1>5. OnceIn(chunk'[t]) /\ Ids(chunk'[t]) = Ids(buffer)
  <2> DEFINE c == chunk'[t]
             d == Taken
  <2>1. DOMAIN c = DOMAIN d /\ (\A i \in DOMAIN d : c[i].id = d[i].id) /\ OnceIn(d) /\ Ids(d) = Ids(buffer)
    BY <1>1, <1>4
  <2> HIDE DEF c, d
  <2>2. OnceIn(c)
    BY <2>1 DEF OnceIn
  <2>3. Ids(c) = Ids(d)
    BY <2>1 DEF Ids
  <2>4. QED
    BY <2>1, <2>2, <2>3 DEF c
<1>6. Ids(buffer') = {} /\ OnceIn(buffer') /\ Ids(chunk[t]) = {}
  BY <1>1 DEF Ids, OnceIn
<1>7. /\ Ids(file)' = Ids(file) /\ Ids(previous)' = Ids(previous) /\ GoneIds' = GoneIds
      /\ \A u \in Threads \ {t} : Ids(chunk'[u]) = Ids(chunk[u]) /\ (OnceIn(chunk[u]) => OnceIn(chunk'[u]))
      /\ (OnceIn(file) => OnceIn(file)') /\ (OnceIn(previous) => OnceIn(previous)')
  BY <1>1, <1>2 DEF GoneIds, Ids, OnceIn
<1>8. ChunkIds' = ChunkIds \cup Ids(buffer)
  BY <1>5, <1>6, <1>7 DEF ChunkIds
<1>9. \A u \in Threads : Ids(chunk[u]) \subseteq ChunkIds
  BY DEF ChunkIds
<1>10. \A u, v \in Threads : u # v => Ids(chunk'[u]) \cap Ids(chunk'[v]) = {}
  BY <1>5, <1>7, <1>9 DEF InOnePlace
<1>11. QED
  BY <1>1, <1>5, <1>6, <1>7, <1>8, <1>10 DEF InOnePlace

\* write_chunk, whether the bytes get there or not: what was in the file and the chunk is in the file
\* or gone.
LEMMA WriteMoves ==
    ASSUME LogTypes, InOnePlace, NEW t \in Threads,
           WriteChunk(t) \/ WriteFails(t)
    PROVE  /\ OnceIn(file') /\ Ids(file') \subseteq Ids(file) \cup Ids(chunk[t])
           /\ GoneIds' = GoneIds \cup ((Ids(file) \cup Ids(chunk[t])) \ Ids(file'))
           /\ EntriesOf(file') \subseteq EntriesOf(file) \cup EntriesOf(chunk[t])
           /\ gone' = gone \cup ((EntriesOf(file) \cup EntriesOf(chunk[t])) \ EntriesOf(file'))
<1> DEFINE all == file \o chunk[t]
<1>1. /\ chunk[t] \in Seq(Entry) /\ file \in Seq(Entry) /\ file' \in Seq(Entry)
      /\ OnceIn(file) /\ OnceIn(chunk[t]) /\ Ids(file) \cap Ids(chunk[t]) = {}
  BY WriteTypes DEF LogTypes, LogTypeOK, InOnePlace, ChunkIds
<1>2. /\ OnceIn(all) /\ Ids(all) = Ids(file) \cup Ids(chunk[t])
      /\ EntriesOf(all) = EntriesOf(file) \cup EntriesOf(chunk[t])
      /\ all \in Seq(Entry)
  <2> DEFINE c == chunk[t]
  <2>1. c \in Seq(Entry) /\ OnceIn(c) /\ Ids(file) \cap Ids(c) = {}
    BY <1>1
  <2> HIDE DEF c
  <2>2. /\ OnceIn(file \o c) /\ Ids(file \o c) = Ids(file) \cup Ids(c)
        /\ EntriesOf(file \o c) = EntriesOf(file) \cup EntriesOf(c)
        /\ file \o c \in Seq(Entry)
    BY <1>1, <2>1, JoinedLines, JoinedEntries
  <2>3. QED
    BY <2>2 DEF c
<1>3. Stretch(file', all) /\ gone' = gone \cup (EntriesOf(all) \ EntriesOf(file'))
  BY WriteTypes
<1> DEFINE r == file'
<1>4. /\ OnceIn(r) /\ EntriesOf(r) \subseteq EntriesOf(all) /\ Ids(r) \subseteq Ids(all)
      /\ {e.id : e \in EntriesOf(all) \ EntriesOf(r)} \ {0} = Ids(all) \ Ids(r)
  <2>1. r \in Seq(Entry) /\ \E k \in 0 .. Len(all) : /\ Len(r) <= Len(all) - k
                                                     /\ \A i \in 1 .. Len(r) : r[i] = all[i + k]
    BY <1>1, <1>3 DEF Stretch
  <2> HIDE DEF r, all
  <2>2. QED
    BY <1>2, <2>1, CutLines
<1>5. GoneIds' = GoneIds \cup ({e.id : e \in EntriesOf(all) \ EntriesOf(r)} \ {0})
  <2> HIDE DEF all
  <2>1. gone' = gone \cup (EntriesOf(all) \ EntriesOf(r))
    BY <1>3
  <2>2. QED
    BY <2>1 DEF GoneIds
<1> HIDE DEF all
<1>6. QED
  BY <1>2, <1>3, <1>4, <1>5

\* The lines of the places, in that step.
LEMMA WritePlaces ==
    ASSUME LogTypes, InOnePlace, NEW t \in Threads,
           WriteChunk(t) \/ WriteFails(t)
    PROVE  InOnePlace'
<1>1. chunk \in [Threads -> Seq(Entry)]
  BY DEF LogTypes, LogTypeOK
<1>2. chunk' = [chunk EXCEPT ![t] = <<>>] /\ UNCHANGED <<buffer, previous, accepted>>
  BY WriteTypes
<1>3. chunk'[t] = <<>> /\ \A u \in Threads \ {t} : chunk'[u] = chunk[u]
  BY <1>1, <1>2
<1>4. Ids(<<>>) = {} /\ OnceIn(<<>>)
  BY DEF Ids, OnceIn
<1>5. /\ Ids(chunk'[t]) = {} /\ OnceIn(chunk'[t])
      /\ \A u \in Threads \ {t} : Ids(chunk'[u]) = Ids(chunk[u]) /\ (OnceIn(chunk[u]) => OnceIn(chunk'[u]))
  BY <1>3, <1>4
<1>6. /\ OnceIn(file') /\ Ids(file') \subseteq Ids(file) \cup Ids(chunk[t])
      /\ GoneIds' = GoneIds \cup ((Ids(file) \cup Ids(chunk[t])) \ Ids(file'))
  BY WriteMoves
<1>7. ChunkIds = Ids(chunk[t]) \cup ChunkIds' /\ Ids(chunk[t]) \cap ChunkIds' = {}
  BY <1>5 DEF ChunkIds, InOnePlace
<1>8. Ids(buffer') = Ids(buffer) /\ Ids(previous') = Ids(previous) /\ (1 .. accepted)' = 1 .. accepted
  BY <1>2
<1>9. OnceIn(buffer') /\ OnceIn(previous') /\ \A u \in Threads : OnceIn(chunk'[u])
  <2>1. OnceIn(buffer') = OnceIn(buffer) /\ OnceIn(previous') = OnceIn(previous)
    BY <1>2
  <2>2. QED
    BY <1>5, <2>1 DEF InOnePlace
<1>10. \A u, v \in Threads : u # v => Ids(chunk'[u]) \cap Ids(chunk'[v]) = {}
  BY <1>5 DEF InOnePlace
<1> DEFINE b == Ids(buffer)
           f == Ids(file)
           p == Ids(previous)
           c == ChunkIds
           d == ChunkIds'
           g == GoneIds
           x == Ids(chunk[t])
           y == Ids(file')
           h == GoneIds'
<1>11. /\ b \cap (f \cup p \cup c \cup g) = {} /\ f \cap (p \cup c \cup g) = {}
       /\ p \cap (c \cup g) = {} /\ c \cap g = {}
       /\ 1 .. accepted = b \cup f \cup p \cup c \cup g
       /\ y \subseteq f \cup x /\ h = g \cup ((f \cup x) \ y) /\ c = x \cup d /\ x \cap d = {}
  BY <1>6, <1>7 DEF InOnePlace
<1>12. /\ b \cap (y \cup p \cup d \cup h) = {} /\ y \cap (p \cup d \cup h) = {}
       /\ p \cap (d \cup h) = {} /\ d \cap h = {}
       /\ 1 .. accepted = b \cup y \cup p \cup d \cup h
  <2> DEFINE all == 1 .. accepted
  <2>1. all = b \cup f \cup p \cup c \cup g
    BY <1>11
  <2> HIDE DEF b, f, p, c, d, g, x, y, h, all
  <2>2. b \cap (y \cup p \cup d \cup h) = {}
    BY <1>11
  <2>3. y \cap (p \cup d \cup h) = {}
    BY <1>11
  <2>4. p \cap (d \cup h) = {} /\ d \cap h = {}
    BY <1>11
  <2>5. all = b \cup y \cup p \cup d \cup h
    BY <1>11, <2>1
  <2>6. QED
    BY <2>2, <2>3, <2>4, <2>5 DEF all
<1>13. QED
  BY <1>6, <1>8, <1>9, <1>10, <1>12 DEF InOnePlace

\* The process ends, and the next session rotates the log.
LEMMA RotatePlaces ==
    ASSUME LogTypes, InOnePlace, NEW moved \in BOOLEAN, NEW torn \in BOOLEAN, Rotate(moved, torn)
    PROVE  InOnePlace'
<1>1. /\ buffer' = <<>> /\ chunk' = [t \in Threads |-> <<>>] /\ UNCHANGED accepted
      /\ previous' = IF moved THEN IF torn THEN <<>> ELSE file ELSE <<>>
      /\ file' = IF moved THEN <<>> ELSE IF torn THEN <<>> ELSE file
      /\ gone' = gone \cup InMemory \cup EntriesOf(previous)
                        \cup (IF torn THEN EntriesOf(file) ELSE {})
  BY DEF Rotate
<1>2. Ids(<<>>) = {} /\ OnceIn(<<>>)
  BY DEF Ids, OnceIn
<1>3. Ids(buffer') = {} /\ ChunkIds' = {} /\ OnceIn(buffer')
      /\ \A t \in Threads : Ids(chunk'[t]) = {} /\ OnceIn(chunk'[t])
  BY <1>1, <1>2 DEF ChunkIds
<1>4. OnceIn(file') /\ OnceIn(previous')
  BY <1>1, <1>2 DEF InOnePlace
<1>5. \A s : Ids(s) = {e.id : e \in EntriesOf(s)} \ {0}
  BY DEF Ids, EntriesOf
<1>6. {e.id : e \in InMemory} \ {0} = Ids(buffer) \cup ChunkIds
  <2> HIDE DEF InMemory
  <2>1. ASSUME NEW e \in InMemory, e.id # 0 PROVE e.id \in Ids(buffer) \cup ChunkIds
    BY <1>5, <2>1 DEF InMemory, ChunkIds
  <2>2. ASSUME NEW id \in Ids(buffer) PROVE id \in {e.id : e \in InMemory} \ {0}
    BY <1>5, <2>2 DEF InMemory
  <2>3. ASSUME NEW t \in Threads, NEW id \in Ids(chunk[t]) PROVE id \in {e.id : e \in InMemory} \ {0}
    <3>1. PICK e \in EntriesOf(chunk[t]) : e.id = id /\ id # 0
      BY <1>5
    <3>2. e \in InMemory
      BY <3>1 DEF InMemory
    <3>3. QED
      BY <3>1, <3>2
  <2>4. QED
    BY <2>1, <2>2, <2>3 DEF ChunkIds
<1>7. GoneIds' = GoneIds \cup Ids(buffer) \cup ChunkIds \cup Ids(previous) \cup (IF torn THEN Ids(file) ELSE {})
  <2> HIDE DEF InMemory
  <2>1. CASE torn
    BY <1>1, <1>5, <1>6, <2>1 DEF GoneIds
  <2>2. CASE ~ torn
    BY <1>1, <1>5, <1>6, <2>2 DEF GoneIds
  <2>3. QED
    BY <2>1, <2>2
<1>8. /\ Ids(previous') \cap Ids(file') = {}
      /\ Ids(previous') \cup Ids(file') = IF torn THEN {} ELSE Ids(file)
  BY <1>1, <1>2
<1>9. (1 .. accepted)' = 1 .. accepted
  BY <1>1
<1>10. /\ Ids(file') \cap GoneIds' = {} /\ Ids(previous') \cap GoneIds' = {}
       /\ 1 .. accepted = Ids(file') \cup Ids(previous') \cup GoneIds'
  <2> DEFINE all == 1 .. accepted
  <2>1. all = Ids(buffer) \cup Ids(file) \cup Ids(previous) \cup ChunkIds \cup GoneIds
    BY DEF InOnePlace
  <2> HIDE DEF all
  <2>2. Ids(file) \cap (GoneIds \cup Ids(buffer) \cup ChunkIds \cup Ids(previous)) = {}
    BY DEF InOnePlace
  <2>3. CASE torn
    BY <1>7, <1>8, <2>1, <2>3 DEF all
  <2>4. CASE ~ torn
    BY <1>7, <1>8, <2>1, <2>2, <2>4 DEF all
  <2>5. QED
    BY <2>3, <2>4
<1>11. QED
  BY <1>3, <1>4, <1>8, <1>9, <1>10 DEF InOnePlace

-----------------------------------------------------------------------------
(* What the markers announce: every step *)

\* There are finitely many entries, and each counts.
LEMMA EntriesCounted ==
    ASSUME LogTypes, IsFiniteSet(gone)
    PROVE  Counted(Entries) /\ Counted(Markers) /\ Drops(Entries) = Drops(Markers)
<1>1. /\ buffer \in Seq(Entry) /\ file \in Seq(Entry) /\ previous \in Seq(Entry)
      /\ \A t \in Threads : chunk[t] \in Seq(Entry)
      /\ gone \subseteq Entry
  BY DEF LogTypes, LogTypeOK
<1>2. /\ IsFiniteSet(EntriesOf(buffer)) /\ IsFiniteSet(EntriesOf(file)) /\ IsFiniteSet(EntriesOf(previous))
      /\ \A t \in Threads : IsFiniteSet(EntriesOf(chunk[t]))
  BY <1>1, FiniteEntries
<1>3. IsFiniteSet(UNION {EntriesOf(chunk[t]) : t \in Threads})
  <2> DEFINE C == {EntriesOf(chunk[t]) : t \in Threads}
             f == [t \in Threads |-> EntriesOf(chunk[t])]
  <2>1. f \in Surjection(Threads, C)
    BY DEF Surjection
  <2>2. \A c \in C : IsFiniteSet(c)
    BY <1>2
  <2>3. IsFiniteSet(Threads)
    BY CaptureAssumption
  <2> HIDE DEF C, f
  <2>4. IsFiniteSet(C)
    BY <2>1, <2>3, FS_Surjection
  <2>5. IsFiniteSet(UNION C)
    BY <2>2, <2>4, FS_UNION
  <2>6. QED
    BY <2>5 DEF C
<1>4. IsFiniteSet(Entries)
  <2>1. IsFiniteSet(InMemory)
    BY <1>2, <1>3, FS_Union DEF InMemory
  <2> HIDE DEF InMemory
  <2>2. IsFiniteSet(gone \cup InMemory)
    BY <2>1, FS_Union
  <2>3. IsFiniteSet(gone \cup InMemory \cup EntriesOf(file))
    BY <1>2, <2>2, FS_Union
  <2>4. QED
    BY <1>2, <2>3, FS_Union DEF Entries
<1>5. Entries \subseteq Entry
  <2>1. /\ EntriesOf(buffer) \subseteq Entry /\ EntriesOf(file) \subseteq Entry
        /\ EntriesOf(previous) \subseteq Entry /\ \A t \in Threads : EntriesOf(chunk[t]) \subseteq Entry
    BY <1>1, EntriesTyped
  <2>2. QED
    BY <1>1, <2>1 DEF Entries, InMemory
<1>6. Counted(Entries)
  BY <1>4, <1>5 DEF Counted, Entry
<1>7. QED
  BY <1>6, DropsOfMarkers DEF Markers

\* A step that makes no marker and forgets none.
LEMMA MarkersStay ==
    ASSUME Announcing, Markers' = Markers, IsFiniteSet(gone'), flushes \in Nat, flushes' \in Nat,
           flushes <= flushes', \A e \in EntriesOf(buffer') : e.drops = 0,
           \A e \in Markers : e.flush \in Nat,
           refused' = dropped' + Drops(Markers)
    PROVE  Announcing'
<1>1. \A e \in Markers : e.flush <= flushes'
  BY DEF Announcing
<1>2. Drops(Markers') = Drops(Markers)
  BY Zenon
<1>3. QED
  BY <1>1, <1>2 DEF Announcing

\* The markers are entries.
LEMMA MarkersTyped == ASSUME LogTypes, IsFiniteSet(gone) PROVE Markers \subseteq Entry
<1>1. /\ buffer \in Seq(Entry) /\ file \in Seq(Entry) /\ previous \in Seq(Entry)
      /\ \A t \in Threads : chunk[t] \in Seq(Entry)
      /\ gone \subseteq Entry
  BY DEF LogTypes, LogTypeOK
<1>2. /\ EntriesOf(buffer) \subseteq Entry /\ EntriesOf(file) \subseteq Entry
      /\ EntriesOf(previous) \subseteq Entry /\ \A t \in Threads : EntriesOf(chunk[t]) \subseteq Entry
  BY <1>1, EntriesTyped
<1>3. QED
  BY <1>1, <1>2 DEF Markers, Entries, InMemory

\* What two sequences have, one behind the other.
LEMMA JoinedSets ==
    ASSUME NEW s \in Seq(Entry), NEW r \in Seq(Entry)
    PROVE  EntriesOf(s \o r) = EntriesOf(s) \cup EntriesOf(r)
<1> DEFINE q == s \o r
           m == Len(s)
           n == Len(r)
<1>1. /\ m \in Nat /\ n \in Nat /\ DOMAIN s = 1 .. m /\ DOMAIN r = 1 .. n /\ DOMAIN q = 1 .. m + n
      /\ \A i \in 1 .. m + n : q[i] = IF i <= m THEN s[i] ELSE r[i - m]
  BY JoinedEntries
<1> HIDE DEF q, m, n
<1>2. ASSUME NEW i \in DOMAIN q PROVE q[i] \in EntriesOf(s) \cup EntriesOf(r)
  <2>1. (i \in DOMAIN s /\ q[i] = s[i]) \/ (i - m \in DOMAIN r /\ q[i] = r[i - m])
    BY <1>1
  <2>2. QED
    BY <2>1 DEF EntriesOf
<1>3. ASSUME NEW i \in DOMAIN s PROVE s[i] \in EntriesOf(q)
  <2>1. i \in DOMAIN q /\ q[i] = s[i]
    BY <1>1
  <2>2. QED
    BY <2>1 DEF EntriesOf
<1>4. ASSUME NEW i \in DOMAIN r PROVE r[i] \in EntriesOf(q)
  <2>1. i + m \in 1 .. m + n /\ ~ (i + m <= m) /\ (i + m) - m = i
    BY <1>1
  <2>2. i + m \in DOMAIN q /\ q[i + m] = r[i]
    BY <1>1, <2>1
  <2>3. QED
    BY <2>2 DEF EntriesOf
<1>5. EntriesOf(q) = EntriesOf(s) \cup EntriesOf(r)
  BY <1>2, <1>3, <1>4 DEF EntriesOf
<1>6. QED
  BY <1>5 DEF q

\* append.
LEMMA AppendAnnounces ==
    ASSUME LogTypes, Announcing, NEW n \in 1 .. 2, AppendLines(n)
    PROVE  Announcing'
<1> DEFINE new == [i \in 1 .. n |-> [id |-> accepted + i, drops |-> 0, flush |-> 0]]
<1>1. /\ buffer \in Seq(Entry) /\ accepted \in Nat /\ flushes \in Nat /\ dropped \in Nat /\ refused \in Nat
      /\ UNCHANGED <<chunk, file, previous, gone, flushes>>
      /\ \A e \in Markers : e.flush \in Nat
  BY MarkersTyped DEF LogTypes, LogTypeOK, AppendLines, Announcing, Entry
<1>2. refused = dropped + Drops(Markers) /\ Drops(Markers) \in Nat /\ IsFiniteSet(gone)
  BY EntriesCounted, DropsUnfold DEF Announcing
<1>3. CASE UNCHANGED buffer /\ dropped' = dropped + 1 /\ refused' = refused + 1
  <2>1. Markers' = Markers
    BY <1>1, <1>3 DEF Markers, Entries, InMemory
  <2>2. refused' = dropped' + Drops(Markers)
    <3> DEFINE d == Drops(Markers)
    <3>1. d \in Nat /\ refused = dropped + d
      BY <1>2
    <3> HIDE DEF d
    <3>2. refused' = dropped' + d
      BY <1>1, <1>3, <3>1
    <3>3. QED
      BY <3>2 DEF d
  <2>3. \A e \in EntriesOf(buffer') : e.drops = 0
    BY <1>3 DEF Announcing
  <2>4. QED
    BY <1>1, <1>2, <2>1, <2>2, <2>3, MarkersStay
<1>4. CASE buffer' = buffer \o new /\ UNCHANGED <<dropped, refused>>
  <2>1. new \in Seq(Entry)
    <3>1. \A i \in 1 .. n : [id |-> accepted + i, drops |-> 0, flush |-> 0] \in Entry
      BY <1>1 DEF Entry
    <3>2. QED
      BY <3>1
  <2>2. \A e \in EntriesOf(new) : e.drops = 0
    BY DEF EntriesOf
  <2> HIDE DEF new
  <2>3. EntriesOf(buffer') = EntriesOf(buffer) \cup EntriesOf(new)
    BY <1>1, <1>4, <2>1, JoinedSets
  <2>4. Entries' = Entries \cup EntriesOf(new)
    BY <1>1, <2>3 DEF Entries, InMemory
  <2>5. Markers' = Markers
    BY <2>2, <2>4 DEF Markers
  <2>6. \A e \in EntriesOf(buffer') : e.drops = 0
    BY <2>2, <2>3 DEF Announcing
  <2>7. QED
    BY <1>1, <1>2, <1>4, <2>5, <2>6, MarkersStay
<1>5. QED
  <2>1. \/ UNCHANGED buffer /\ dropped' = dropped + 1 /\ refused' = refused + 1
        \/ buffer' = buffer \o new /\ UNCHANGED <<dropped, refused>>
    BY DEF AppendLines
  <2>2. QED
    BY <1>3, <1>4, <2>1

\* take_pending makes the marker of what was refused since the last one.
LEMMA TakeAnnounces ==
    ASSUME LogTypes, Announcing, NEW t \in Threads, chunk[t] = <<>>, TakePending(t), buffer # <<>>
    PROVE  Announcing'
<1> DEFINE tagged == [i \in DOMAIN Taken |-> [Taken[i] EXCEPT !.flush = flushes + 1]]
           marker == [id |-> 0, drops |-> dropped, flush |-> flushes + 1]
           others == gone \cup EntriesOf(file) \cup EntriesOf(previous)
                     \cup UNION {EntriesOf(chunk[u]) : u \in Threads}
           stamped == {[e EXCEPT !.flush = flushes + 1] : e \in EntriesOf(buffer)}
<1>1. /\ buffer \in Seq(Entry) /\ chunk \in [Threads -> Seq(Entry)] /\ flushes \in Nat
      /\ dropped \in Nat /\ refused \in Nat /\ Markers \subseteq Entry
  BY MarkersTyped DEF LogTypes, LogTypeOK, Announcing
<1>2. /\ chunk' = [chunk EXCEPT ![t] = tagged]
      /\ buffer' = <<>> /\ dropped' = 0 /\ flushes' = flushes + 1
      /\ UNCHANGED <<file, previous, refused, gone>>
  BY DEF TakePending, Taken
<1>3. refused = dropped + Drops(Markers) /\ Counted(Markers) /\ IsFiniteSet(gone)
  BY EntriesCounted DEF Announcing
<1>4. EntriesOf(tagged) = {[e EXCEPT !.flush = flushes + 1] : e \in EntriesOf(Taken)}
  BY DEF EntriesOf
<1>5. EntriesOf(Taken) = EntriesOf(buffer) \cup EntriesOf(Marker)
  BY <1>1, TakenEntries, JoinedSets DEF Taken
<1>6. EntriesOf(Marker) = IF dropped > 0 THEN {[id |-> 0, drops |-> dropped, flush |-> 0]} ELSE {}
  BY DEF Marker, EntriesOf
<1>7. [[id |-> 0, drops |-> dropped, flush |-> 0] EXCEPT !.flush = flushes + 1] = marker
  OBVIOUS
<1>8. EntriesOf(tagged) = stamped \cup IF dropped > 0 THEN {marker} ELSE {}
  <2> HIDE DEF tagged, marker
  <2>1. CASE dropped > 0
    BY <1>4, <1>5, <1>6, <1>7, <2>1
  <2>2. CASE ~ dropped > 0
    BY <1>4, <1>5, <1>6, <2>2
  <2>3. QED
    BY <2>1, <2>2
<1>9. \A e \in stamped : e.drops = 0
  <2>1. ASSUME NEW e \in EntriesOf(buffer) PROVE [e EXCEPT !.flush = flushes + 1].drops = 0
    <3>1. e \in Entry /\ e.drops = 0
      BY <1>1, EntriesTyped DEF Announcing
    <3>2. [e EXCEPT !.flush = flushes + 1].drops = e.drops
      BY <3>1 DEF Entry
    <3>3. QED
      BY <3>1, <3>2
  <2>2. QED
    BY <2>1
<1>10. /\ EntriesOf(buffer') = {} /\ chunk'[t] = tagged
       /\ \A u \in Threads \ {t} : chunk'[u] = chunk[u]
       /\ EntriesOf(chunk[t]) = {}
  <2>1. EntriesOf(<<>>) = {}
    BY DEF EntriesOf
  <2> HIDE DEF tagged
  <2>2. QED
    BY <1>1, <1>2, <2>1
<1> HIDE DEF tagged, stamped
<1> DEFINE held == UNION {EntriesOf(chunk[u]) : u \in Threads}
           kept == UNION {EntriesOf(chunk'[u]) : u \in Threads}
           taken == EntriesOf(tagged)
<1>11. kept = held \cup taken
  <2>1. EntriesOf(chunk'[t]) = EntriesOf(tagged)
    BY <1>10, Zenon
  <2>2. ASSUME NEW u \in Threads \ {t} PROVE EntriesOf(chunk'[u]) = EntriesOf(chunk[u])
    <3>1. chunk'[u] = chunk[u]
      BY <1>10
    <3>2. QED
      BY <3>1, Zenon
  <2>3. ASSUME NEW e, NEW u \in Threads, e \in EntriesOf(chunk'[u])
        PROVE  e \in held \cup taken
    <3>1. CASE u = t
      <4>1. e \in EntriesOf(tagged)
        BY <2>1, <2>3, <3>1, Zenon
      <4> HIDE DEF held
      <4>2. QED
        BY <4>1
    <3>2. CASE u # t
      <4>1. e \in EntriesOf(chunk[u])
        BY <2>2, <2>3, <3>2, Zenon
      <4>2. QED
        BY <4>1, Zenon
    <3>3. QED
      BY <3>1, <3>2
  <2>4. ASSUME NEW e, NEW u \in Threads, e \in EntriesOf(chunk[u])
        PROVE  e \in kept
    <3>1. u \in Threads \ {t}
      BY <1>10, <2>4
    <3>2. QED
      BY <2>2, <2>4, <3>1
  <2>5. ASSUME NEW e \in taken PROVE e \in kept
    BY <2>1, Zenon
  <2>6. (\A e \in kept : e \in held \cup taken) /\ (\A e \in held : e \in kept) /\ \A e \in taken : e \in kept
    <3>1. ASSUME NEW e \in kept PROVE e \in held \cup taken
      <4>1. PICK u \in Threads : e \in EntriesOf(chunk'[u])
        BY Zenon
      <4> HIDE DEF held, taken
      <4>2. QED
        BY <2>3, <4>1
    <3>2. ASSUME NEW e \in held PROVE e \in kept
      <4>1. PICK u \in Threads : e \in EntriesOf(chunk[u])
        BY Zenon
      <4> HIDE DEF kept
      <4>2. QED
        BY <2>4, <4>1
    <3> HIDE DEF held, kept, taken
    <3>3. QED
      BY <2>5, <3>1, <3>2
  <2> HIDE DEF held, kept, taken
  <2>7. QED
    BY <2>6
<1>12. Entries' = others \cup EntriesOf(tagged)
  BY <1>2, <1>10, <1>11 DEF Entries, InMemory
<1>13. Entries = others \cup EntriesOf(buffer)
  BY DEF Entries, InMemory
<1> HIDE DEF marker, others
<1>14. \A e \in EntriesOf(buffer) : e.drops = 0
  BY DEF Announcing
<1>15. marker.drops = dropped /\ marker.flush = flushes + 1
  BY DEF marker
<1>16. Markers = {e \in others : e.drops # 0}
  BY <1>13, <1>14 DEF Markers
<1>17. CASE dropped > 0
  <2>1. Markers' = Markers \cup {marker}
    BY <1>8, <1>9, <1>12, <1>15, <1>16, <1>17, <1>1 DEF Markers
  <2>2. marker \notin Markers
    <3>1. \A e \in Markers : e.flush <= flushes /\ e.flush \in Nat
      BY <1>1 DEF Announcing, Entry
    <3>2. QED
      BY <1>1, <1>15, <3>1
  <2>3. Drops(Markers \cup {marker}) = Drops(Markers) + marker.drops
    BY <1>1, <1>3, <1>15, <2>2, DropsAdd
  <2>4. Drops(Markers') = Drops(Markers) + dropped
    BY <1>15, <2>1, <2>3, Zenon
  <2>5. refused' = dropped' + Drops(Markers')
    <3> DEFINE a == Drops(Markers)
               b == Drops(Markers')
    <3>1. a \in Nat /\ refused = dropped + a /\ b = a + dropped
      BY <1>3, <2>4, DropsUnfold
    <3> HIDE DEF a, b
    <3>2. refused' = dropped' + b
      BY <1>1, <1>2, <3>1
    <3>3. QED
      BY <3>2 DEF b
  <2>6. \A e \in Markers' : e.flush <= flushes'
    <3>1. \A e \in Markers : e.flush <= flushes /\ e.flush \in Nat
      BY <1>1 DEF Announcing, Entry
    <3>2. QED
      BY <1>1, <1>2, <1>15, <2>1, <3>1
  <2>7. IsFiniteSet(gone')
    BY <1>2, <1>3
  <2>8. QED
    BY <1>10, <2>5, <2>6, <2>7 DEF Announcing
<1>18. CASE ~ dropped > 0
  <2>1. Markers' = Markers
    BY <1>8, <1>9, <1>12, <1>16, <1>18 DEF Markers
  <2>2. refused' = dropped' + Drops(Markers) /\ flushes' \in Nat /\ flushes <= flushes'
    BY <1>1, <1>2, <1>3, <1>18
  <2>3. \A e \in Markers : e.flush \in Nat
    BY <1>1 DEF Entry
  <2>4. IsFiniteSet(gone')
    BY <1>2, <1>3
  <2>5. QED
    BY <1>1, <1>10, <2>1, <2>2, <2>3, <2>4, MarkersStay
<1>19. QED
  BY <1>17, <1>18

\* write_chunk moves markers, and neither makes one nor forgets one.
LEMMA WriteAnnounces ==
    ASSUME LogTypes, InOnePlace, Announcing, NEW t \in Threads,
           WriteChunk(t) \/ WriteFails(t)
    PROVE  Announcing'
<1>1. /\ chunk \in [Threads -> Seq(Entry)] /\ file \in Seq(Entry)
      /\ flushes \in Nat /\ IsFiniteSet(gone)
      /\ \A e \in Markers : e.flush \in Nat
  BY MarkersTyped DEF LogTypes, LogTypeOK, Announcing, Entry
<1>2. /\ chunk' = [chunk EXCEPT ![t] = <<>>]
      /\ UNCHANGED <<buffer, dropped, previous, refused, flushes>>
  BY WriteTypes
<1>3. /\ EntriesOf(file') \subseteq EntriesOf(file) \cup EntriesOf(chunk[t])
      /\ gone' = gone \cup ((EntriesOf(file) \cup EntriesOf(chunk[t])) \ EntriesOf(file'))
  BY WriteMoves
<1>4. EntriesOf(chunk'[t]) = {} /\ \A u \in Threads \ {t} : EntriesOf(chunk'[u]) = EntriesOf(chunk[u])
  <2>1. chunk'[t] = <<>> /\ \A u \in Threads \ {t} : chunk'[u] = chunk[u]
    BY <1>1, <1>2
  <2>2. EntriesOf(<<>>) = {}
    BY DEF EntriesOf
  <2>3. QED
    BY <2>1, <2>2, Zenon
<1> DEFINE held == UNION {EntriesOf(chunk[u]) : u \in Threads}
           kept == UNION {EntriesOf(chunk'[u]) : u \in Threads}
<1>5. held = EntriesOf(chunk[t]) \cup kept
  <2>1. ASSUME NEW e, e \in held PROVE e \in EntriesOf(chunk[t]) \cup kept
    <3>1. PICK u \in Threads : e \in EntriesOf(chunk[u])
      BY <2>1, Zenon
    <3>2. CASE u = t
      BY <3>1, <3>2, Zenon
    <3>3. CASE u # t
      <4>1. e \in EntriesOf(chunk'[u])
        BY <1>4, <3>1, <3>3, Zenon
      <4>2. QED
        BY <4>1, Zenon
    <3>4. QED
      BY <3>2, <3>3
  <2>2. ASSUME NEW e, e \in kept PROVE e \in held
    <3>1. PICK u \in Threads : e \in EntriesOf(chunk'[u])
      BY <2>2, Zenon
    <3>2. e \in EntriesOf(chunk[u])
      BY <1>4, <3>1, Zenon
    <3>3. QED
      BY <3>2, Zenon
  <2>3. ASSUME NEW e, e \in EntriesOf(chunk[t]) PROVE e \in held
    BY <2>3, Zenon
  <2> HIDE DEF held, kept
  <2>4. QED
    BY <2>1, <2>2, <2>3
<1>6. Entries' = Entries
  <2> DEFINE b == EntriesOf(buffer)
             f == EntriesOf(file)
             p == EntriesOf(previous)
             c == EntriesOf(chunk[t])
             y == EntriesOf(file')
  <2>1. Entries = gone \cup (b \cup held) \cup f \cup p
    BY DEF Entries, InMemory
  <2>2. Entries' = gone' \cup (b \cup kept) \cup y \cup p
    BY <1>2 DEF Entries, InMemory
  <2>3. y \subseteq f \cup c /\ gone' = gone \cup ((f \cup c) \ y)
    BY <1>3
  <2> HIDE DEF b, f, p, c, y, held, kept
  <2>4. held = c \cup kept
    BY <1>5 DEF c
  <2>5. QED
    BY <2>1, <2>2, <2>3, <2>4
<1>7. Markers' = Markers
  BY <1>6 DEF Markers
<1>8. IsFiniteSet(gone')
  <2>1. gone' \subseteq gone \cup (EntriesOf(file) \cup EntriesOf(chunk[t]))
    BY <1>3
  <2>2. IsFiniteSet(EntriesOf(file)) /\ IsFiniteSet(EntriesOf(chunk[t]))
    <3>1. chunk[t] \in Seq(Entry)
      BY <1>1
    <3>2. QED
      BY <1>1, <3>1, FiniteEntries
  <2>3. IsFiniteSet(EntriesOf(file) \cup EntriesOf(chunk[t]))
    BY <2>2, FS_Union
  <2>4. IsFiniteSet(gone \cup (EntriesOf(file) \cup EntriesOf(chunk[t])))
    BY <1>1, <2>3, FS_Union
  <2>5. QED
    BY <2>1, <2>4, FS_Subset
<1>9. /\ \A e \in EntriesOf(buffer') : e.drops = 0
      /\ refused' = dropped' + Drops(Markers)
      /\ flushes' \in Nat /\ flushes <= flushes'
  BY <1>1, <1>2 DEF Announcing
<1>10. QED
  BY <1>1, <1>7, <1>8, <1>9, MarkersStay

\* The next session starts with no line refused; the markers of the last one are where they
\* were, or gone.
LEMMA RotateAnnounces ==
    ASSUME LogTypes, Announcing, NEW moved \in BOOLEAN, NEW torn \in BOOLEAN, Rotate(moved, torn)
    PROVE  Announcing'
<1>1. /\ flushes \in Nat /\ dropped \in Nat /\ refused \in Nat /\ IsFiniteSet(gone)
      /\ \A e \in Markers : e.flush \in Nat
  BY MarkersTyped DEF LogTypes, LogTypeOK, Announcing, Entry
<1>2. /\ buffer' = <<>> /\ chunk' = [t \in Threads |-> <<>>] /\ UNCHANGED flushes
      /\ previous' = IF moved THEN IF torn THEN <<>> ELSE file ELSE <<>>
      /\ file' = IF moved THEN <<>> ELSE IF torn THEN <<>> ELSE file
      /\ gone' = gone \cup InMemory \cup EntriesOf(previous)
                        \cup (IF torn THEN EntriesOf(file) ELSE {})
      /\ refused' = refused - dropped /\ dropped' = 0
  BY DEF Rotate
<1>3. EntriesOf(<<>>) = {}
  BY DEF EntriesOf
<1>4. EntriesOf(buffer') = {} /\ InMemory' = {}
  <2>1. \A t \in Threads : EntriesOf(chunk'[t]) = {}
    BY <1>2, <1>3
  <2>2. EntriesOf(buffer') = {}
    BY <1>2, <1>3
  <2>3. QED
    BY <2>1, <2>2 DEF InMemory
<1>5. EntriesOf(file') \cup EntriesOf(previous') = IF torn THEN {} ELSE EntriesOf(file)
  BY <1>2, <1>3
<1>6. Entries' = Entries
  <2> DEFINE m == InMemory
             f == EntriesOf(file)
             p == EntriesOf(previous)
             x == EntriesOf(file')
             y == EntriesOf(previous')
  <2>1. Entries = gone \cup m \cup f \cup p /\ Entries' = gone' \cup x \cup y
    BY <1>4 DEF Entries
  <2>2. x \cup y = IF torn THEN {} ELSE f
    BY <1>5
  <2>3. gone' = gone \cup m \cup p \cup (IF torn THEN f ELSE {})
    BY <1>2
  <2> HIDE DEF m, f, p, x, y
  <2>4. CASE torn
    BY <2>1, <2>2, <2>3, <2>4
  <2>5. CASE ~ torn
    BY <2>1, <2>2, <2>3, <2>5
  <2>6. QED
    BY <2>4, <2>5
<1>7. Markers' = Markers
  BY <1>6 DEF Markers
<1>8. IsFiniteSet(gone')
  <2>1. IsFiniteSet(Entries)
    BY <1>1, EntriesCounted DEF Counted
  <2>2. gone' \subseteq Entries
    BY <1>2 DEF Entries
  <2>3. QED
    BY <2>1, <2>2, FS_Subset
<1>9. refused' = dropped' + Drops(Markers)
  <2> DEFINE d == Drops(Markers)
  <2>1. refused = dropped + d /\ d \in Nat
    BY <1>1, EntriesCounted, DropsUnfold DEF Announcing
  <2> HIDE DEF d
  <2>2. refused' = dropped' + d
    BY <1>1, <1>2, <2>1
  <2>3. QED
    BY <2>2 DEF d
<1>10. flushes' \in Nat /\ flushes <= flushes' /\ \A e \in EntriesOf(buffer') : e.drops = 0
  BY <1>1, <1>2, <1>4
<1>11. QED
  BY <1>1, <1>7, <1>8, <1>9, <1>10, MarkersStay

\* The markers rest.
LEMMA AnnouncingRests ==
    ASSUME Announcing, UNCHANGED <<buffer, dropped, chunk, file, previous, refused, gone, flushes>>
    PROVE  Announcing'
<1>1. Entries' = Entries
  BY DEF Entries, InMemory
<1>2. Markers' = Markers
  BY <1>1 DEF Markers
<1>3. Drops(Markers') = Drops(Markers)
  BY <1>2, Zenon
<1>4. EntriesOf(buffer') = EntriesOf(buffer)
  OBVIOUS
<1>5. QED
  BY <1>2, <1>3, <1>4 DEF Announcing

\* Every step keeps each line in one place, and its markers true.
LEMMA LinesStep ==
    ASSUME LogTypes, CallTypes, InOnePlace, Announcing, Next
    PROVE  InOnePlace' /\ Announcing'
<1>1. ASSUME UNCHANGED logVars PROVE InOnePlace' /\ Announcing'
  BY <1>1, PlacesRest, AnnouncingRests DEF logVars, logMemory
<1>2. ASSUME NEW t \in Callers, AppendLog(t) PROVE InOnePlace' /\ Announcing'
  <2>1. \E n \in 1 .. 2 : AppendLines(n)
    BY <1>2 DEF AppendLog
  <2>2. QED
    BY <2>1, AppendPlaces, AppendAnnounces
<1>3. ASSUME NEW t \in Threads, TakeChunk(t) PROVE InOnePlace' /\ Announcing'
  <2>1. TakePending(t) /\ frame[t].at = "take"
    BY <1>3 DEF TakeChunk
  <2>2. chunk[t] = <<>>
    BY <2>1 DEF CallTypes
  <2>3. CASE buffer = <<>>
    BY <1>1, <2>1, <2>3 DEF TakePending, logVars, logMemory
  <2>4. CASE buffer # <<>>
    BY <2>1, <2>2, <2>4, TakePlaces, TakeAnnounces
  <2>5. QED
    BY <2>3, <2>4
<1>4. ASSUME NEW t \in Threads, PutChunk(t) PROVE InOnePlace' /\ Announcing'
  <2>1. WriteChunk(t) \/ WriteFails(t)
    BY <1>4 DEF PutChunk
  <2>2. QED
    BY <2>1, WritePlaces, WriteAnnounces
<1>5. ASSUME NEW moved \in BOOLEAN, NEW torn \in BOOLEAN, Relaunch(moved, torn)
      PROVE  InOnePlace' /\ Announcing'
  BY <1>5, RotatePlaces, RotateAnnounces DEF Relaunch
<1>6. QED
  BY <1>1, <1>2, <1>3, <1>4, <1>5, LogSteps

\* An empty log has no lines and no markers.
LEMMA LinesStart == Init => InOnePlace /\ Announcing
<1>1. SUFFICES ASSUME Init PROVE InOnePlace /\ Announcing
  OBVIOUS
<1>2. /\ buffer = <<>> /\ file = <<>> /\ previous = <<>> /\ gone = {} /\ accepted = 0
      /\ dropped = 0 /\ refused = 0 /\ flushes = 0 /\ \A t \in Threads : chunk[t] = <<>>
  BY <1>1 DEF Init, LogInit
<1>3. EntriesOf(<<>>) = {} /\ Ids(<<>>) = {} /\ OnceIn(<<>>)
  BY DEF EntriesOf, Ids, OnceIn
<1>4. ChunkIds = {} /\ GoneIds = {} /\ InMemory = {}
  BY <1>2, <1>3 DEF ChunkIds, GoneIds, InMemory
<1>5. InOnePlace
  BY <1>2, <1>3, <1>4 DEF InOnePlace
<1>6. Markers = {}
  BY <1>2, <1>3, <1>4 DEF Markers, Entries
<1>7. Drops(Markers) = 0 /\ IsFiniteSet(gone)
  <2>1. IsFiniteSet({}) /\ Counted({})
    BY FS_EmptySet DEF Counted
  <2>2. Drops({}) = 0
    BY <2>1, DropsUnfold
  <2>3. QED
    BY <1>2, <1>6, <2>1, <2>2, Zenon
<1>8. Announcing
  BY <1>2, <1>3, <1>6, <1>7 DEF Announcing
<1>9. QED
  BY <1>5, <1>8

-----------------------------------------------------------------------------
(* What it gives *)

\* What is in each place, by its name.
LEMMA PlacesAre ==
    /\ DOMAIN Places = {"buffer", "file", "previous"} \cup Threads
    /\ Places["buffer"] = buffer /\ Places["file"] = file /\ Places["previous"] = previous
    /\ \A t \in Threads : Places[t] = chunk[t]
<1>1. Threads \cap Stores = {}
  BY CaptureAssumption
<1>2. \A t \in Threads : t # "buffer" /\ t # "file" /\ t # "previous"
  BY <1>1 DEF Stores
<1>3. QED
  BY <1>2 DEF Places, Stores

\* The entries of the places, with those that are gone, are all there are and were.
LEMMA PlacesHold == gone \cup UNION {EntriesOf(Places[p]) : p \in DOMAIN Places} = Entries
<1> DEFINE held == UNION {EntriesOf(Places[p]) : p \in DOMAIN Places}
           flying == UNION {EntriesOf(chunk[t]) : t \in Threads}
<1>1. ASSUME NEW e \in held
      PROVE  e \in EntriesOf(buffer) \cup flying \cup EntriesOf(file) \cup EntriesOf(previous)
  <2>1. PICK p \in DOMAIN Places : e \in EntriesOf(Places[p])
    BY Zenon
  <2>2. CASE p \in Threads
    <3>1. e \in EntriesOf(chunk[p])
      BY <2>1, <2>2, PlacesAre, Zenon
    <3>2. e \in flying
      BY <2>2, <3>1, Zenon
    <3> HIDE DEF flying
    <3>3. QED
      BY <3>2
  <2>3. CASE p \in {"buffer", "file", "previous"}
    <3>1. e \in EntriesOf(buffer) \/ e \in EntriesOf(file) \/ e \in EntriesOf(previous)
      BY <2>1, <2>3, PlacesAre, Zenon
    <3> HIDE DEF flying
    <3>2. QED
      BY <3>1
  <2>4. QED
    BY <2>1, <2>2, <2>3, PlacesAre
<1>2. ASSUME NEW e, e \in EntriesOf(buffer) \/ e \in EntriesOf(file) \/ e \in EntriesOf(previous)
      PROVE  e \in held
  <2>1. \E p \in {"buffer", "file", "previous"} : e \in EntriesOf(Places[p])
    BY <1>2, PlacesAre, Zenon
  <2>2. PICK p \in DOMAIN Places : e \in EntriesOf(Places[p])
    BY <2>1, PlacesAre
  <2>3. QED
    BY <2>2, Zenon
<1>3. ASSUME NEW e \in flying PROVE e \in held
  <2>1. PICK t \in Threads : e \in EntriesOf(chunk[t])
    BY Zenon
  <2>2. t \in DOMAIN Places /\ Places[t] = chunk[t]
    BY PlacesAre
  <2>3. e \in EntriesOf(Places[t])
    BY <2>1, <2>2, Zenon
  <2>4. QED
    BY <2>2, <2>3, Zenon
<1>4. Entries = gone \cup (EntriesOf(buffer) \cup flying) \cup EntriesOf(file) \cup EntriesOf(previous)
  BY DEF Entries, InMemory
<1> HIDE DEF held, flying
<1>5. gone \cup held = Entries
  BY <1>1, <1>2, <1>3, <1>4
<1>6. QED
  BY <1>5 DEF held

\* A line is in one place at most, is there once, and then is not gone; if it is not gone it is in one.
LEMMA LinePlaced ==
    ASSUME LogTypes, InOnePlace
    PROVE  /\ \A p \in DOMAIN Places : OnceIn(Places[p]) /\ Ids(Places[p]) \cap GoneIds = {}
           /\ \A p, q \in DOMAIN Places : p # q => Ids(Places[p]) \cap Ids(Places[q]) = {}
           /\ \A id \in 1 .. accepted : id \in GoneIds \/ \E p \in DOMAIN Places : id \in Ids(Places[p])
<1> DEFINE names == {"buffer", "file", "previous"}
           S(p) == Ids(Places[p])
<1>1. /\ DOMAIN Places = names \cup Threads
      /\ S("buffer") = Ids(buffer) /\ S("file") = Ids(file) /\ S("previous") = Ids(previous)
      /\ \A t \in Threads : S(t) = Ids(chunk[t])
  BY PlacesAre, Zenon
<1>2. \A t \in Threads : S(t) \subseteq ChunkIds
  <2>1. \A t \in Threads : Ids(chunk[t]) \subseteq ChunkIds
    BY DEF ChunkIds
  <2> HIDE DEF S
  <2>2. QED
    BY <1>1, <2>1
<1>3. \A p \in DOMAIN Places : OnceIn(Places[p])
  <2>1. /\ OnceIn(Places["buffer"]) /\ OnceIn(Places["file"]) /\ OnceIn(Places["previous"])
        /\ \A t \in Threads : OnceIn(Places[t])
    BY PlacesAre, Zenon DEF InOnePlace
  <2>2. QED
    BY <1>1, <2>1
<1> HIDE DEF S
<1>4. \A p \in DOMAIN Places : S(p) \cap GoneIds = {}
  <2>1. \A p \in names : S(p) \cap GoneIds = {}
    BY <1>1 DEF InOnePlace
  <2>2. \A t \in Threads : S(t) \cap GoneIds = {}
    BY <1>2 DEF InOnePlace
  <2>3. QED
    BY <1>1, <2>1, <2>2
<1>5. ASSUME NEW p \in DOMAIN Places, NEW q \in DOMAIN Places, p # q PROVE S(p) \cap S(q) = {}
  <2>1. CASE p \in names /\ q \in names
    BY <1>1, <1>5, <2>1 DEF InOnePlace
  <2>2. \A n \in names : S(n) \cap ChunkIds = {}
    BY <1>1 DEF InOnePlace
  <2>3. CASE p \in Threads /\ q \in Threads
    <3>1. Ids(chunk[p]) \cap Ids(chunk[q]) = {}
      BY <1>5, <2>3 DEF InOnePlace
    <3>2. QED
      BY <1>1, <2>3, <3>1
  <2>4. CASE p \in names /\ q \in Threads
    BY <1>2, <2>2, <2>4
  <2>5. CASE p \in Threads /\ q \in names
    BY <1>2, <2>2, <2>5
  <2>6. QED
    BY <1>1, <2>1, <2>3, <2>4, <2>5
<1>6. ASSUME NEW id \in 1 .. accepted
      PROVE  id \in GoneIds \/ \E p \in DOMAIN Places : id \in S(p)
  <2>1. id \in Ids(buffer) \cup Ids(file) \cup Ids(previous) \cup ChunkIds \cup GoneIds
    BY DEF InOnePlace
  <2>2. CASE id \in ChunkIds
    <3>1. PICK t \in Threads : id \in Ids(chunk[t])
      BY <2>2 DEF ChunkIds
    <3>2. QED
      BY <1>1, <3>1
  <2>3. QED
    BY <1>1, <2>1, <2>2
<1>7. QED
  BY <1>3, <1>4, <1>5, <1>6 DEF S

\* Its copies, then, are one or none.
LEMMA CopiesCounted ==
    ASSUME LogTypes, InOnePlace, NEW id \in 1 .. accepted
    PROVE  Cardinality(Copies(id)) = IF \E e \in gone : e.id = id THEN 0 ELSE 1
<1>1. accepted \in Nat /\ id # 0
  BY DEF LogTypes, LogTypeOK
<1>2. id \in GoneIds <=> \E e \in gone : e.id = id
  BY <1>1 DEF GoneIds
<1> DEFINE At(p, i) == p \in DOMAIN Places /\ i \in DOMAIN Places[p] /\ Places[p][i].id = id
<1>3. \A c : c \in Copies(id) <=> \E p, i : At(p, i) /\ c = <<p, i>>
  <2>1. ASSUME NEW c \in Copies(id) PROVE \E p, i : At(p, i) /\ c = <<p, i>>
    <3>1. PICK p \in DOMAIN Places : c \in {p} \X {i \in DOMAIN Places[p] : Places[p][i].id = id}
      BY DEF Copies
    <3>2. QED
      BY <3>1
  <2>2. ASSUME NEW p, NEW i, At(p, i) PROVE <<p, i>> \in Copies(id)
    <3>1. <<p, i>> \in {p} \X {j \in DOMAIN Places[p] : Places[p][j].id = id}
      BY <2>2
    <3>2. QED
      BY <2>2, <3>1 DEF Copies
  <2>3. QED
    BY <2>1, <2>2
<1>4. \A p, i : At(p, i) => id \in Ids(Places[p])
  BY <1>1 DEF Ids
<1>5. CASE id \in GoneIds
  <2>1. \A p, i : ~ At(p, i)
    BY <1>4, <1>5, LinePlaced
  <2>2. Copies(id) = {}
    <3> HIDE DEF At
    <3>1. QED
      BY <1>3, <2>1
  <2>3. QED
    BY <1>2, <1>5, <2>2, FS_EmptySet
<1>6. CASE id \notin GoneIds
  <2>1. PICK p \in DOMAIN Places : id \in Ids(Places[p])
    BY <1>6, LinePlaced
  <2>2. PICK i \in DOMAIN Places[p] : Places[p][i].id = id
    BY <2>1 DEF Ids
  <2>3. \A q, j : At(q, j) => q = p /\ j = i
    <3>1. ASSUME NEW q, NEW j, At(q, j) PROVE q = p /\ j = i
      <4>1. q = p
        BY <1>4, <2>1, <3>1, LinePlaced
      <4>2. OnceIn(Places[p])
        BY LinePlaced
      <4>3. QED
        BY <1>1, <2>2, <3>1, <4>1, <4>2 DEF OnceIn
    <3>2. QED
      BY <3>1
  <2>4. Copies(id) = {<<p, i>>}
    <3>1. At(p, i)
      BY <2>2
    <3> HIDE DEF At
    <3>2. QED
      BY <1>3, <2>3, <3>1
  <2>5. QED
    BY <1>2, <1>6, <2>4, FS_Singleton
<1>7. QED
  BY <1>5, <1>6

\* What the markers announce is what the property adds up.
LEMMA AnnouncedIs ==
    ASSUME LogTypes, IsFiniteSet(gone)
    PROVE  Announced = Drops(Markers)
<1>1. Announced = Drops(gone \cup UNION {EntriesOf(Places[p]) : p \in DOMAIN Places})
  BY DEF Announced, Drops
<1>2. Announced = Drops(Entries)
  BY <1>1, PlacesHold, Zenon
<1>3. QED
  BY <1>2, EntriesCounted

\* No line of the session log is lost or written twice, whatever flushes meet, however a write or
\* a rename fails and wherever a process ends: every line accepted is in the buffer, in one chunk or in
\* one of the two files, and there once, or was cut off, replaced or lost; and each line refused is in
\* the count of exactly one overflow marker or still to be announced.
THEOREM LinesAccounted == Spec => []LinesAccountedFor
<1> DEFINE LinesInv == InOnePlace /\ Announcing
<1>1. Init => LinesInv
  BY LinesStart
<1>2. CaptureInv /\ LinesInv /\ [Next]_vars => LinesInv'
  <2>1. SUFFICES ASSUME CaptureInv, LinesInv, [Next]_vars PROVE LinesInv'
    OBVIOUS
  <2>2. LogTypes /\ CallTypes /\ InOnePlace /\ Announcing
    BY <2>1 DEF CaptureInv
  <2>3. CASE Next
    BY <2>2, <2>3, LinesStep
  <2>4. CASE UNCHANGED vars
    BY <2>2, <2>4, PlacesRest, AnnouncingRests DEF vars, logVars, logMemory
  <2>5. QED
    BY <2>1, <2>3, <2>4
<1>3. CaptureInv /\ LinesInv => LinesAccountedFor
  <2>1. SUFFICES ASSUME CaptureInv, LinesInv PROVE LinesAccountedFor
    OBVIOUS
  <2>2. LogTypes /\ InOnePlace /\ Announcing
    BY <2>1 DEF CaptureInv
  <2>3. Announced = Drops(Markers)
    BY <2>2, AnnouncedIs DEF Announcing
  <2>4. refused = dropped + Announced
    <3>1. refused = dropped + Drops(Markers)
      BY <2>2 DEF Announcing
    <3>2. QED
      BY <2>3, <3>1, Zenon
  <2>5. \A id \in 1 .. accepted :
           Cardinality(Copies(id)) = IF \E e \in gone : e.id = id THEN 0 ELSE 1
    BY <2>2, CopiesCounted
  <2>6. QED
    BY <2>4, <2>5 DEF LinesAccountedFor
<1> HIDE DEF LinesInv
<1>4. QED
  BY <1>1, <1>2, <1>3, CaptureHolds, PTL DEF Spec
=============================================================================

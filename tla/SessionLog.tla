------------------------------ MODULE SessionLog ------------------------------
(***************************************************************************)
(* The rolling session log: lines buffer in memory under one lock, and a   *)
(* flush takes the whole buffer under that lock and appends it to          *)
(* session.log under another, so several flushes can be between the two.   *)
(* The file is cut from the front past its cap, and becomes                *)
(* previous-session.log when the next session starts.                      *)
(*                                                                         *)
(* Sizes count lines: the caps are constants, a line has size one, and a   *)
(* crash entry is the two lines of its hint and its trace.                 *)
(***************************************************************************)
EXTENDS Integers, Sequences, FiniteSets

CONSTANTS
    Threads,      \* the threads that flush
    MaxPending,   \* max_pending_bytes
    MaxLog,       \* max_log_bytes
    TrimTo        \* trimmed_log_bytes

ASSUME SessionLogAssumption ==
    /\ {MaxPending, MaxLog, TrimTo} \subseteq Nat \ {0}
    /\ TrimTo < MaxLog

\* A line, numbered as accepted, or (id 0) the marker of an overflow that says
\* how many lines were dropped; flush is history: the flush that took it.
Entry == [ id : Nat, drops : Nat, flush : Nat ]

VARIABLES
    (* memory *)
    buffer,     \* pending_
    dropped,    \* dropped_lines_
    chunk,      \* the chunk a flush has taken and not written, per thread
    fileSize,   \* file_bytes_
    (* disk; an absent file is empty *)
    file,       \* session.log
    previous,   \* previous-session.log
    (* history *)
    accepted,   \* lines accepted
    refused,    \* lines dropped, as far as a marker or a counter still says so
    gone,       \* entries cut off, replaced or lost
    flushes,    \* chunks taken
    overlaps    \* pairs of flushes that were both between take and write

logMemory == <<buffer, dropped, chunk>>
logVars == <<logMemory, fileSize, file, previous, accepted, refused, gone, flushes,
             overlaps>>

EntriesOf(s) == {s[i] : i \in DOMAIN s}

Ids(s) == {s[i].id : i \in DOMAIN s} \ {0}

-----------------------------------------------------------------------------
(* append *)

\* append, under pending_mutex_: a full buffer refuses and counts.
AppendLines(size) ==
    /\ IF Len(buffer) >= MaxPending
       THEN /\ dropped' = dropped + 1
            /\ refused' = refused + 1
            /\ UNCHANGED <<buffer, accepted>>
       ELSE /\ buffer' = buffer \o [i \in 1 .. size |->
                                      [id |-> accepted + i, drops |-> 0, flush |-> 0]]
            /\ accepted' = accepted + size
            /\ UNCHANGED <<dropped, refused>>
    /\ UNCHANGED <<chunk, fileSize, file, previous, gone, flushes, overlaps>>

-----------------------------------------------------------------------------
(* flush_now: take_pending, then write_chunk *)

Marker == IF dropped > 0 THEN <<[id |-> 0, drops |-> dropped, flush |-> 0]>> ELSE <<>>

\* The flushes under way, by the number their chunk carries.
UnderWay == UNION {{chunk[t][i].flush : i \in DOMAIN chunk[t]} : t \in Threads}

TakePendingMutant(t) ==
    /\ chunk' = [chunk EXCEPT ![t] = [i \in DOMAIN (buffer \o Marker) |->
                   [(buffer \o Marker)[i] EXCEPT !.flush = flushes + 1]]]
    /\ buffer' = <<>>
    /\ flushes' = IF buffer = <<>> THEN flushes ELSE flushes + 1
    /\ overlaps' = overlaps \cup {{g, flushes + 1} : g \in UnderWay}
    /\ UNCHANGED <<dropped, fileSize, file, previous, accepted, refused, gone>>

\* take_pending, under pending_mutex_: nothing to take leaves no chunk.
TakePending(t) ==
    /\ IF buffer = <<>>
       THEN UNCHANGED <<buffer, dropped, chunk, flushes, overlaps>>
       ELSE LET taken == buffer \o Marker IN
            /\ chunk' = [chunk EXCEPT ![t] = [i \in DOMAIN taken |->
                                                [taken[i] EXCEPT !.flush = flushes + 1]]]
            /\ buffer' = <<>>
            /\ dropped' = 0
            /\ flushes' = flushes + 1
            /\ overlaps' = overlaps \cup {{g, flushes + 1} : g \in UnderWay}
    /\ UNCHANGED <<fileSize, file, previous, accepted, refused, gone>>

\* trim_from_front: from the first whole line after the last TrimTo of them
\* start, which skips the line that starts exactly there.
Trimmed(all) ==
    IF Len(all) <= TrimTo THEN all ELSE SubSeq(all, Len(all) - TrimTo + 2, Len(all))

First(s, n) == SubSeq(s, 1, n)

\* write_chunk ends with these lines in session.log and this count; what else there
\* was is lost.
Left(t, lines, size) ==
    /\ chunk[t] # <<>>
    /\ file' = lines
    /\ fileSize' = size
    /\ gone' = gone \cup (EntriesOf(file \o chunk[t]) \ EntriesOf(lines))
    /\ chunk' = [chunk EXCEPT ![t] = <<>>]
    /\ UNCHANGED <<buffer, dropped, previous, accepted, refused, flushes, overlaps>>

\* write_chunk, under file_mutex_, and the trim it may run.
WriteChunk(t) ==
    LET all  == file \o chunk[t]
        size == fileSize + Len(chunk[t])
    IN  IF size > MaxLog THEN Left(t, Trimmed(all), Len(Trimmed(all)))
                         ELSE Left(t, all, size)

WriteFailsMutant(t) ==
    /\ chunk[t] # <<>>
    /\ buffer' = buffer \o chunk[t]
    /\ chunk' = [chunk EXCEPT ![t] = <<>>]
    /\ UNCHANGED <<dropped, fileSize, file, previous, accepted, refused, gone, flushes,
                   overlaps>>

\* No write is checked.  The append may fail to open, or take n lines of the chunk
\* and still count them all; and the trim behind it may fail to read the file, to
\* reopen it, or, having emptied it, to write more than m of the lines it kept.  A
\* line the disk took in part is lost.
WriteFails(t) ==
    \/ Left(t, file, fileSize)
    \/ \E n \in 0 .. Len(chunk[t]) :
          LET all  == file \o First(chunk[t], n)
              size == fileSize + Len(chunk[t])
          IN  IF size <= MaxLog THEN Left(t, all, size)
              ELSE \/ Left(t, all, 0)
                   \/ Len(all) <= TrimTo /\ Left(t, all, Len(all))
                   \/ Len(all) > TrimTo /\ Left(t, all, size)
                   \/ /\ Len(all) > TrimTo
                      /\ \E m \in 0 .. Len(Trimmed(all)) :
                            Left(t, First(Trimmed(all), m), Len(Trimmed(all)))

-----------------------------------------------------------------------------
(* The process ends, and the next session rotates the log *)

InMemory == EntriesOf(buffer) \cup UNION {EntriesOf(chunk[t]) : t \in Threads}

\* A death may fall between the truncation and the write of a trim.
TornTrim ==
    \E t \in Threads :
       /\ chunk[t] # <<>>
       /\ fileSize + Len(chunk[t]) > MaxLog
       /\ Len(file) + Len(chunk[t]) > TrimTo

\* rotate_for_new_session of the next launch; moved: the rename succeeds;
\* torn: the last session died inside trim_from_front.
Rotate(moved, torn) ==
    LET left == IF torn THEN <<>> ELSE file
    IN  /\ torn => TornTrim
        /\ ~moved => left # <<>>
        /\ previous' = IF moved THEN left ELSE <<>>
        /\ file' = IF moved THEN <<>> ELSE left
        /\ fileSize' = 0
        /\ gone' = gone \cup InMemory \cup EntriesOf(previous)
                        \cup (IF torn THEN EntriesOf(file) ELSE {})
        /\ refused' = refused - dropped
        /\ buffer' = <<>> /\ dropped' = 0
        /\ chunk' = [t \in Threads |-> <<>>]
        /\ UNCHANGED <<accepted, flushes, overlaps>>

LogInit ==
    /\ buffer = <<>> /\ dropped = 0 /\ chunk = [t \in Threads |-> <<>>]
    /\ fileSize = 0 /\ file = <<>> /\ previous = <<>>
    /\ accepted = 0 /\ refused = 0 /\ gone = {} /\ flushes = 0 /\ overlaps = {}

-----------------------------------------------------------------------------
(* Properties *)

LogTypeOK ==
    /\ {buffer, file, previous} \subseteq Seq(Entry)
    /\ chunk \in [Threads -> Seq(Entry)]
    /\ {dropped, fileSize, accepted, refused, flushes} \subseteq Nat
    /\ gone \subseteq Entry
=============================================================================

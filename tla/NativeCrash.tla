------------------------------ MODULE NativeCrash ------------------------------
(***************************************************************************)
(* The native crash handler at work in a dying process.  Threads crash,    *)
(* each in its own instruction or by a signal sent to it; the handler of   *)
(* the first one writes the dump, every one hands on to the handler that   *)
(* was installed before it, and the process is to die of the signal.       *)
(*                                                                         *)
(* The signal rules of the kernel are modelled from how the handler relies *)
(* on them: a signal is blocked in its own handler (sa_mask is empty), a   *)
(* raised signal that is blocked waits until the handler returns, and a    *)
(* fault whose signal is blocked or has the default action ends the        *)
(* process.  An instruction that faulted faults again when the handler     *)
(* returns; a signal that was sent (code <= 0) comes once.                 *)
(***************************************************************************)
EXTENDS NativeDump, FiniteSets

CONSTANTS
    Threads,
    Crashes,     \* records: sig, code, addr, pc, lr
    Scenarios    \* crashes: what each thread crashes of, in the game, then in an old
                 \* handler; olds: the handlers that may have been there before;
                 \* fills: a bound on how often the disk fills up

Signals == {crash.sig : crash \in Crashes}

\* What install() may find in its place, by what it does.
OldHandlers == {"default", "ignore", "returns", "exits"}

Sent(crash) == crash.code <= 0

WritesOf == [crash \in Crashes |-> DumpWrites(crash)]

ASSUME NativeCrashAssumption ==
    /\ IsFiniteSet(Threads)
    /\ \A plan \in Scenarios :
         /\ plan.fills \in Nat /\ plan.olds \subseteq [Signals -> OldHandlers]
         /\ plan.crashes \in [Threads -> Seq(Crashes)]
         /\ \A t \in Threads :
              /\ Len(plan.crashes[t]) <= 2
              /\ Len(plan.crashes[t]) = 2 => ~ Sent(plan.crashes[t][2])

VARIABLES
    action,      \* signal -> "ours" or "default"
    old,         \* signal -> what install() found there
    guard,       \* g_in_handler
    cause,       \* thread -> the crashes still to come
    stack,       \* thread -> the handler activations it is in
    pending,     \* thread -> the signals raised while blocked
    dump,        \* the dump file: what the disk took of each write
    full,        \* the disk is full
    fills,       \* how often it may still fill up
    first,       \* history: the crash that took the guard, as a sequence of one or none
    heard,       \* history: the threads whose old handler was called
    life         \* alive, exited, or signalled: the thread and the signal

vars == <<action, old, guard, cause, stack, pending, dump, full, fills, first, heard, life>>

Init ==
    /\ action = [s \in Signals |-> "ours"]
    /\ guard = FALSE
    /\ \E plan \in Scenarios :
         cause = plan.crashes /\ old \in plan.olds /\ fills = plan.fills
    /\ stack = [t \in Threads |-> <<>>]
    /\ pending = [t \in Threads |-> {}]
    /\ dump = <<>>
    /\ full = FALSE
    /\ first = <<>>
    /\ heard = {}
    /\ life = [now |-> "alive"]

-----------------------------------------------------------------------------
(* Activations *)

In(t, place) == life.now = "alive" /\ stack[t] # <<>> /\ Last(stack[t]).at = place

Crash(t) == Last(stack[t]).crash

Put(t, place) == [stack EXCEPT ![t] = Append(Front(@), [Last(@) EXCEPT !.at = place])]

Blocked(activations) == {activations[i].crash.sig : i \in DOMAIN activations}

\* After the hand-off: only the handler that dumped raises the signal once more.
AfterChain(t) == IF Last(stack[t]).owner THEN "reraise" ELSE "return"

Raised(t, sig) == [pending EXCEPT ![t] = @ \cup {sig}]

DiesOf(t, sig) == [now |-> "signalled", thread |-> t, sig |-> sig]

-----------------------------------------------------------------------------
(* The kernel: a fault, and the return from a handler *)

Fault(t) ==
    /\ life.now = "alive"
    /\ stack[t] = <<>> \/ In(t, "old")
    /\ Len(cause[t]) > Len(stack[t])
    /\ LET crash == cause[t][Len(stack[t]) + 1]
       IN  IF crash.sig \in Blocked(stack[t]) \/ action[crash.sig] = "default"
           THEN life' = DiesOf(t, crash.sig) /\ UNCHANGED stack
           ELSE /\ stack' = [stack EXCEPT ![t] = Append(@,
                                [at |-> "guard", crash |-> crash, writes |-> 0, owner |-> FALSE])]
                /\ UNCHANGED life
    /\ UNCHANGED <<action, old, guard, cause, pending, dump, full, fills, first, heard>>

Return(t) ==
    /\ In(t, "return")
    /\ LET outer == Front(stack[t])
           due   == pending[t] \ Blocked(outer)
       IN  /\ stack' = [stack EXCEPT ![t] = outer]
           /\ \/ due = {} /\ UNCHANGED life
              \/ \E sig \in due : life' = DiesOf(t, sig)
           /\ cause' = IF outer = <<>> /\ Sent(Crash(t)) THEN [cause EXCEPT ![t] = <<>>] ELSE cause
    /\ UNCHANGED <<action, old, guard, pending, dump, full, fills, first, heard>>

-----------------------------------------------------------------------------
(* tombstone_signal_handler *)

\* The guard, taken by the first crash of the process and never cleared.
TestAndSet(t) ==
    /\ In(t, "guard")
    /\ guard' = TRUE
    /\ IF guard THEN stack' = Put(t, "chain") /\ UNCHANGED first
       ELSE /\ stack' = [stack EXCEPT ![t] = Append(Front(@), [Last(@) EXCEPT
                                                 !.at = "dump", !.owner = TRUE])]
            /\ first' = <<Crash(t)>>
    /\ UNCHANGED <<action, old, cause, pending, dump, full, fills, heard, life>>

\* write_all: each write of the dump is tried, whatever became of the one before.
\* The disk takes it whole, or is full and takes nothing, or fills up within it.
Write(t) ==
    /\ In(t, "dump")
    /\ LET writes == WritesOf[Crash(t)]
           next   == Last(stack[t]).writes + 1
       IN  /\ next <= Len(writes)
           /\ \E piece \in Prefixes(writes[next]) :
                /\ dump' = Append(dump, piece)
                /\ \/ piece = writes[next] /\ full' = FALSE /\ UNCHANGED fills
                   \/ full /\ piece = <<>> /\ UNCHANGED <<full, fills>>
                   \/ /\ piece # writes[next] /\ fills > 0
                      /\ full' = TRUE /\ fills' = fills - 1
           /\ stack' = [stack EXCEPT ![t] = Append(Front(@), [Last(@) EXCEPT !.writes = next])]
    /\ UNCHANGED <<action, old, guard, cause, pending, first, heard, life>>

DumpIsWritten(t) ==
    /\ In(t, "dump")
    /\ Last(stack[t]).writes = Len(WritesOf[Crash(t)])
    /\ stack' = Put(t, "chain")
    /\ UNCHANGED <<action, old, guard, cause, pending, dump, full, fills, first, heard, life>>

ChainMutant(t) ==
    /\ In(t, "chain")
    /\ LET sig == Crash(t).sig
       IN  /\ action' = [action EXCEPT ![sig] = "default"]
           /\ pending' = Raised(t, sig)
           /\ stack' = Put(t, AfterChain(t))
           /\ UNCHANGED heard
    /\ UNCHANGED <<old, guard, cause, dump, full, fills, first, life>>

\* chain_old: an old handler is called; without one the default action is
\* restored and the signal raised.
Chain(t) ==
    /\ In(t, "chain")
    /\ LET sig == Crash(t).sig
       IN  \/ /\ old[sig] \in {"default", "ignore"}
              /\ action' = [action EXCEPT ![sig] = "default"]
              /\ pending' = Raised(t, sig)
              /\ stack' = Put(t, AfterChain(t))
              /\ UNCHANGED heard
           \/ /\ old[sig] \in {"returns", "exits"}
              /\ stack' = Put(t, "old")
              /\ heard' = heard \cup {t}
              /\ UNCHANGED <<action, pending>>
    /\ UNCHANGED <<old, guard, cause, dump, full, fills, first, life>>

\* The old handler ends, unless it is to crash itself.
OldHandlerEnds(t) ==
    /\ In(t, "old")
    /\ Len(cause[t]) <= Len(stack[t])
    /\ \/ old[Crash(t).sig] = "returns" /\ stack' = Put(t, AfterChain(t)) /\ UNCHANGED life
       \/ old[Crash(t).sig] = "exits" /\ life' = [now |-> "exited"] /\ UNCHANGED stack
    /\ UNCHANGED <<action, old, guard, cause, pending, dump, full, fills, first, heard>>

ReraiseMutant(t) ==
    /\ In(t, "reraise")
    /\ stack' = Put(t, "return")
    /\ UNCHANGED <<action, old, guard, cause, pending, dump, full, fills, first, heard, life>>

\* reraise_default at the end of the handler.
Reraise(t) ==
    /\ In(t, "reraise")
    /\ action' = [action EXCEPT ![Crash(t).sig] = "default"]
    /\ pending' = Raised(t, Crash(t).sig)
    /\ stack' = Put(t, "return")
    /\ UNCHANGED <<old, guard, cause, dump, full, fills, first, heard, life>>

-----------------------------------------------------------------------------

\* The process is over.
Over == life.now # "alive" /\ UNCHANGED vars

Step(t) ==
    \/ Fault(t)
    \/ Return(t)
    \/ TestAndSet(t)
    \/ Write(t)
    \/ DumpIsWritten(t)
    \/ Chain(t)
    \/ OldHandlerEnds(t)
    \/ Reraise(t)

Next == Over \/ \E t \in Threads : Step(t)

Spec == Init /\ [][Next]_vars

\* The kernel runs every thread of the process.
FairSpec == Spec /\ \A t \in Threads : WF_vars(Step(t))

-----------------------------------------------------------------------------
(* Properties *)

\* The build ids in the notes of an image, and those that images without a load
\* segment have left in its slot of the table.
OwnIds(image) ==
    {note.id : note \in {n \in UNION {Range(seg) : seg \in Range(image.notes)} : n.kind = "gnu"}}

LeftIds(i) ==
    UNION {OwnIds(Images[j]) : j \in {k \in 1 .. i - 1 : \A m \in k .. i - 1 : Images[m].load = {}}}

\* What the next launch is to read of an address: the image that holds it, among
\* those the table has room for, and the place in it.
FrameOf(address) ==
    LET holds(image) == \E low, high \in image.load :
                            low.lo <= address /\ address < high.lo + high.size
        kept(i) == Cardinality({j \in 1 .. i : Images[j].load # {}}) <= MaxModules
        holders == {i \in DOMAIN Images : holds(Images[i]) /\ kept(i)}
    IN  IF holders = {} THEN [module |-> <<"??">>, offset |-> address, ids |-> {<<>>}]
        ELSE LET i     == CHOOSE j \in holders : TRUE
                 image == Images[i]
             IN  [ module |-> image.name,
                   offset |-> address - (CHOOSE s \in image.load : \A r \in image.load : s.lo <= r.lo).lo,
                   ids    |-> IF OwnIds(image) # {} THEN OwnIds(image) ELSE {<<>>} \cup LeftIds(i) ]

FramesOf(crash) ==
    LET addresses == SelectSeq(<<crash.pc, crash.lr>>, LAMBDA a : a # 0)
    IN  [i \in DOMAIN addresses |-> FrameOf(addresses[i])]

\* A frame as it was written.  Of a name with a space the first word is read, and
\* what follows is taken for the offset and the id.
SameFrame(got, whole) ==
    IF Space \in Range(whole.module)
    THEN got.module = SubSeq(whole.module, 1, Find(whole.module, Space) - 1)
    ELSE got.module = whole.module /\ got.offset = whole.offset /\ got.build_id \in whole.ids

\* A frame, or as much of it as stands before the place the dump was cut.
CutFrame(got, whole) ==
    Space \notin Range(whole.module) =>
       /\ got.module = whole.module
       /\ got.offset \in {ParseHex(digits) : digits \in Prefixes(Hex(whole.offset))}
       /\ got.build_id \in UNION {Prefixes(id) : id \in whole.ids}

\* How many writes the disk took before it first refused a symbol, and the lines
\* they complete.
SoundWrites ==
    Max({n \in 0 .. Len(dump) : \A i \in 1 .. n : dump[i] = WritesOf[first[1]][i]})

SoundLines == Cardinality({i \in 1 .. SoundWrites : LineEnd \in Range(dump[i])})

\* The dump has one writer, the first crash, however many threads crash.  Wherever
\* the process or the disk stops, the next launch reads every line that was complete
\* before the first loss as it was written, an image's own place and build id with it
\* (unless its name has a space, or its slot was left an id), and no more frames than
\* the first crash has.  When nothing is lost but the end, the line that was cut says
\* nothing or the first digits of its number, and no other fact is read.
ParsedIsWritten ==
    /\ dump # <<>> =>
         /\ first # <<>> /\ Len(dump) <= Len(WritesOf[first[1]])
         /\ \A i \in DOMAIN dump : dump[i] \in Prefixes(WritesOf[first[1]][i])
    /\ LET got == ParseDump(FlattenSeq(dump))
       IN  got.seen =>
             LET crash  == first[1]
                 frames == FramesOf(crash)
                 n      == Len(got.frames)
                 writes == SoundWrites
                 lines  == SoundLines
             IN  /\ lines >= 2 => got.sig = crash.sig
                 /\ lines >= 3 => got.code = crash.code
                 /\ lines >= 4 => got.addr = crash.addr
                 /\ n <= Len(frames)
                 /\ \A i \in 1 .. Len(frames) :
                      i + 4 <= lines => i <= n /\ SameFrame(got.frames[i], frames[i])
                 /\ (\A i \in writes + 2 .. Len(dump) : dump[i] = <<>>) =>
                      /\ got.sig \in {ParseDec(d) : d \in Prefixes(Decimal(crash.sig))}
                      /\ got.code \in {ParseDec(d) : d \in Prefixes(Decimal(crash.code))}
                      /\ got.addr \in {ParseHex(d) : d \in Prefixes(Hex(crash.addr))}
                      /\ \A i \in 1 .. n : CutFrame(got.frames[i], frames[i])

\* The process of a single crash does not die of a signal before the handler is
\* through: every write of the dump has been tried, the handler that was there
\* before has been called, and the signal is the crash's own.
HandedOn ==
    (/\ life.now = "signalled"
     /\ \A t \in Threads \ {life.thread} : cause[t] = <<>> /\ stack[t] = <<>>
     /\ Len(cause[life.thread]) < 2)
    => /\ first # <<>> /\ life.sig = first[1].sig
       /\ Len(dump) = Len(WritesOf[first[1]])
       /\ old[life.sig] \in {"returns", "exits"} => life.thread \in heard

\* A process whose crash the handler has taken dies, whatever its other threads
\* do and whether or not an old handler returns; the old handlers do not crash.
CrashDies ==
    (guard /\ \A t \in Threads : Len(cause[t]) < 2) ~> life.now # "alive"

\* "if the old handler returns, the default action is restored and the signal
\* re-raised so the process dies with the true signal" (native_crash.h), also
\* when an old handler crashes and the handler it crashes into returns.
EveryCrashDies == guard ~> life.now # "alive"
=============================================================================

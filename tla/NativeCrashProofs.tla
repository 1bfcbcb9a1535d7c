-------------------------- MODULE NativeCrashProofs --------------------------
(***************************************************************************)
(* The handler hands on, for every set of threads and crashes and every    *)
(* plan of them: a process of one crash that dies of a signal dies of that *)
(* crash's, after every write of the dump has been tried and the handler   *)
(* that was there before has been called.                                  *)
(***************************************************************************)
EXTENDS NativeCrash, SequenceTheorems, TLAPS

\* What the disk can take of a write.
Pieces == UNION {UNION {Prefixes(WritesOf[c][i]) : i \in DOMAIN WritesOf[c]} : c \in Crashes}

\* Where an activation of the handler can be, and what it keeps.
Places == {"guard", "dump", "chain", "old", "reraise", "return"}

Activation == [at : Places, crash : Crashes, writes : Nat, owner : BOOLEAN]

\* The types of the state.
TypeOK ==
    /\ action \in [Signals -> {"ours", "default"}]
    /\ old \in [Signals -> OldHandlers]
    /\ guard \in BOOLEAN
    /\ cause \in [Threads -> Seq(Crashes)]
    /\ stack \in [Threads -> Seq(Activation)]
    /\ pending \in [Threads -> SUBSET Signals]
    /\ dump \in Seq(Pieces)
    /\ full \in BOOLEAN
    /\ fills \in Nat
    /\ first \in Seq(Crashes)
    /\ heard \subseteq Threads

\* The disk has been offered the first k writes of a crash, one after the other, and has
\* taken something of each or nothing.
Taken(pieces, c, k) ==
    /\ Len(pieces) = k
    /\ \A i \in 1 .. k : pieces[i] \in Prefixes(WritesOf[c][i])

-----------------------------------------------------------------------------
(* The invariant of a living process *)

\* Handlers nest two deep at most, the outer one inside the old handler it has
\* called, and a signal does not interrupt its own handler.
Nesting ==
    \A t \in Threads :
       /\ Len(stack[t]) <= Len(cause[t]) /\ Len(cause[t]) <= 2
       /\ Len(stack[t]) = 2 => /\ stack[t][1].at = "old"
                               /\ stack[t][1].crash.sig # stack[t][2].crash.sig

\* The guard has been taken by the outer handler of one thread, which stays where it is.
Guarding ==
    /\ guard <=> first # <<>>
    /\ \A t \in Threads : \A i \in DOMAIN stack[t] :
         /\ stack[t][i].at # "guard" => guard
         /\ stack[t][i].at = "guard" => ~ stack[t][i].owner /\ stack[t][i].writes = 0
         /\ stack[t][i].at = "dump" => stack[t][i].owner
         /\ stack[t][i].owner => i = 1 /\ stack[t][i].crash = first[1]
    /\ \A t, u \in Threads :
         /\ stack[t] # <<>> /\ stack[u] # <<>>
         /\ stack[t][1].owner /\ stack[u][1].owner
         => t = u
    /\ guard => \E t \in Threads : stack[t] # <<>> /\ stack[t][1].owner

\* A signal waits only in a thread whose handler has raised it, and the handler
\* that dumped does not return before it has.
Waiting ==
    /\ \A t \in Threads :
         /\ pending[t] # {} =>
              /\ stack[t] # <<>> /\ Last(stack[t]).at \in {"reraise", "return"}
              /\ pending[t] = {Crash(t).sig}
         /\ stack[t] # <<>> /\ Last(stack[t]).at = "return" /\ Last(stack[t]).owner =>
              pending[t] # {}
    /\ \A s \in Signals : action[s] = "default" => \E t \in Threads : s \in pending[t]

\* Past the hand-off an old handler that was there has been called.
Handing ==
    \A t \in Threads : \A i \in DOMAIN stack[t] :
       /\ stack[t][i].at \in {"old", "reraise", "return"}
       /\ old[stack[t][i].crash.sig] \in {"returns", "exits"}
       => t \in heard

\* The dump is what the disk has taken of what the handler that dumps has written so far.
Dumping ==
    /\ first = <<>> => dump = <<>>
    /\ \A t \in Threads :
         stack[t] # <<>> /\ stack[t][1].owner =>
           LET n == Len(WritesOf[first[1]])
               k == IF stack[t][1].at = "dump" THEN stack[t][1].writes ELSE n
           IN  k <= n /\ Taken(dump, first[1], k)

\* The parts together, which hold while the process lives.
Alive == Nesting /\ Guarding /\ Waiting /\ Handing /\ Dumping

\* The inductive invariant.
IInv == TypeOK /\ (life.now = "alive" => Alive) /\ HandedOn

-----------------------------------------------------------------------------
(* The writes of a dump *)

\* The writes of a crash are a sequence that begins with the header line.
LEMMA WritesAreASequence ==
    ASSUME NEW c \in Crashes
    PROVE  /\ Len(WritesOf[c]) \in Nat /\ Len(WritesOf[c]) >= 1
           /\ WritesOf[c][1] = <<Header, LineEnd>>
<1> DEFINE frames(address) ==
              LET m == Modules[Resolve(address)]
              IN  {<<"frame", Space>>, <<"??", Space>>, Hex(address), <<Space, LineEnd>>,
                   m.name, <<Space>>, Hex(address - m.base), m.build_id, <<LineEnd>>}
           head == << <<Header, LineEnd>>,
                      <<"signal", Space>>, Decimal(c.sig), <<LineEnd>>,
                      <<"code", Space>>, Decimal(c.code), <<LineEnd>>,
                      <<"fault", Space>>, Hex(c.addr), <<LineEnd>> >>
           pc == IF c.pc # 0 THEN FrameWrites(c.pc) ELSE <<>>
           lr == IF c.lr # 0 THEN FrameWrites(c.lr) ELSE <<>>
           end == << <<"end", LineEnd>> >>
           U == {<<Header, LineEnd>>, <<"signal", Space>>, Decimal(c.sig), <<LineEnd>>,
                 <<"code", Space>>, Decimal(c.code), <<"fault", Space>>, Hex(c.addr),
                 <<"end", LineEnd>>}
                \cup frames(c.pc) \cup frames(c.lr)
<1>1. ASSUME NEW a, NEW V, frames(a) \subseteq V PROVE FrameWrites(a) \in Seq(V)
  <2> DEFINE m == Modules[Resolve(a)]
             short == << <<"frame", Space>>, <<"??", Space>>, Hex(a), <<Space, LineEnd>> >>
             long  == << <<"frame", Space>>, m.name, <<Space>>, Hex(a - m.base), <<Space>>,
                         m.build_id, <<LineEnd>> >>
  <2>1. FrameWrites(a) = IF Resolve(a) = 0 THEN short ELSE long
    BY DEF FrameWrites
  <2>2. short \in Seq(V)
    BY <1>1
  <2>3. long \in Seq(V)
    BY <1>1
  <2> HIDE DEF short, long
  <2>4. QED
    BY <2>1, <2>2, <2>3
<1>2. pc \in Seq(U) /\ lr \in Seq(U)
  <2>1. frames(c.pc) \subseteq U /\ frames(c.lr) \subseteq U
    OBVIOUS
  <2>2. <<>> \in Seq(U)
    OBVIOUS
  <2> HIDE DEF frames, U
  <2>3. QED
    BY <1>1, <2>1, <2>2
<1>3. head \in Seq(U) /\ Len(head) >= 1 /\ head[1] = <<Header, LineEnd>>
  OBVIOUS
<1>4. end \in Seq(U)
  OBVIOUS
<1>5. WritesOf[c] = head \o pc \o lr \o end
  BY DEF WritesOf, DumpWrites
<1> HIDE DEF head, pc, lr, end, U
<1>6. ASSUME NEW a \in Seq(U), NEW b \in Seq(U), Len(a) >= 1
      PROVE  a \o b \in Seq(U) /\ Len(a \o b) >= 1 /\ (a \o b)[1] = a[1] /\ Len(a \o b) \in Nat
  <2>1. Len(a) \in Nat /\ Len(b) \in Nat
    BY LenProperties
  <2>2. /\ a \o b \in Seq(U) /\ Len(a \o b) = Len(a) + Len(b)
        /\ \A i \in 1 .. Len(a) + Len(b) : (a \o b)[i] = IF i <= Len(a) THEN a[i] ELSE b[i - Len(a)]
    BY ConcatProperties
  <2>3. 1 \in 1 .. Len(a) + Len(b)
    BY <1>6, <2>1
  <2>4. QED
    BY <1>6, <2>1, <2>2, <2>3
<1>7. head \o pc \in Seq(U) /\ Len(head \o pc) >= 1 /\ (head \o pc)[1] = head[1]
  BY <1>2, <1>3, <1>6, Zenon
<1>8. /\ (head \o pc) \o lr \in Seq(U) /\ Len((head \o pc) \o lr) >= 1
      /\ ((head \o pc) \o lr)[1] = head[1]
  BY <1>2, <1>6, <1>7, Zenon
<1>9. QED
  BY <1>3, <1>4, <1>5, <1>6, <1>8, Zenon

-----------------------------------------------------------------------------
(* The stacks of activations *)

\* The activations of a thread, its top and the one under it.
LEMMA StackShape ==
    ASSUME TypeOK, NEW t \in Threads
    PROVE  /\ stack[t] \in Seq(Activation)
           /\ Len(stack[t]) \in Nat /\ DOMAIN stack[t] = 1 .. Len(stack[t])
           /\ stack[t] = <<>> <=> Len(stack[t]) = 0
           /\ \A i \in 1 .. Len(stack[t]) : stack[t][i] \in Activation
           /\ Last(stack[t]) = stack[t][Len(stack[t])]
           /\ stack[t] # <<>> =>
                /\ Len(stack[t]) \in 1 .. Len(stack[t])
                /\ Last(stack[t]) \in Activation
                /\ Crash(t) = Last(stack[t]).crash /\ Crash(t) \in Crashes
                /\ Crash(t).sig \in Signals
<1>1. /\ stack[t] \in Seq(Activation)
      /\ Len(stack[t]) \in Nat /\ DOMAIN stack[t] = 1 .. Len(stack[t])
      /\ stack[t] = <<>> <=> Len(stack[t]) = 0
  BY LenProperties, EmptySeq DEF TypeOK
<1>2. \A i \in 1 .. Len(stack[t]) : stack[t][i] \in Activation
  BY <1>1, ElementOfSeq
<1>3. stack[t] # <<>> => Len(stack[t]) \in 1 .. Len(stack[t])
  BY <1>1
<1>4. Last(stack[t]) = stack[t][Len(stack[t])] /\ Crash(t) = Last(stack[t]).crash
  BY DEF Last, Crash
<1>5. \A a \in Activation : a.crash \in Crashes /\ a.crash.sig \in Signals
  BY DEF Activation, Signals
<1>6. QED
  BY <1>1, <1>2, <1>3, <1>4, <1>5

\* The top activation is replaced.
LEMMA TopReplaced ==
    ASSUME TypeOK, NEW t \in Threads, stack[t] # <<>>, NEW a \in Activation,
           stack' = [stack EXCEPT ![t] = Append(Front(@), a)]
    PROVE  /\ stack' \in [Threads -> Seq(Activation)]
           /\ \A u \in Threads : u # t => stack'[u] = stack[u]
           /\ Len(stack'[t]) = Len(stack[t]) /\ stack'[t] # <<>>
           /\ DOMAIN stack'[t] = 1 .. Len(stack[t])
           /\ \A i \in 1 .. Len(stack[t]) : i # Len(stack[t]) => stack'[t][i] = stack[t][i]
           /\ stack'[t][Len(stack[t])] = a /\ Last(stack'[t]) = a
<1> DEFINE s == stack[t]
           f == Front(s)
           r == Append(f, a)
<1>1. s \in Seq(Activation) /\ Len(s) \in Nat /\ Len(s) >= 1
  BY StackShape
<1>2. f \in Seq(Activation) /\ Len(f) = Len(s) - 1 /\ \A i \in 1 .. Len(s) - 1 : f[i] = s[i]
  BY <1>1, SubSeqProperties DEF Front
<1>3. stack' = [stack EXCEPT ![t] = r] /\ stack \in [Threads -> Seq(Activation)]
  BY DEF TypeOK
<1> HIDE DEF f
<1>4. /\ r \in Seq(Activation) /\ r # <<>> /\ Len(r) = Len(f) + 1
      /\ \A i \in 1 .. Len(f) : r[i] = f[i]
      /\ r[Len(f) + 1] = a
  BY <1>2, AppendProperties
<1>5. stack'[t] = r /\ \A u \in Threads : u # t => stack'[u] = stack[u]
  BY <1>3
<1>6. stack' \in [Threads -> Seq(Activation)]
  BY <1>3, <1>4
<1> HIDE DEF r
<1>7. DOMAIN r = 1 .. Len(r)
  BY <1>4, LenProperties
<1>8. Len(r) = Len(s) /\ r[Len(s)] = a /\ Last(r) = a
  BY <1>1, <1>2, <1>4 DEF Last
<1>9. \A i \in 1 .. Len(s) : i # Len(s) => r[i] = s[i]
  <2>1. SUFFICES ASSUME NEW i \in 1 .. Len(s), i # Len(s) PROVE r[i] = s[i]
    OBVIOUS
  <2>2. i \in 1 .. Len(s) - 1 /\ i \in 1 .. Len(f)
    BY <1>1, <1>2, <2>1
  <2>3. r[i] = f[i] /\ f[i] = s[i]
    BY <1>2, <1>4, <2>2
  <2>4. QED
    BY <2>3
<1>10. QED
  BY <1>4, <1>5, <1>6, <1>7, <1>8, <1>9

\* An activation on top of the others.
LEMMA TopAdded ==
    ASSUME TypeOK, NEW t \in Threads, NEW a \in Activation,
           stack' = [stack EXCEPT ![t] = Append(@, a)]
    PROVE  /\ stack' \in [Threads -> Seq(Activation)]
           /\ \A u \in Threads : u # t => stack'[u] = stack[u]
           /\ Len(stack'[t]) = Len(stack[t]) + 1 /\ stack'[t] # <<>>
           /\ DOMAIN stack'[t] = 1 .. Len(stack[t]) + 1
           /\ \A i \in 1 .. Len(stack[t]) : stack'[t][i] = stack[t][i]
           /\ stack'[t][Len(stack[t]) + 1] = a /\ Last(stack'[t]) = a
<1> DEFINE s == stack[t]
           r == Append(s, a)
<1>1. s \in Seq(Activation) /\ Len(s) \in Nat
  BY StackShape
<1>2. stack' = [stack EXCEPT ![t] = r] /\ stack \in [Threads -> Seq(Activation)]
  BY DEF TypeOK
<1>3. /\ r \in Seq(Activation) /\ r # <<>> /\ Len(r) = Len(s) + 1
      /\ \A i \in 1 .. Len(s) : r[i] = s[i]
      /\ r[Len(s) + 1] = a
  BY <1>1, AppendProperties
<1>4. stack'[t] = r /\ \A u \in Threads : u # t => stack'[u] = stack[u]
  BY <1>2
<1>5. stack' \in [Threads -> Seq(Activation)]
  BY <1>2, <1>3
<1> HIDE DEF r
<1>6. DOMAIN r = 1 .. Len(s) + 1 /\ Last(r) = a
  BY <1>3, LenProperties DEF Last
<1>7. QED
  BY <1>3, <1>4, <1>5, <1>6

\* The top activation is gone.
LEMMA TopGone ==
    ASSUME TypeOK, NEW t \in Threads, stack[t] # <<>>,
           stack' = [stack EXCEPT ![t] = Front(@)]
    PROVE  /\ stack' \in [Threads -> Seq(Activation)]
           /\ \A u \in Threads : u # t => stack'[u] = stack[u]
           /\ stack'[t] = Front(stack[t])
           /\ Len(stack'[t]) = Len(stack[t]) - 1
           /\ DOMAIN stack'[t] = 1 .. Len(stack[t]) - 1
           /\ \A i \in 1 .. Len(stack[t]) - 1 : stack'[t][i] = stack[t][i]
<1> DEFINE s == stack[t]
           f == Front(s)
<1>1. s \in Seq(Activation) /\ Len(s) \in Nat /\ Len(s) >= 1
  BY StackShape
<1>2. f \in Seq(Activation) /\ Len(f) = Len(s) - 1 /\ \A i \in 1 .. Len(s) - 1 : f[i] = s[i]
  BY <1>1, SubSeqProperties DEF Front
<1>3. stack' = [stack EXCEPT ![t] = f] /\ stack \in [Threads -> Seq(Activation)]
  BY DEF TypeOK
<1> HIDE DEF f
<1>4. stack'[t] = f /\ \A u \in Threads : u # t => stack'[u] = stack[u]
  BY <1>3
<1>5. stack' \in [Threads -> Seq(Activation)]
  BY <1>2, <1>3
<1>6. DOMAIN f = 1 .. Len(s) - 1
  BY <1>2, LenProperties
<1>7. QED
  BY <1>2, <1>4, <1>5, <1>6 DEF f

-----------------------------------------------------------------------------
(* The top activation moves on *)

\* A thread goes on in its handler, of the crash it was in.
MovesOn(t, a) ==
    /\ TypeOK /\ Nesting /\ t \in Threads /\ stack[t] # <<>>
    /\ a \in Activation /\ a.crash = Crash(t)
    /\ stack' = [stack EXCEPT ![t] = Append(Front(@), a)]

\* What a move leaves of a stack: its depth, the crashes in it, and all below the top.
LEMMA MoveShape ==
    ASSUME NEW t, NEW a, MovesOn(t, a)
    PROVE  /\ stack' \in [Threads -> Seq(Activation)]
           /\ \A u \in Threads : u # t => stack'[u] = stack[u]
           /\ Len(stack[t]) \in {1, 2} /\ stack'[t] # <<>>
           /\ Len(stack'[t]) = Len(stack[t]) /\ DOMAIN stack'[t] = DOMAIN stack[t]
           /\ DOMAIN stack[t] = 1 .. Len(stack[t])
           /\ \A i \in DOMAIN stack[t] :
                /\ i # Len(stack[t]) => stack'[t][i] = stack[t][i]
                /\ stack'[t][i].crash = stack[t][i].crash
           /\ stack'[t][Len(stack[t])] = a /\ Last(stack'[t]) = a /\ Crash(t)' = a.crash
           /\ stack[t][Len(stack[t])] = Last(stack[t])
<1> USE DEF MovesOn
<1>1. /\ stack' \in [Threads -> Seq(Activation)]
      /\ \A u \in Threads : u # t => stack'[u] = stack[u]
      /\ Len(stack'[t]) = Len(stack[t]) /\ stack'[t] # <<>>
      /\ DOMAIN stack'[t] = 1 .. Len(stack[t])
      /\ \A i \in 1 .. Len(stack[t]) : i # Len(stack[t]) => stack'[t][i] = stack[t][i]
      /\ stack'[t][Len(stack[t])] = a /\ Last(stack'[t]) = a
  BY TopReplaced
<1>2. /\ Len(stack[t]) \in Nat /\ DOMAIN stack[t] = 1 .. Len(stack[t])
      /\ Len(stack[t]) # 0
      /\ stack[t][Len(stack[t])] = Last(stack[t])
      /\ Crash(t) = Last(stack[t]).crash
  BY StackShape
<1>3. Len(stack[t]) \in {1, 2}
  <2>1. Len(stack[t]) <= Len(cause[t]) /\ Len(cause[t]) <= 2 /\ Len(cause[t]) \in Nat
    BY LenProperties DEF Nesting, TypeOK
  <2>2. \A x, y \in Nat : x <= y /\ y <= 2 /\ x # 0 => x \in {1, 2}
    OBVIOUS
  <2>3. QED
    BY <1>2, <2>1, <2>2, Zenon
<1>4. Crash(t)' = a.crash
  BY <1>1 DEF Crash
<1>5. \A i \in DOMAIN stack[t] : stack'[t][i].crash = stack[t][i].crash
  BY <1>1, <1>2
<1>6. QED
  BY <1>1, <1>2, <1>3, <1>4, <1>5

\* Nesting stays.
LEMMA MoveNests ==
    ASSUME NEW t, NEW a, MovesOn(t, a), UNCHANGED cause
    PROVE  Nesting'
<1>1. SUFFICES ASSUME NEW u \in Threads
               PROVE  /\ Len(stack'[u]) <= Len(cause[u]) /\ Len(cause[u]) <= 2
                      /\ Len(stack'[u]) = 2 =>
                           /\ stack'[u][1].at = "old"
                           /\ stack'[u][1].crash.sig # stack'[u][2].crash.sig
  BY DEF Nesting
<1>2. /\ Len(stack[u]) <= Len(cause[u]) /\ Len(cause[u]) <= 2
      /\ Len(stack[u]) = 2 => /\ stack[u][1].at = "old"
                              /\ stack[u][1].crash.sig # stack[u][2].crash.sig
  BY DEF MovesOn, Nesting
<1>3. CASE u # t
  BY <1>2, <1>3, MoveShape
<1>4. CASE u = t
  <2>1. /\ Len(stack'[t]) = Len(stack[t]) /\ DOMAIN stack[t] = 1 .. Len(stack[t])
        /\ \A i \in DOMAIN stack[t] :
             /\ i # Len(stack[t]) => stack'[t][i] = stack[t][i]
             /\ stack'[t][i].crash = stack[t][i].crash
    BY MoveShape
  <2>2. QED
    BY <1>2, <1>4, <2>1
<1>5. QED
  BY <1>3, <1>4

\* So does what is known of the guard, while the owner stays the owner.
LEMMA MoveGuards ==
    ASSUME NEW t, NEW a, MovesOn(t, a), Guarding, UNCHANGED <<guard, first>>,
           guard, a.at # "guard", a.owner = Last(stack[t]).owner,
           a.at = "dump" => a.owner
    PROVE  Guarding'
<1>1. /\ \A u \in Threads : u # t => stack'[u] = stack[u]
      /\ Len(stack[t]) \in {1, 2} /\ stack[t] # <<>> /\ stack'[t] # <<>>
      /\ DOMAIN stack'[t] = DOMAIN stack[t] /\ DOMAIN stack[t] = 1 .. Len(stack[t])
      /\ \A i \in DOMAIN stack[t] :
           /\ i # Len(stack[t]) => stack'[t][i] = stack[t][i]
           /\ stack'[t][i].crash = stack[t][i].crash
      /\ stack'[t][Len(stack[t])] = a
      /\ stack[t][Len(stack[t])] = Last(stack[t])
  <2>1. stack[t] # <<>>
    BY DEF MovesOn
  <2>2. QED
    BY <2>1, MoveShape
<1>2. \A i \in DOMAIN stack[t] : stack'[t][i].owner = stack[t][i].owner
  BY <1>1
<1>3. \A u \in Threads :
         /\ stack[u] # <<>> <=> stack'[u] # <<>>
         /\ stack[u] # <<>> => stack'[u][1].owner = stack[u][1].owner
  BY <1>1, <1>2
<1>4. ASSUME NEW u \in Threads, NEW i \in DOMAIN stack'[u]
      PROVE  /\ stack'[u][i].at = "guard" => ~ stack'[u][i].owner /\ stack'[u][i].writes = 0
             /\ stack'[u][i].at = "dump" => stack'[u][i].owner
             /\ stack'[u][i].owner => i = 1 /\ stack'[u][i].crash = first[1]
  <2>1. CASE u # t
    BY <1>1, <1>4, <2>1 DEF Guarding
  <2>2. CASE u = t
    <3>1. i \in DOMAIN stack[t] /\ t \in Threads
      BY <1>1, <1>4, <2>2 DEF MovesOn
    <3>2. stack'[t][i].owner => i = 1 /\ stack'[t][i].crash = first[1]
      BY <1>1, <1>2, <3>1 DEF Guarding
    <3>3. CASE i = Len(stack[t])
      BY <1>1, <2>2, <3>2, <3>3
    <3>4. CASE i # Len(stack[t])
      BY <1>1, <2>2, <3>1, <3>2, <3>4 DEF Guarding
    <3>5. QED
      BY <3>3, <3>4
  <2>3. QED
    BY <2>1, <2>2
<1>5. \A u, v \in Threads :
         stack'[u] # <<>> /\ stack'[v] # <<>> /\ stack'[u][1].owner /\ stack'[v][1].owner => u = v
  BY <1>3 DEF Guarding
<1>6. \E u \in Threads : stack'[u] # <<>> /\ stack'[u][1].owner
  BY <1>3 DEF Guarding
<1>7. QED
  BY <1>4, <1>5, <1>6 DEF Guarding

\* What waits is as before, if the move raises nothing.
LEMMA MoveWaits ==
    ASSUME NEW t, NEW a, MovesOn(t, a), Waiting, UNCHANGED <<action, pending>>,
           Last(stack[t]).at \notin {"reraise", "return"}, a.at # "return" \/ ~ a.owner
    PROVE  Waiting'
<1>1. /\ \A u \in Threads : u # t => stack'[u] = stack[u]
      /\ Last(stack'[t]) = a
  BY MoveShape
<1>2. pending[t] = {}
  BY DEF Waiting, MovesOn
<1>3. ASSUME NEW u \in Threads
      PROVE  /\ pending[u] # {} =>
                 /\ stack'[u] # <<>> /\ Last(stack'[u]).at \in {"reraise", "return"}
                 /\ pending[u] = {(Crash(u)').sig}
             /\ stack'[u] # <<>> /\ Last(stack'[u]).at = "return" /\ Last(stack'[u]).owner =>
                 pending[u] # {}
  <2>1. CASE u # t
    <3>1. stack'[u] = stack[u] /\ Crash(u)' = Crash(u)
      BY <1>1, <2>1 DEF Crash
    <3>2. QED
      BY <3>1 DEF Waiting
  <2>2. CASE u = t
    BY <1>1, <1>2, <2>2
  <2>3. QED
    BY <2>1, <2>2
<1>4. QED
  BY <1>3 DEF Waiting

\* A thread that raises the signal of its crash, at the end of its handler, waits for it.
LEMMA MoveRaises ==
    ASSUME NEW t, NEW a, MovesOn(t, a), Waiting,
           action' = [action EXCEPT ![Crash(t).sig] = "default"],
           pending' = [pending EXCEPT ![t] = @ \cup {Crash(t).sig}],
           a.at \in {"reraise", "return"}
    PROVE  Waiting'
<1>1. /\ \A u \in Threads : u # t => stack'[u] = stack[u]
      /\ Last(stack'[t]) = a /\ stack'[t] # <<>> /\ Crash(t)' = Crash(t)
  BY MoveShape DEF MovesOn
<1>2. t \in Threads /\ pending[t] \subseteq {Crash(t).sig} /\ Crash(t).sig \in Signals
  BY StackShape DEF Waiting, MovesOn
<1>3. pending'[t] = {Crash(t).sig} /\ \A u \in Threads : u # t => pending'[u] = pending[u]
  BY <1>2 DEF MovesOn, TypeOK
<1>4. ASSUME NEW u \in Threads
      PROVE  /\ pending'[u] # {} =>
                 /\ stack'[u] # <<>> /\ Last(stack'[u]).at \in {"reraise", "return"}
                 /\ pending'[u] = {(Crash(u)').sig}
             /\ stack'[u] # <<>> /\ Last(stack'[u]).at = "return" /\ Last(stack'[u]).owner =>
                 pending'[u] # {}
  <2>1. CASE u # t
    <3>1. stack'[u] = stack[u] /\ Crash(u)' = Crash(u) /\ pending'[u] = pending[u]
      BY <1>1, <1>3, <2>1 DEF Crash
    <3>2. QED
      BY <3>1 DEF Waiting
  <2>2. CASE u = t
    BY <1>1, <1>3, <2>2
  <2>3. QED
    BY <2>1, <2>2
<1>5. ASSUME NEW s \in Signals, action'[s] = "default"
      PROVE  \E u \in Threads : s \in pending'[u]
  <2>1. CASE s = Crash(t).sig
    BY <1>2, <1>3, <2>1
  <2>2. CASE s # Crash(t).sig
    <3>1. action[s] = "default"
      BY <1>5, <2>2 DEF MovesOn, TypeOK
    <3>2. PICK u \in Threads : s \in pending[u]
      BY <3>1 DEF Waiting
    <3>3. QED
      BY <1>2, <1>3, <2>2, <3>2
  <2>3. QED
    BY <2>1, <2>2
<1>6. QED
  BY <1>4, <1>5 DEF Waiting

\* The handler hands on.
LEMMA MoveHands ==
    ASSUME NEW t, NEW a, MovesOn(t, a), Handing, UNCHANGED old, heard \subseteq heard',
           a.at \in {"old", "reraise", "return"} /\ old[a.crash.sig] \in {"returns", "exits"}
             => t \in heard'
    PROVE  Handing'
<1>1. /\ \A u \in Threads : u # t => stack'[u] = stack[u]
      /\ DOMAIN stack'[t] = DOMAIN stack[t]
      /\ \A i \in DOMAIN stack[t] : i # Len(stack[t]) => stack'[t][i] = stack[t][i]
      /\ stack'[t][Len(stack[t])] = a
  BY MoveShape
<1>2. SUFFICES ASSUME NEW u \in Threads, NEW i \in DOMAIN stack'[u],
                      stack'[u][i].at \in {"old", "reraise", "return"},
                      old[stack'[u][i].crash.sig] \in {"returns", "exits"}
               PROVE  u \in heard'
  BY DEF Handing
<1>3. CASE u = t /\ i = Len(stack[t])
  BY <1>1, <1>2, <1>3
<1>4. CASE ~ (u = t /\ i = Len(stack[t]))
  <2>1. i \in DOMAIN stack[u] /\ stack'[u][i] = stack[u][i]
    BY <1>1, <1>2, <1>4
  <2>2. QED
    BY <1>2, <2>1 DEF Handing
<1>5. QED
  BY <1>3, <1>4

\* The dump is left as it is by a handler that does not write it.
LEMMA MoveDumps ==
    ASSUME NEW t, NEW a, MovesOn(t, a), Dumping, UNCHANGED <<dump, first>>,
           a.owner = Last(stack[t]).owner, Last(stack[t]).at # "dump", a.at # "dump"
    PROVE  Dumping'
<1>1. /\ \A u \in Threads : u # t => stack'[u] = stack[u]
      /\ Len(stack[t]) \in {1, 2} /\ stack[t] # <<>> /\ t \in Threads
      /\ DOMAIN stack[t] = 1 .. Len(stack[t])
      /\ \A i \in DOMAIN stack[t] : i # Len(stack[t]) => stack'[t][i] = stack[t][i]
      /\ stack'[t][Len(stack[t])] = a
      /\ stack[t][Len(stack[t])] = Last(stack[t])
  <2>1. t \in Threads
    BY DEF MovesOn
  <2>2. QED
    BY <2>1, MoveShape
<1>2. SUFFICES ASSUME NEW u \in Threads, stack'[u] # <<>>, stack'[u][1].owner
               PROVE  LET n == Len(WritesOf[first[1]])
                          k == IF stack'[u][1].at = "dump" THEN stack'[u][1].writes ELSE n
                      IN  k <= n /\ Taken(dump, first[1], k)
  BY DEF Dumping
<1>3. CASE u # t
  BY <1>1, <1>2, <1>3 DEF Dumping
<1>4. CASE u = t /\ Len(stack[t]) = 2
  BY <1>1, <1>2, <1>4 DEF Dumping
<1>5. CASE u = t /\ Len(stack[t]) = 1
  BY <1>1, <1>2, <1>5 DEF Dumping
<1>6. QED
  BY <1>1, <1>3, <1>4, <1>5

-----------------------------------------------------------------------------
(* The steps of a handler *)

\* The activation a thread puts in the place of its top.
LEMMA PutMoves ==
    ASSUME TypeOK, Nesting, NEW t \in Threads, stack[t] # <<>>, NEW p \in Places,
           stack' = Put(t, p)
    PROVE  LET a == [Last(stack[t]) EXCEPT !.at = p]
           IN  /\ MovesOn(t, a)
               /\ a.at = p /\ a.owner = Last(stack[t]).owner
               /\ a.crash = Crash(t) /\ a.writes = Last(stack[t]).writes
<1> DEFINE top == Last(stack[t])
           a == [top EXCEPT !.at = p]
<1>1. top \in Activation /\ Crash(t) = top.crash
  BY StackShape
<1> HIDE DEF top
<1>2. /\ a \in Activation /\ a.at = p /\ a.owner = top.owner
      /\ a.crash = Crash(t) /\ a.writes = top.writes
  BY <1>1 DEF Activation
<1>3. stack' = [stack EXCEPT ![t] = Append(Front(@), a)]
  BY DEF Put, top
<1> HIDE DEF a
<1>4. QED
  BY <1>2, <1>3 DEF MovesOn, a, top

\* A handler that another crash came before passes on; the first one takes the guard.
LEMMA TestAndSetKeeps ==
    ASSUME TypeOK, Alive, NEW t \in Threads, TestAndSet(t)
    PROVE  TypeOK' /\ Alive'
<1> DEFINE top == Last(stack[t])
<1>1. stack[t] # <<>> /\ top.at = "guard"
  BY DEF TestAndSet, In
<1>2. Nesting /\ Guarding /\ Waiting /\ Handing /\ Dumping
  BY DEF Alive
<1>3. UNCHANGED <<action, old, cause, pending, dump, full, fills, heard>> /\ guard' = TRUE
  BY DEF TestAndSet
<1>4. /\ stack[t] \in Seq(Activation) /\ top \in Activation /\ Crash(t) \in Crashes
      /\ Len(stack[t]) \in DOMAIN stack[t] /\ top = stack[t][Len(stack[t])]
      /\ Crash(t) = top.crash
  BY <1>1, StackShape
<1>5. ~ top.owner
  BY <1>1, <1>2, <1>4 DEF Guarding
<1>6. CASE guard
  <2> DEFINE a == [top EXCEPT !.at = "chain"]
  <2>1. stack' = Put(t, "chain") /\ UNCHANGED <<guard, first>>
    BY <1>3, <1>6 DEF TestAndSet
  <2>2. MovesOn(t, a) /\ a.at = "chain" /\ a.owner = top.owner
    BY <1>1, <1>2, <2>1, PutMoves DEF Places
  <2> HIDE DEF a
  <2>3. TypeOK'
    <3>1. stack' \in [Threads -> Seq(Activation)]
      BY <2>2, MoveShape
    <3>2. QED
      BY <1>3, <2>1, <3>1 DEF TypeOK
  <2>4. Nesting'
    BY <1>3, <2>2, MoveNests
  <2>5. Guarding'
    BY <1>6, <1>2, <2>1, <2>2, MoveGuards
  <2>6. Waiting'
    BY <1>1, <1>2, <1>3, <2>2, MoveWaits
  <2>7. Handing'
    BY <1>2, <1>3, <2>2, MoveHands
  <2>8. Dumping'
    BY <1>1, <1>2, <1>3, <2>1, <2>2, MoveDumps
  <2>9. QED
    BY <2>3, <2>4, <2>5, <2>6, <2>7, <2>8 DEF Alive
<1>7. CASE ~ guard
  <2> DEFINE a == [top EXCEPT !.at = "dump", !.owner = TRUE]
  <2>1. /\ stack' = [stack EXCEPT ![t] = Append(Front(@), a)]
        /\ first' = <<Crash(t)>>
    BY <1>7 DEF TestAndSet
  <2>2. a \in Activation /\ a.at = "dump" /\ a.owner = TRUE /\ a.crash = Crash(t)
        /\ a.writes = top.writes
    <3> HIDE DEF top
    <3>1. QED
      BY <1>4 DEF Activation, Places
  <2> HIDE DEF a
  <2>3. MovesOn(t, a)
    BY <1>1, <1>2, <2>1, <2>2 DEF MovesOn
  <2>4. /\ stack' \in [Threads -> Seq(Activation)]
        /\ \A u \in Threads : u # t => stack'[u] = stack[u]
        /\ Len(stack[t]) \in {1, 2} /\ stack'[t] # <<>>
        /\ Len(stack'[t]) = Len(stack[t]) /\ DOMAIN stack'[t] = DOMAIN stack[t]
        /\ DOMAIN stack[t] = 1 .. Len(stack[t])
        /\ stack'[t][Len(stack[t])] = a
    BY <2>3, MoveShape
  <2>5. first = <<>> /\ first' \in Seq(Crashes) /\ first' # <<>> /\ first'[1] = Crash(t)
    BY <1>2, <1>4, <1>7, <2>1 DEF Guarding
  <2>6. \A u \in Threads : \A i \in DOMAIN stack[u] :
           stack[u][i].at = "guard" /\ ~ stack[u][i].owner /\ stack[u][i].writes = 0
    BY <1>2, <1>7 DEF Guarding
  <2>7. Len(stack[t]) = 1
    <3>1. Len(stack[t]) # 2
      BY <1>2, <2>4, <2>6 DEF Nesting
    <3>2. QED
      BY <2>4, <3>1
  <2>8. TypeOK'
    BY <1>3, <2>4, <2>5 DEF TypeOK
  <2>9. Nesting'
    BY <1>3, <2>3, MoveNests
  <2>10. \A u \in Threads : u # t /\ stack[u] # <<>> => ~ stack'[u][1].owner
    <3>1. ASSUME NEW u \in Threads, u # t, stack[u] # <<>> PROVE ~ stack'[u][1].owner
      <4>1. 1 \in DOMAIN stack[u]
        BY <3>1, StackShape
      <4>2. QED
        BY <2>4, <2>6, <3>1, <4>1
    <3>2. QED
      BY <3>1
  <2>11. stack'[t][1] = a /\ DOMAIN stack'[t] = {1}
    BY <2>4, <2>7
  <2>12. Guarding'
    <3>1. ASSUME NEW u \in Threads, NEW i \in DOMAIN stack'[u]
          PROVE  /\ stack'[u][i].at = "guard" => ~ stack'[u][i].owner /\ stack'[u][i].writes = 0
                 /\ stack'[u][i].at = "dump" => stack'[u][i].owner
                 /\ stack'[u][i].owner => i = 1 /\ stack'[u][i].crash = first'[1]
      <4>1. CASE u = t
        BY <2>2, <2>5, <2>11, <3>1, <4>1
      <4>2. CASE u # t
        <5>1. stack'[u][i].at = "guard" /\ ~ stack'[u][i].owner /\ stack'[u][i].writes = 0
          BY <2>4, <2>6, <3>1, <4>2
        <5>2. QED
          BY <5>1
      <4>3. QED
        BY <4>1, <4>2
    <3>2. ASSUME NEW u \in Threads, NEW v \in Threads, stack'[u] # <<>>, stack'[v] # <<>>,
                 stack'[u][1].owner, stack'[v][1].owner
          PROVE  u = v
      BY <2>4, <2>10, <3>2
    <3>3. stack'[t] # <<>> /\ stack'[t][1].owner
      BY <2>2, <2>4, <2>11
    <3>4. QED
      BY <1>3, <2>5, <3>1, <3>2, <3>3 DEF Guarding
  <2>13. Waiting'
    BY <1>1, <1>2, <1>3, <2>2, <2>3, MoveWaits
  <2>14. Handing'
    BY <1>2, <1>3, <2>2, <2>3, MoveHands
  <2>15. Dumping'
    <3>1. dump' = <<>>
      BY <1>2, <1>3, <2>5 DEF Dumping
    <3>2. a.writes = 0
      BY <1>4, <2>2, <2>6
    <3>3. 0 <= Len(WritesOf[first'[1]]) /\ Taken(<<>>, first'[1], 0)
      <4>1. /\ \A c \in Crashes : Len(WritesOf[c]) \in Nat /\ Len(WritesOf[c]) >= 1
            /\ \A c \in Crashes : Taken(<<>>, c, 0)
        BY WritesAreASequence DEF Taken
      <4>2. first'[1] \in Crashes
        BY <1>4, <2>5
      <4>3. \A n \in Nat : 0 <= n
        OBVIOUS
      <4>4. QED
        BY <4>1, <4>2, <4>3, Zenon
    <3>4. SUFFICES ASSUME NEW u \in Threads, stack'[u] # <<>>, stack'[u][1].owner
                   PROVE  LET n == Len(WritesOf[first'[1]])
                              k == IF stack'[u][1].at = "dump" THEN stack'[u][1].writes ELSE n
                          IN  k <= n /\ Taken(dump', first'[1], k)
      BY <2>5 DEF Dumping
    <3>5. u = t
      BY <2>4, <2>10, <3>4
    <3>6. stack'[u][1] = a
      BY <2>11, <3>5
    <3>7. QED
      BY <2>2, <3>1, <3>2, <3>3, <3>6
  <2>16. QED
    BY <2>8, <2>9, <2>12, <2>13, <2>14, <2>15 DEF Alive
<1>8. QED
  BY <1>6, <1>7

\* The handler that dumps is the outer one of its thread, in the crash that was first.
LEMMA DumperShape ==
    ASSUME TypeOK, Alive, NEW t \in Threads, In(t, "dump")
    PROVE  /\ stack[t] # <<>> /\ Last(stack[t]).at = "dump" /\ Last(stack[t]).owner
           /\ Len(stack[t]) = 1 /\ Last(stack[t]) = stack[t][1]
           /\ guard /\ first[1] = Crash(t) /\ Crash(t) \in Crashes
           /\ Last(stack[t]) \in Activation
<1>1. stack[t] # <<>> /\ Last(stack[t]).at = "dump"
  BY DEF In
<1>2. /\ Last(stack[t]) \in Activation /\ Crash(t) \in Crashes
      /\ Len(stack[t]) \in DOMAIN stack[t] /\ Last(stack[t]) = stack[t][Len(stack[t])]
      /\ Crash(t) = Last(stack[t]).crash
  BY <1>1, StackShape
<1>3. /\ guard /\ Last(stack[t]).owner
      /\ Len(stack[t]) = 1 /\ Last(stack[t]).crash = first[1]
  <2>1. Guarding
    BY DEF Alive
  <2> DEFINE top == Last(stack[t])
             i == Len(stack[t])
  <2>2. i \in DOMAIN stack[t] /\ stack[t][i] = top
    BY <1>2
  <2>3. /\ top.at # "guard" => guard
        /\ top.at = "dump" => top.owner
        /\ top.owner => i = 1 /\ top.crash = first[1]
    <3> HIDE DEF top, i
    <3>1. QED
      BY <2>1, <2>2 DEF Guarding
  <2>4. QED
    BY <1>1, <2>3
<1>4. QED
  BY <1>1, <1>2, <1>3

\* The other handlers are not the owner.
LEMMA OneOwner ==
    ASSUME Guarding, NEW t \in Threads, stack[t] # <<>>, stack[t][1].owner,
           NEW u \in Threads, stack[u] # <<>>, stack[u][1].owner
    PROVE  u = t
BY DEF Guarding

\* A write adds what the disk takes of its own text.
LEMMA WriteKeeps ==
    ASSUME TypeOK, Alive, NEW t \in Threads, Write(t)
    PROVE  TypeOK' /\ Alive'
<1> DEFINE top == Last(stack[t])
           next == top.writes + 1
           a == [top EXCEPT !.writes = next]
<1>1. /\ stack[t] # <<>> /\ top.at = "dump" /\ top.owner
      /\ Len(stack[t]) = 1 /\ top = stack[t][1]
      /\ guard /\ first[1] = Crash(t) /\ Crash(t) \in Crashes
      /\ top \in Activation
  BY DumperShape DEF Write
<1>2. Nesting /\ Guarding /\ Waiting /\ Handing /\ Dumping
  BY DEF Alive
<1>3. /\ UNCHANGED <<action, old, guard, cause, pending, first, heard>>
      /\ stack' = [stack EXCEPT ![t] = Append(Front(@), a)]
      /\ next <= Len(WritesOf[first[1]])
      /\ \/ UNCHANGED <<full, fills>>
         \/ full' \in BOOLEAN /\ UNCHANGED fills
         \/ full' \in BOOLEAN /\ fills > 0 /\ fills' = fills - 1
  BY <1>1 DEF Write
<1>4. PICK piece \in Prefixes(WritesOf[first[1]][next]) : dump' = Append(dump, piece)
  BY <1>1 DEF Write
<1>5. /\ a \in Activation /\ a.at = top.at /\ a.owner = top.owner
      /\ a.crash = Crash(t) /\ a.writes = next
  <2>1. Crash(t) = top.crash
    BY DEF Crash
  <2> HIDE DEF top
  <2>2. top \in Activation /\ top.writes \in Nat /\ next \in Nat
    BY <1>1 DEF Activation
  <2> HIDE DEF next
  <2>3. QED
    BY <2>1, <2>2 DEF Activation
<1> HIDE DEF a
<1>6. MovesOn(t, a)
  BY <1>1, <1>2, <1>3, <1>5 DEF MovesOn
<1>7. /\ stack' \in [Threads -> Seq(Activation)]
      /\ \A u \in Threads : u # t => stack'[u] = stack[u]
      /\ stack'[t] # <<>> /\ stack'[t][1] = a
  BY <1>1, <1>6, MoveShape
<1>8. TypeOK'
  <2>1. full' \in BOOLEAN /\ fills' \in Nat
    BY <1>3 DEF TypeOK
  <2>2. dump' \in Seq(Pieces)
    <3>1. next \in 1 .. Len(WritesOf[first[1]])
      BY <1>1, <1>3, WritesAreASequence DEF Activation
    <3>2. first[1] \in Crashes /\ next \in DOMAIN WritesOf[first[1]]
      BY <1>1, <3>1, WritesAreASequence
    <3> HIDE DEF next
    <3>3. piece \in Pieces
      BY <1>4, <3>2 DEF Pieces
    <3>4. dump \in Seq(Pieces)
      BY DEF TypeOK
    <3>5. QED
      BY <1>4, <3>3, <3>4, AppendProperties
  <2>3. QED
    BY <1>3, <1>7, <2>1, <2>2 DEF TypeOK
<1>9. Nesting'
  BY <1>3, <1>6, MoveNests
<1>10. Guarding'
  BY <1>1, <1>2, <1>3, <1>5, <1>6, MoveGuards
<1>11. Waiting'
  BY <1>1, <1>2, <1>3, <1>5, <1>6, MoveWaits
<1>12. Handing'
  BY <1>1, <1>2, <1>3, <1>5, <1>6, MoveHands
<1>13. Dumping'
  <2> DEFINE c == first[1]
             n == Len(WritesOf[c])
  <2>1. first # <<>>
    BY <1>1, <1>2 DEF Guarding
  <2>2. Taken(dump, c, top.writes)
    BY <1>1, <1>2 DEF Dumping
  <2>3. next \in 1 .. n /\ next - 1 = top.writes
    <3>1. top.writes \in Nat /\ n \in Nat
      BY <1>1, WritesAreASequence DEF Activation
    <3>2. QED
      BY <1>3, <3>1
  <2>4. Taken(dump', c, next)
    <3>1. Len(dump') = Len(dump) + 1 /\ Len(dump) = next - 1 /\ Len(dump) \in Nat
      BY <1>4, <2>2, <2>3, AppendProperties, LenProperties DEF TypeOK, Taken
    <3>2. ASSUME NEW i \in 1 .. next
          PROVE  dump'[i] \in Prefixes(WritesOf[c][i])
      <4>1. CASE i = next
        BY <1>4, <3>1, <4>1, AppendProperties DEF TypeOK
      <4>2. CASE i # next
        BY <1>4, <2>2, <3>1, <3>2, <4>2, AppendProperties DEF TypeOK, Taken
      <4>3. QED
        BY <4>1, <4>2
    <3>3. QED
      BY <2>3, <3>1, <3>2 DEF Taken
  <2>5. next <= n /\ Taken(dump', c, next)
    BY <1>3, <2>4
  <2>6. SUFFICES ASSUME NEW u \in Threads, stack'[u] # <<>>, stack'[u][1].owner
                 PROVE  LET k == IF stack'[u][1].at = "dump" THEN stack'[u][1].writes ELSE n
                        IN  k <= n /\ Taken(dump', c, k)
    BY <1>3, <2>1 DEF Dumping
  <2>7. u = t
    BY <1>1, <1>2, <1>7, <2>6, OneOwner
  <2>8. stack'[u][1].at = "dump" /\ stack'[u][1].writes = next
    BY <1>1, <1>5, <1>7, <2>7
  <2> HIDE DEF c, n, next
  <2>9. QED
    BY <2>5, <2>8
<1>14. QED
  BY <1>8, <1>9, <1>10, <1>11, <1>12, <1>13 DEF Alive

\* After its last write the handler goes to the hand-off, and the dump is whole.
LEMMA DumpIsWrittenKeeps ==
    ASSUME TypeOK, Alive, NEW t \in Threads, DumpIsWritten(t)
    PROVE  TypeOK' /\ Alive'
<1> DEFINE top == Last(stack[t])
           a == [top EXCEPT !.at = "chain"]
<1>1. /\ stack[t] # <<>> /\ top.at = "dump" /\ top.owner
      /\ Len(stack[t]) = 1 /\ top = stack[t][1]
      /\ guard /\ first[1] = Crash(t) /\ Crash(t) \in Crashes
  BY DumperShape DEF DumpIsWritten
<1>2. Nesting /\ Guarding /\ Waiting /\ Handing /\ Dumping
  BY DEF Alive
<1>3. /\ UNCHANGED <<action, old, guard, cause, pending, dump, full, fills, first, heard>>
      /\ stack' = Put(t, "chain")
      /\ top.writes = Len(WritesOf[first[1]])
  BY <1>1 DEF DumpIsWritten
<1>4. MovesOn(t, a) /\ a.at = "chain" /\ a.owner = top.owner
  BY <1>1, <1>2, <1>3, PutMoves DEF Places
<1> HIDE DEF a
<1>5. /\ stack' \in [Threads -> Seq(Activation)]
      /\ \A u \in Threads : u # t => stack'[u] = stack[u]
      /\ stack'[t] # <<>> /\ stack'[t][1] = a
  BY <1>1, <1>4, MoveShape
<1>6. TypeOK'
  BY <1>3, <1>5 DEF TypeOK
<1>7. Nesting'
  BY <1>3, <1>4, MoveNests
<1>8. Guarding'
  BY <1>1, <1>2, <1>3, <1>4, MoveGuards
<1>9. Waiting'
  BY <1>1, <1>2, <1>3, <1>4, MoveWaits
<1>10. Handing'
  BY <1>1, <1>2, <1>3, <1>4, MoveHands
<1>11. Dumping'
  <2> DEFINE c == first[1]
             n == Len(WritesOf[c])
  <2>1. first # <<>>
    BY <1>1, <1>2 DEF Guarding
  <2>2. n <= n /\ Taken(dump, c, n)
    BY <1>1, <1>2, <1>3 DEF Dumping
  <2>3. SUFFICES ASSUME NEW u \in Threads, stack'[u] # <<>>, stack'[u][1].owner
                 PROVE  LET k == IF stack'[u][1].at = "dump" THEN stack'[u][1].writes ELSE n
                        IN  k <= n /\ Taken(dump', c, k)
    BY <1>3, <2>1 DEF Dumping
  <2>4. u = t
    BY <1>1, <1>2, <1>5, <2>3, OneOwner
  <2>5. stack'[u][1].at # "dump"
    BY <1>4, <1>5, <2>4
  <2> HIDE DEF c, n
  <2>6. QED
    BY <1>3, <2>2, <2>5
<1>12. QED
  BY <1>6, <1>7, <1>8, <1>9, <1>10, <1>11 DEF Alive

\* The hand-off: to the old handler, or with the default action and the signal raised.
LEMMA ChainKeeps ==
    ASSUME TypeOK, Alive, NEW t \in Threads, Chain(t)
    PROVE  TypeOK' /\ Alive'
<1> DEFINE top == Last(stack[t])
           p == IF old[Crash(t).sig] \in {"returns", "exits"} THEN "old" ELSE AfterChain(t)
           a == [top EXCEPT !.at = p]
           sig == Crash(t).sig
<1>1. stack[t] # <<>> /\ top.at = "chain"
  BY DEF Chain, In
<1>2. Nesting /\ Guarding /\ Waiting /\ Handing /\ Dumping
  BY DEF Alive
<1>3. /\ Crash(t) \in Crashes /\ sig \in Signals /\ Crash(t) = top.crash
      /\ Len(stack[t]) \in DOMAIN stack[t] /\ top = stack[t][Len(stack[t])]
  BY <1>1, StackShape
<1>4. guard
  BY <1>1, <1>2, <1>3 DEF Guarding
<1>5. UNCHANGED <<old, guard, cause, dump, full, fills, first>>
  BY DEF Chain
<1>6. old[sig] \in {"default", "ignore", "returns", "exits"}
  BY <1>3 DEF TypeOK, OldHandlers
<1>7. /\ stack' = Put(t, p)
      /\ \/ /\ p = AfterChain(t) /\ UNCHANGED heard /\ old[sig] \notin {"returns", "exits"}
            /\ action' = [action EXCEPT ![sig] = "default"]
            /\ pending' = [pending EXCEPT ![t] = @ \cup {sig}]
         \/ /\ p = "old" /\ heard' = heard \cup {t} /\ UNCHANGED <<action, pending>>
  BY DEF Chain, Raised
<1>8. AfterChain(t) \in {"reraise", "return"}
  BY DEF AfterChain
<1>9. p \in {"old", "reraise", "return"} /\ p \in Places
  BY <1>8 DEF Places
<1> HIDE DEF p
<1>10. MovesOn(t, a) /\ a.at = p /\ a.owner = top.owner /\ a.crash = Crash(t)
  BY <1>1, <1>2, <1>7, <1>9, PutMoves
<1> HIDE DEF a, sig
<1>11. TypeOK'
  <2>1. stack' \in [Threads -> Seq(Activation)]
    BY <1>10, MoveShape
  <2>2. heard' \subseteq Threads
    BY <1>7 DEF TypeOK
  <2>3. /\ action' \in [Signals -> {"ours", "default"}]
        /\ pending' \in [Threads -> SUBSET Signals]
    <3>1. CASE UNCHANGED <<action, pending>>
      BY <3>1 DEF TypeOK
    <3>2. CASE /\ action' = [action EXCEPT ![sig] = "default"]
               /\ pending' = [pending EXCEPT ![t] = @ \cup {sig}]
      <4>1. sig \in Signals
        BY <1>3 DEF sig
      <4>2. pending[t] \cup {sig} \in SUBSET Signals
        BY <4>1 DEF TypeOK
      <4>3. QED
        BY <3>2, <4>1, <4>2 DEF TypeOK
    <3>3. QED
      BY <1>7, <3>1, <3>2
  <2>4. QED
    BY <1>5, <2>1, <2>2, <2>3 DEF TypeOK
<1>12. Nesting'
  BY <1>5, <1>10, MoveNests
<1>13. Guarding'
  BY <1>2, <1>4, <1>5, <1>9, <1>10, MoveGuards
<1>14. Waiting'
  <2>1. CASE p = "old" /\ UNCHANGED <<action, pending>>
    BY <1>1, <1>2, <1>10, <2>1, MoveWaits
  <2>2. CASE /\ p = AfterChain(t)
             /\ action' = [action EXCEPT ![sig] = "default"]
             /\ pending' = [pending EXCEPT ![t] = @ \cup {sig}]
    BY <1>2, <1>8, <1>10, <2>2, MoveRaises DEF sig
  <2>3. QED
    BY <1>7, <2>1, <2>2
<1>15. Handing'
  BY <1>2, <1>5, <1>7, <1>10, MoveHands DEF sig
<1>16. Dumping'
  BY <1>1, <1>2, <1>5, <1>9, <1>10, MoveDumps
<1>17. QED
  BY <1>11, <1>12, <1>13, <1>14, <1>15, <1>16 DEF Alive

\* An old handler that returns leaves it to the handler that dumped to raise the signal.
LEMMA OldHandlerEndsKeeps ==
    ASSUME TypeOK, Alive, NEW t \in Threads, OldHandlerEnds(t)
    PROVE  TypeOK' /\ (life'.now = "alive" => Alive') /\ life'.now # "signalled"
<1> DEFINE top == Last(stack[t])
           p == AfterChain(t)
           a == [top EXCEPT !.at = p]
<1>1. stack[t] # <<>> /\ top.at = "old" /\ life.now = "alive"
  BY DEF OldHandlerEnds, In
<1>2. Nesting /\ Guarding /\ Waiting /\ Handing /\ Dumping
  BY DEF Alive
<1>3. UNCHANGED <<action, old, guard, cause, pending, dump, full, fills, first, heard>>
  BY DEF OldHandlerEnds
<1>4. CASE old[Crash(t).sig] = "exits" /\ life' = [now |-> "exited"] /\ UNCHANGED stack
  <2>1. life'.now = "exited"
    BY <1>4
  <2>2. TypeOK'
    BY <1>3, <1>4 DEF TypeOK
  <2>3. QED
    BY <2>1, <2>2
<1>5. CASE old[Crash(t).sig] = "returns" /\ stack' = Put(t, p) /\ UNCHANGED life
  <2>1. /\ Crash(t) = top.crash /\ Len(stack[t]) \in DOMAIN stack[t]
        /\ top = stack[t][Len(stack[t])]
    BY <1>1, StackShape
  <2>2. guard /\ t \in heard
    BY <1>1, <1>2, <1>5, <2>1 DEF Guarding, Handing
  <2>3. p \in {"reraise", "return"} /\ p \in Places /\ (top.owner => p = "reraise")
    BY DEF AfterChain, Places
  <2> HIDE DEF p
  <2>4. MovesOn(t, a) /\ a.at = p /\ a.owner = top.owner /\ a.crash = Crash(t)
    BY <1>1, <1>2, <1>5, <2>3, PutMoves
  <2> HIDE DEF a
  <2>5. TypeOK'
    <3>1. stack' \in [Threads -> Seq(Activation)]
      BY <2>4, MoveShape
    <3>2. QED
      BY <1>3, <3>1 DEF TypeOK
  <2>6. Nesting'
    BY <1>3, <2>4, MoveNests
  <2>7. Guarding'
    BY <1>2, <1>3, <2>2, <2>3, <2>4, MoveGuards
  <2>8. Waiting'
    BY <1>1, <1>2, <1>3, <2>3, <2>4, MoveWaits
  <2>9. Handing'
    BY <1>2, <1>3, <2>2, <2>4, MoveHands
  <2>10. Dumping'
    BY <1>1, <1>2, <1>3, <2>3, <2>4, MoveDumps
  <2>11. QED
    BY <1>1, <1>5, <2>5, <2>6, <2>7, <2>8, <2>9, <2>10 DEF Alive
<1>6. QED
  BY <1>4, <1>5 DEF OldHandlerEnds

\* The signal raised at the end waits until the handler returns.
LEMMA ReraiseKeeps ==
    ASSUME TypeOK, Alive, NEW t \in Threads, Reraise(t)
    PROVE  TypeOK' /\ Alive'
<1> DEFINE top == Last(stack[t])
           a == [top EXCEPT !.at = "return"]
           sig == Crash(t).sig
<1>1. stack[t] # <<>> /\ top.at = "reraise"
  BY DEF Reraise, In
<1>2. Nesting /\ Guarding /\ Waiting /\ Handing /\ Dumping
  BY DEF Alive
<1>3. /\ UNCHANGED <<old, guard, cause, dump, full, fills, first, heard>>
      /\ action' = [action EXCEPT ![sig] = "default"]
      /\ pending' = [pending EXCEPT ![t] = @ \cup {sig}]
      /\ stack' = Put(t, "return")
  BY DEF Reraise, Raised
<1>4. /\ Crash(t) = top.crash /\ Len(stack[t]) \in DOMAIN stack[t]
      /\ top = stack[t][Len(stack[t])] /\ sig \in Signals
  BY <1>1, StackShape
<1>5. guard /\ (old[sig] \in {"returns", "exits"} => t \in heard)
  <2>1. guard
    BY <1>1, <1>2, <1>4 DEF Guarding
  <2>2. old[top.crash.sig] \in {"returns", "exits"} => t \in heard
    <3> HIDE DEF top
    <3>1. QED
      BY <1>1, <1>2, <1>4 DEF Handing
  <2>3. QED
    BY <1>4, <2>1, <2>2
<1>6. MovesOn(t, a) /\ a.at = "return" /\ a.owner = top.owner /\ a.crash = Crash(t)
  BY <1>1, <1>2, <1>3, PutMoves DEF Places
<1> HIDE DEF a, sig
<1>7. TypeOK'
  <2>1. stack' \in [Threads -> Seq(Activation)]
    BY <1>6, MoveShape
  <2>2. pending[t] \cup {sig} \in SUBSET Signals
    BY <1>4 DEF TypeOK
  <2>3. action' \in [Signals -> {"ours", "default"}] /\ pending' \in [Threads -> SUBSET Signals]
    BY <1>3, <1>4, <2>2 DEF TypeOK
  <2>4. QED
    BY <1>3, <2>1, <2>3 DEF TypeOK
<1>8. Nesting'
  BY <1>3, <1>6, MoveNests
<1>9. Guarding'
  BY <1>2, <1>3, <1>5, <1>6, MoveGuards
<1>10. Waiting'
  BY <1>2, <1>3, <1>6, MoveRaises DEF sig
<1>11. Handing'
  BY <1>2, <1>3, <1>5, <1>6, MoveHands DEF sig
<1>12. Dumping'
  BY <1>1, <1>2, <1>3, <1>6, MoveDumps
<1>13. QED
  BY <1>7, <1>8, <1>9, <1>10, <1>11, <1>12 DEF Alive

\* A fault enters the handler, unless its signal is blocked or has the default action: a
\* process of one crash has then come to neither, since no signal waits in another thread.
LEMMA FaultKeeps ==
    ASSUME TypeOK, Alive, NEW t \in Threads, Fault(t)
    PROVE  TypeOK' /\ (life'.now = "alive" => Alive') /\ HandedOn'
<1> DEFINE n == Len(stack[t])
           crash == cause[t][n + 1]
           a == [at |-> "guard", crash |-> crash, writes |-> 0, owner |-> FALSE]
<1>1. Nesting /\ Guarding /\ Waiting /\ Handing /\ Dumping
  BY DEF Alive
<1>2. /\ life.now = "alive" /\ (stack[t] = <<>> \/ (stack[t] # <<>> /\ Last(stack[t]).at = "old"))
      /\ Len(cause[t]) > n
      /\ UNCHANGED <<action, old, guard, cause, pending, dump, full, fills, first, heard>>
  BY DEF Fault, In
<1>3. /\ n \in Nat /\ n <= 1 /\ (stack[t] = <<>> <=> n = 0) /\ crash \in Crashes
      /\ DOMAIN stack[t] = 1 .. n /\ crash.sig \in Signals /\ Len(cause[t]) \in Nat
      /\ Last(stack[t]) = stack[t][n]
  <2>1. n \in Nat /\ (stack[t] = <<>> <=> n = 0) /\ DOMAIN stack[t] = 1 .. n
    BY StackShape
  <2>2. cause[t] \in Seq(Crashes) /\ Len(cause[t]) \in Nat
    BY LenProperties DEF TypeOK
  <2>3. n <= 1
    <3>1. Len(cause[t]) <= 2
      BY <1>1 DEF Nesting
    <3>2. QED
      BY <1>2, <2>1, <2>2, <3>1
  <2>4. n + 1 \in 1 .. Len(cause[t])
    BY <1>2, <2>1, <2>2
  <2>5. crash \in Crashes
    BY <2>2, <2>4, ElementOfSeq
  <2>6. QED
    BY <2>1, <2>2, <2>3, <2>5 DEF Signals, Last
<1>4. CASE /\ crash.sig \in Blocked(stack[t]) \/ action[crash.sig] = "default"
           /\ life' = DiesOf(t, crash.sig) /\ UNCHANGED stack
  <2>1. life'.now = "signalled" /\ life'.thread = t
    BY <1>4 DEF DiesOf
  <2>2. TypeOK'
    BY <1>2, <1>4 DEF TypeOK
  <2>3. HandedOn'
    <3>1. SUFFICES ASSUME \A u \in Threads \ {t} : stack[u] = <<>>, Len(cause[t]) < 2
                   PROVE  FALSE
      BY <1>2, <1>4, <2>1 DEF HandedOn
    <3>2. n = 0 /\ stack[t] = <<>>
      BY <1>2, <1>3, <3>1
    <3>3. Blocked(stack[t]) = {}
      BY <3>2 DEF Blocked
    <3>4. action[crash.sig] = "default"
      BY <1>4, <3>3
    <3>5. PICK u \in Threads : pending[u] # {}
      <4> HIDE DEF crash
      <4>1. QED
        BY <1>1, <1>3, <3>4 DEF Waiting
    <3>6. stack[u] # <<>>
      BY <1>1, <3>5 DEF Waiting
    <3>7. QED
      BY <3>1, <3>2, <3>6
  <2>4. QED
    BY <2>1, <2>2, <2>3
<1>5. CASE /\ ~ (crash.sig \in Blocked(stack[t]) \/ action[crash.sig] = "default")
           /\ stack' = [stack EXCEPT ![t] = Append(@, a)]
           /\ UNCHANGED life
  <2>1. a \in Activation /\ a.at = "guard" /\ a.crash = crash /\ a.writes = 0 /\ ~ a.owner
    <3> HIDE DEF crash
    <3>1. QED
      BY <1>3 DEF Activation, Places
  <2> HIDE DEF a
  <2>2. /\ stack' \in [Threads -> Seq(Activation)]
        /\ \A u \in Threads : u # t => stack'[u] = stack[u]
        /\ Len(stack'[t]) = n + 1 /\ stack'[t] # <<>>
        /\ DOMAIN stack'[t] = 1 .. n + 1
        /\ \A i \in 1 .. n : stack'[t][i] = stack[t][i]
        /\ stack'[t][n + 1] = a /\ Last(stack'[t]) = a
    BY <1>5, <2>1, TopAdded
  <2>3. n = 1 => stack[t][1].at = "old" /\ stack[t][1].crash.sig # crash.sig
    <3>1. SUFFICES ASSUME n = 1 PROVE stack[t][1].at = "old" /\ stack[t][1].crash.sig # crash.sig
      OBVIOUS
    <3>2. stack[t][1].crash.sig \in Blocked(stack[t])
      BY <1>3, <3>1 DEF Blocked
    <3>3. stack[t][1].at = "old"
      BY <1>2, <1>3, <3>1
    <3> HIDE DEF crash
    <3>4. QED
      BY <1>5, <3>2, <3>3
  <2> HIDE DEF n, crash
  <2>4. TypeOK'
    BY <1>2, <2>2 DEF TypeOK
  <2>5. Nesting'
    <3>1. SUFFICES ASSUME NEW u \in Threads
                   PROVE  /\ Len(stack'[u]) <= Len(cause[u]) /\ Len(cause[u]) <= 2
                          /\ Len(stack'[u]) = 2 =>
                               /\ stack'[u][1].at = "old"
                               /\ stack'[u][1].crash.sig # stack'[u][2].crash.sig
      BY <1>2 DEF Nesting
    <3>2. CASE u # t
      BY <1>1, <2>2, <3>2 DEF Nesting
    <3>3. CASE u = t
      <4>1. n + 1 <= Len(cause[t]) /\ Len(cause[t]) <= 2
        BY <1>1, <1>2, <1>3 DEF Nesting
      <4>2. n + 1 = 2 => /\ stack'[t][1].at = "old"
                         /\ stack'[t][1].crash.sig # stack'[t][2].crash.sig
        BY <1>3, <2>1, <2>2, <2>3
      <4>3. QED
        BY <2>2, <3>3, <4>1, <4>2
    <3>4. QED
      BY <3>2, <3>3
  <2>6. \A u \in Threads : stack[u] # <<>> => stack'[u] # <<>> /\ stack'[u][1] = stack[u][1]
    BY <1>3, <2>2
  <2>7. \A u \in Threads : stack'[u] # <<>> /\ stack'[u][1].owner => stack[u] # <<>>
    BY <1>3, <2>1, <2>2
  <2>8. Guarding'
    <3>1. ASSUME NEW u \in Threads, NEW i \in DOMAIN stack'[u]
          PROVE  /\ stack'[u][i].at # "guard" => guard
                 /\ stack'[u][i].at = "guard" => ~ stack'[u][i].owner /\ stack'[u][i].writes = 0
                 /\ stack'[u][i].at = "dump" => stack'[u][i].owner
                 /\ stack'[u][i].owner => i = 1 /\ stack'[u][i].crash = first[1]
      <4>1. CASE u = t /\ i = n + 1
        BY <2>1, <2>2, <4>1
      <4>2. CASE ~ (u = t /\ i = n + 1)
        <5>1. i \in DOMAIN stack[u] /\ stack'[u][i] = stack[u][i]
          BY <1>3, <2>2, <3>1, <4>2
        <5>2. QED
          BY <1>1, <5>1 DEF Guarding
      <4>3. QED
        BY <4>1, <4>2
    <3>2. ASSUME NEW u \in Threads, NEW v \in Threads, stack'[u] # <<>>, stack'[v] # <<>>,
                 stack'[u][1].owner, stack'[v][1].owner
          PROVE  u = v
      <4>1. /\ stack[u] # <<>> /\ stack[v] # <<>>
            /\ stack[u][1].owner /\ stack[v][1].owner
        BY <2>6, <2>7, <3>2
      <4>2. QED
        BY <1>1, <4>1 DEF Guarding
    <3>3. guard => \E u \in Threads : stack'[u] # <<>> /\ stack'[u][1].owner
      BY <1>1, <2>6 DEF Guarding
    <3>4. QED
      BY <1>1, <1>2, <3>1, <3>2, <3>3 DEF Guarding
  <2>9. Waiting'
    <3>1. pending[t] = {}
      BY <1>1, <1>2 DEF Waiting
    <3>2. ASSUME NEW u \in Threads
          PROVE  /\ pending[u] # {} =>
                     /\ stack'[u] # <<>> /\ Last(stack'[u]).at \in {"reraise", "return"}
                     /\ pending[u] = {(Crash(u)').sig}
                 /\ stack'[u] # <<>> /\ Last(stack'[u]).at = "return" /\ Last(stack'[u]).owner =>
                     pending[u] # {}
      <4>1. CASE u # t
        <5>1. stack'[u] = stack[u] /\ Crash(u)' = Crash(u)
          BY <2>2, <4>1 DEF Crash
        <5>2. QED
          BY <1>1, <5>1 DEF Waiting
      <4>2. CASE u = t
        BY <2>1, <2>2, <3>1, <4>2
      <4>3. QED
        BY <4>1, <4>2
    <3>3. QED
      BY <1>1, <1>2, <3>2 DEF Waiting
  <2>10. Handing'
    <3>1. SUFFICES ASSUME NEW u \in Threads, NEW i \in DOMAIN stack'[u],
                          stack'[u][i].at \in {"old", "reraise", "return"},
                          old[stack'[u][i].crash.sig] \in {"returns", "exits"}
                   PROVE  u \in heard
      BY <1>2 DEF Handing
    <3>2. ~ (u = t /\ i = n + 1)
      BY <2>1, <2>2, <3>1
    <3>3. i \in DOMAIN stack[u] /\ stack'[u][i] = stack[u][i]
      BY <1>3, <2>2, <3>1, <3>2
    <3>4. QED
      BY <1>1, <3>1, <3>3 DEF Handing
  <2>11. Dumping'
    <3>1. SUFFICES ASSUME NEW u \in Threads, stack'[u] # <<>>, stack'[u][1].owner
                   PROVE  LET m == Len(WritesOf[first[1]])
                              k == IF stack'[u][1].at = "dump" THEN stack'[u][1].writes ELSE m
                          IN  k <= m /\ Taken(dump, first[1], k)
      BY <1>1, <1>2 DEF Dumping
    <3>2. stack[u] # <<>> /\ stack'[u][1] = stack[u][1]
      BY <2>6, <2>7, <3>1
    <3>3. QED
      BY <1>1, <3>1, <3>2 DEF Dumping
  <2>12. HandedOn'
    BY <1>2, <1>5 DEF HandedOn
  <2>13. QED
    BY <2>4, <2>5, <2>8, <2>9, <2>10, <2>11, <2>12 DEF Alive
<1>6. QED
  BY <1>4, <1>5 DEF Fault

\* A handler that returns with its signal raised dies of it; it is the one that dumped, in
\* a process of one crash.
LEMMA ReturnKeeps ==
    ASSUME TypeOK, Alive, NEW t \in Threads, Return(t)
    PROVE  TypeOK' /\ (life'.now = "alive" => Alive') /\ HandedOn'
<1> DEFINE n == Len(stack[t])
           top == Last(stack[t])
           outer == Front(stack[t])
           due == pending[t] \ Blocked(outer)
<1>1. Nesting /\ Guarding /\ Waiting /\ Handing /\ Dumping
  BY DEF Alive
<1>2. /\ stack[t] # <<>> /\ top.at = "return" /\ life.now = "alive"
      /\ stack' = [stack EXCEPT ![t] = Front(@)]
      /\ \/ due = {} /\ UNCHANGED life
         \/ \E sig \in due : life' = DiesOf(t, sig)
      /\ cause' = IF outer = <<>> /\ Sent(Crash(t)) THEN [cause EXCEPT ![t] = <<>>] ELSE cause
      /\ UNCHANGED <<action, old, guard, pending, dump, full, fills, first, heard>>
  BY DEF Return, In
<1>3. /\ n \in Nat /\ n # 0 /\ DOMAIN stack[t] = 1 .. n /\ top = stack[t][n]
      /\ Crash(t) = top.crash /\ Crash(t) \in Crashes
  BY <1>2, StackShape
<1>4. n \in {1, 2}
  <2>1. n <= Len(cause[t]) /\ Len(cause[t]) <= 2 /\ Len(cause[t]) \in Nat
    BY <1>1, LenProperties DEF Nesting, TypeOK
  <2> HIDE DEF n
  <2>2. QED
    BY <1>3, <2>1
<1>5. /\ stack' \in [Threads -> Seq(Activation)]
      /\ \A u \in Threads : u # t => stack'[u] = stack[u]
      /\ stack'[t] = outer
      /\ Len(outer) = n - 1 /\ DOMAIN outer = 1 .. n - 1
      /\ \A i \in 1 .. n - 1 : outer[i] = stack[t][i]
  <2>1. /\ stack' \in [Threads -> Seq(Activation)]
        /\ \A u \in Threads : u # t => stack'[u] = stack[u]
        /\ stack'[t] = Front(stack[t])
        /\ Len(stack'[t]) = Len(stack[t]) - 1
        /\ DOMAIN stack'[t] = 1 .. Len(stack[t]) - 1
        /\ \A i \in 1 .. Len(stack[t]) - 1 : stack'[t][i] = stack[t][i]
    BY <1>2, TopGone
  <2>2. QED
    BY <2>1
<1>6. (outer = <<>> <=> n = 1) /\ outer \in Seq(Activation)
  <2>1. outer \in Seq(Activation)
    BY <1>5 DEF TypeOK
  <2> HIDE DEF outer, n
  <2>2. Len(outer) = 0 <=> outer = <<>>
    BY <2>1, EmptySeq
  <2>3. QED
    BY <1>4, <1>5, <2>1, <2>2
<1>7. TypeOK'
  <2>1. cause' \in [Threads -> Seq(Crashes)]
    BY <1>2 DEF TypeOK
  <2>2. QED
    BY <1>2, <1>5, <2>1 DEF TypeOK
<1>8. top.owner => n = 1 /\ top.crash = first[1]
  <2> HIDE DEF top, n
  <2>1. QED
    BY <1>1, <1>3 DEF Guarding
<1>9. pending[t] # {} => pending[t] = {Crash(t).sig} /\ due = {Crash(t).sig}
  <2>1. SUFFICES ASSUME pending[t] # {} PROVE pending[t] = {Crash(t).sig} /\ due = {Crash(t).sig}
    OBVIOUS
  <2>2. pending[t] = {Crash(t).sig}
    BY <1>1, <2>1 DEF Waiting
  <2>3. Crash(t).sig \notin Blocked(outer)
    <3>1. CASE n = 1
      BY <1>6, <3>1 DEF Blocked
    <3>2. CASE n = 2
      <4>1. stack[t][1].crash.sig # Crash(t).sig
        BY <1>1, <1>3, <3>2 DEF Nesting
      <4>2. DOMAIN outer = {1} /\ outer[1] = stack[t][1]
        BY <1>5, <3>2
      <4> HIDE DEF outer
      <4>3. QED
        BY <4>1, <4>2 DEF Blocked
    <3>3. QED
      BY <1>4, <3>1, <3>2
  <2>4. QED
    BY <2>2, <2>3
<1>10. CASE \E sig \in due : life' = DiesOf(t, sig)
  <2>1. PICK sig \in due : life' = DiesOf(t, sig)
    BY <1>10
  <2>2. life'.now = "signalled" /\ life'.thread = t /\ life'.sig = sig /\ sig = Crash(t).sig
    BY <1>9, <2>1 DEF DiesOf
  <2>3. HandedOn'
    <3>1. SUFFICES ASSUME \A u \in Threads \ {t} : stack'[u] = <<>>, Len(cause'[t]) < 2
                   PROVE  /\ first # <<>> /\ sig = first[1].sig
                          /\ Len(dump) = Len(WritesOf[first[1]])
                          /\ old[sig] \in {"returns", "exits"} => t \in heard
      BY <1>2, <2>2 DEF HandedOn
    <3>2. n = 1
      <4>1. CASE n = 2
        <5>1. cause' = cause
          BY <1>2, <1>6, <4>1
        <5>2. Len(cause[t]) >= n /\ Len(cause[t]) \in Nat
          BY <1>1, LenProperties DEF Nesting, TypeOK
        <5>3. QED
          BY <3>1, <4>1, <5>1, <5>2
      <4>2. QED
        BY <1>4, <4>1
    <3>3. guard /\ first # <<>>
      <4> HIDE DEF top, n
      <4>1. QED
        BY <1>1, <1>2, <1>3 DEF Guarding
    <3>4. PICK u \in Threads : stack[u] # <<>> /\ stack[u][1].owner
      BY <1>1, <3>3 DEF Guarding
    <3>5. u = t
      BY <1>5, <3>1, <3>4
    <3>6. top.owner /\ top = stack[t][1]
      BY <1>3, <3>2, <3>4, <3>5
    <3>7. first[1] = Crash(t)
      BY <1>3, <1>8, <3>6
    <3>8. Len(dump) = Len(WritesOf[first[1]])
      <4>1. Taken(dump, first[1], Len(WritesOf[first[1]]))
        BY <1>1, <1>2, <3>6 DEF Dumping
      <4>2. QED
        BY <4>1 DEF Taken
    <3>9. old[sig] \in {"returns", "exits"} => t \in heard
      <4>1. n \in DOMAIN stack[t] /\ stack[t][n].at = "return" /\ stack[t][n].crash.sig = sig
        BY <1>2, <1>3, <2>2
      <4> HIDE DEF n
      <4>2. QED
        BY <1>1, <4>1 DEF Handing
    <3>10. QED
      BY <2>2, <3>3, <3>7, <3>8, <3>9
  <2>4. QED
    BY <1>7, <2>2, <2>3
<1>11. CASE due = {} /\ UNCHANGED life
  <2>1. pending[t] = {} /\ ~ top.owner
    <3>1. pending[t] = {}
      BY <1>9, <1>11
    <3>2. QED
      BY <1>1, <1>2, <3>1 DEF Waiting
  <2>2. HandedOn'
    BY <1>2, <1>11 DEF HandedOn
  <2> HIDE DEF top, n, outer, due
  <2>3. \A u \in Threads : \A i \in DOMAIN stack'[u] :
           i \in DOMAIN stack[u] /\ stack'[u][i] = stack[u][i]
    BY <1>3, <1>4, <1>5
  <2>4. Nesting'
    <3>1. SUFFICES ASSUME NEW u \in Threads
                   PROVE  /\ Len(stack'[u]) <= Len(cause'[u]) /\ Len(cause'[u]) <= 2
                          /\ Len(stack'[u]) = 2 =>
                               /\ stack'[u][1].at = "old"
                               /\ stack'[u][1].crash.sig # stack'[u][2].crash.sig
      BY DEF Nesting
    <3>2. CASE u # t
      <4>1. stack'[u] = stack[u] /\ cause'[u] = cause[u]
        BY <1>2, <1>5, <3>2 DEF TypeOK
      <4>2. QED
        BY <1>1, <4>1 DEF Nesting
    <3>3. CASE u = t
      <4>1. Len(stack'[t]) = n - 1 /\ Len(stack'[t]) # 2
        BY <1>4, <1>5
      <4>2. Len(cause[t]) >= n /\ Len(cause[t]) <= 2 /\ Len(cause[t]) \in Nat
        BY <1>1, LenProperties DEF Nesting, TypeOK, n
      <4>3. cause'[t] = cause[t] \/ (cause'[t] = <<>> /\ n = 1)
        BY <1>2, <1>6 DEF TypeOK
      <4>4. QED
        BY <1>3, <1>4, <3>3, <4>1, <4>2, <4>3
    <3>4. QED
      BY <3>2, <3>3
  <2>5. \A u \in Threads : stack'[u] # <<>> => stack[u] # <<>> /\ stack'[u][1] = stack[u][1]
    BY <1>2, <1>3, <1>4, <1>5, <1>6
  <2>6. \A u \in Threads : stack[u] # <<>> /\ stack[u][1].owner =>
           stack'[u] # <<>> /\ stack'[u][1] = stack[u][1]
    BY <1>3, <1>4, <1>5, <1>6, <2>1
  <2>7. Guarding'
    <3>1. ASSUME NEW u \in Threads, NEW i \in DOMAIN stack'[u]
          PROVE  /\ stack'[u][i].at # "guard" => guard
                 /\ stack'[u][i].at = "guard" => ~ stack'[u][i].owner /\ stack'[u][i].writes = 0
                 /\ stack'[u][i].at = "dump" => stack'[u][i].owner
                 /\ stack'[u][i].owner => i = 1 /\ stack'[u][i].crash = first[1]
      <4>1. i \in DOMAIN stack[u] /\ stack'[u][i] = stack[u][i]
        BY <2>3, <3>1
      <4>2. QED
        BY <1>1, <4>1 DEF Guarding
    <3>2. ASSUME NEW u \in Threads, NEW v \in Threads, stack'[u] # <<>>, stack'[v] # <<>>,
                 stack'[u][1].owner, stack'[v][1].owner
          PROVE  u = v
      BY <1>1, <2>5, <3>2 DEF Guarding
    <3>3. guard => \E u \in Threads : stack'[u] # <<>> /\ stack'[u][1].owner
      BY <1>1, <2>6 DEF Guarding
    <3>4. QED
      BY <1>1, <1>2, <3>1, <3>2, <3>3 DEF Guarding
  <2>8. Waiting'
    <3>1. ASSUME NEW u \in Threads
          PROVE  /\ pending[u] # {} =>
                     /\ stack'[u] # <<>> /\ Last(stack'[u]).at \in {"reraise", "return"}
                     /\ pending[u] = {(Crash(u)').sig}
                 /\ stack'[u] # <<>> /\ Last(stack'[u]).at = "return" /\ Last(stack'[u]).owner =>
                     pending[u] # {}
      <4>1. CASE u # t
        <5>1. stack'[u] = stack[u] /\ Crash(u)' = Crash(u)
          BY <1>5, <4>1 DEF Crash
        <5>2. QED
          BY <1>1, <5>1 DEF Waiting
      <4>2. CASE u = t
        <5>1. stack'[t] # <<>> => Last(stack'[t]).at = "old"
          <6>1. SUFFICES ASSUME stack'[t] # <<>> PROVE Last(stack'[t]).at = "old"
            OBVIOUS
          <6>2. n = 2 /\ Last(stack'[t]) = stack[t][1]
            BY <1>4, <1>5, <1>6, <6>1 DEF Last
          <6>3. QED
            BY <1>1, <6>2 DEF Nesting, n
        <5>2. QED
          BY <2>1, <4>2, <5>1
      <4>3. QED
        BY <4>1, <4>2
    <3>2. QED
      BY <1>1, <1>2, <3>1 DEF Waiting
  <2>9. Handing'
    BY <1>1, <1>2, <2>3 DEF Handing
  <2>10. Dumping'
    BY <1>1, <1>2, <2>5 DEF Dumping
  <2>11. QED
    BY <1>7, <2>2, <2>4, <2>7, <2>8, <2>9, <2>10 DEF Alive
<1>12. QED
  BY <1>2, <1>10, <1>11

-----------------------------------------------------------------------------
(* The theorems *)

\* The process starts in the invariant.
LEMMA InitHolds ==
    ASSUME Init
    PROVE  IInv
<1>1. /\ cause \in [Threads -> Seq(Crashes)] /\ \A t \in Threads : Len(cause[t]) <= 2
      /\ old \in [Signals -> OldHandlers] /\ fills \in Nat
  BY NativeCrashAssumption DEF Init
<1>2. TypeOK
  <2>1. <<>> \in Seq(Activation) /\ <<>> \in Seq(Crashes) /\ <<>> \in Seq(Pieces)
    OBVIOUS
  <2>2. stack \in [Threads -> Seq(Activation)]
    BY <2>1 DEF Init
  <2>3. /\ action \in [Signals -> {"ours", "default"}] /\ pending \in [Threads -> SUBSET Signals]
        /\ guard \in BOOLEAN /\ full \in BOOLEAN /\ heard \subseteq Threads
        /\ first \in Seq(Crashes) /\ dump \in Seq(Pieces)
    BY <2>1 DEF Init
  <2>4. QED
    BY <1>1, <2>2, <2>3 DEF TypeOK
<1>3. \A t \in Threads : stack[t] = <<>> /\ Len(stack[t]) = 0 /\ pending[t] = {}
  BY DEF Init
<1>4. \A t \in Threads : Len(cause[t]) \in Nat
  BY <1>1, LenProperties
<1>5. Nesting
  BY <1>1, <1>3, <1>4 DEF Nesting
<1>6. Guarding
  BY <1>3 DEF Init, Guarding
<1>7. Waiting
  BY <1>3 DEF Init, Waiting
<1>8. Handing
  BY <1>3 DEF Handing
<1>9. Dumping
  BY <1>3 DEF Init, Dumping
<1>10. HandedOn
  BY DEF Init, HandedOn
<1>11. QED
  BY <1>2, <1>5, <1>6, <1>7, <1>8, <1>9, <1>10 DEF IInv, Alive

\* Every step keeps it.
LEMMA StepKeeps ==
    ASSUME IInv, [Next]_vars
    PROVE  IInv'
<1>1. CASE UNCHANGED vars
  BY <1>1 DEF IInv, vars, TypeOK, Alive, Nesting, Guarding, Waiting, Handing, Dumping, HandedOn, Crash
<1>2. ASSUME NEW t \in Threads, Step(t) PROVE IInv'
  <2>1. TypeOK /\ life.now = "alive" /\ Alive
    BY <1>2 DEF IInv, Step, Fault, Return, TestAndSet, Write, DumpIsWritten, Chain,
                OldHandlerEnds, Reraise, In
  <2>2. CASE Fault(t)
    BY <2>1, <2>2, FaultKeeps DEF IInv
  <2>3. CASE Return(t)
    BY <2>1, <2>3, ReturnKeeps DEF IInv
  <2>4. CASE OldHandlerEnds(t)
    BY <2>1, <2>4, OldHandlerEndsKeeps DEF IInv, HandedOn
  <2>5. CASE TestAndSet(t) \/ Write(t) \/ DumpIsWritten(t) \/ Chain(t) \/ Reraise(t)
    <3>1. TypeOK' /\ Alive'
      BY <2>1, <2>5, TestAndSetKeeps, WriteKeeps, DumpIsWrittenKeeps, ChainKeeps, ReraiseKeeps
    <3>2. life'.now = "alive"
      BY <2>1, <2>5 DEF TestAndSet, Write, DumpIsWritten, Chain, Reraise
    <3>3. QED
      BY <3>1, <3>2 DEF IInv, HandedOn
  <2>6. QED
    BY <1>2, <2>2, <2>3, <2>4, <2>5 DEF Step
<1>3. QED
  BY <1>1, <1>2 DEF Next, Over

\* What a process of one crash has done when it dies of a signal, whatever its threads and
\* its disk do: the handler never lets it die before the dump and the hand-off.
THEOREM HandsOn == Spec => []HandedOn
<1>1. Init => IInv
  BY InitHolds
<1>2. IInv /\ [Next]_vars => IInv'
  BY StepKeeps
<1>3. IInv => HandedOn
  BY DEF IInv
<1>4. QED
  BY <1>1, <1>2, <1>3, PTL DEF Spec

\* The guard has one owner while the process lives, however many threads crash and in
\* whatever order: the dump is what the disk has taken of that crash's first writes, which
\* have all been tried once its handler is past them.
OneWriter ==
    life.now = "alive" /\ guard =>
      \E t \in Threads :
         /\ stack[t] # <<>> /\ stack[t][1].owner /\ stack[t][1].crash = first[1]
         /\ \A u \in Threads : \A i \in DOMAIN stack[u] : stack[u][i].owner => u = t /\ i = 1
         /\ LET n == Len(WritesOf[first[1]])
                k == IF stack[t][1].at = "dump" THEN stack[t][1].writes ELSE n
            IN  Taken(dump, first[1], k)

\* The dump has one writer.
THEOREM OneHandlerWrites == Spec => []OneWriter
<1>1. Init => IInv
  BY InitHolds
<1>2. IInv /\ [Next]_vars => IInv'
  BY StepKeeps
<1>3. ASSUME IInv PROVE OneWriter
  <2>1. SUFFICES ASSUME life.now = "alive", guard
                 PROVE  \E t \in Threads :
                          /\ stack[t] # <<>> /\ stack[t][1].owner /\ stack[t][1].crash = first[1]
                          /\ \A u \in Threads : \A i \in DOMAIN stack[u] :
                                stack[u][i].owner => u = t /\ i = 1
                          /\ LET n == Len(WritesOf[first[1]])
                                 k == IF stack[t][1].at = "dump" THEN stack[t][1].writes ELSE n
                             IN  Taken(dump, first[1], k)
    BY DEF OneWriter
  <2>2. TypeOK /\ Guarding /\ Dumping
    BY <1>3, <2>1 DEF IInv, Alive
  <2>3. PICK t \in Threads : stack[t] # <<>> /\ stack[t][1].owner
    BY <2>1, <2>2 DEF Guarding
  <2>4. stack[t][1].crash = first[1]
    <3>1. 1 \in DOMAIN stack[t]
      BY <2>2, <2>3, StackShape
    <3>2. QED
      BY <2>2, <2>3, <3>1 DEF Guarding
  <2>5. ASSUME NEW u \in Threads, NEW i \in DOMAIN stack[u], stack[u][i].owner
        PROVE  u = t /\ i = 1
    <3>1. i = 1 /\ stack[u] # <<>>
      BY <2>2, <2>5, StackShape DEF Guarding
    <3>2. QED
      BY <2>2, <2>3, <2>5, <3>1 DEF Guarding
  <2>6. LET n == Len(WritesOf[first[1]])
            k == IF stack[t][1].at = "dump" THEN stack[t][1].writes ELSE n
        IN  Taken(dump, first[1], k)
    BY <2>2, <2>3 DEF Dumping
  <2>7. QED
    BY <2>3, <2>4, <2>5, <2>6
<1>4. QED
  BY <1>1, <1>2, <1>3, PTL DEF Spec
=============================================================================

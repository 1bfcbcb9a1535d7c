--------------------------- MODULE TelemetryProofs ---------------------------
(***************************************************************************)
(* Proofs about Telemetry, for every number of game threads, clients and   *)
(* calls, and every bound of the store, the batches and the queue: where   *)
(* an item is, in which order, what the start gate holds back, and what    *)
(* tombstone_flush has done when it returns.                               *)
(***************************************************************************)
EXTENDS Telemetry, DataInduction, SequenceTheorems

-----------------------------------------------------------------------------
(* The inductive invariant: types, and where each actor is *)

\* TypeOK but for the sizes.
Types ==
    /\ gClient \in 0 .. MaxClients
    /\ store \in [ tracks : Seq([ n : Items, kind : Kinds ]),
                   consent : {"unset", "grant", "refuse"}, start : BOOLEAN ]
    /\ Len(store.tracks) <= MaxTracks
    /\ replayed \in 0 .. Len(store.tracks)
    /\ pc \in [ Threads -> {"idle", "missed", "snapped", "adding", "draining",
                            "init", "replay", "publish", "quit", "join"} ]
    /\ op \in [ Threads -> Tracks \cup Drains \cup Settings \cup {"none", "init"} ]
    /\ ref \in [ Threads -> 0 .. MaxClients ]
    /\ life \in [ Clients -> {"unborn", "live", "stopping", "gone"} ]
    /\ consent \in [ Clients -> BOOLEAN ] /\ gate \in [ Clients -> BOOLEAN ]
    /\ batch \in [ Clients -> [ Kinds -> Seq(Items \cup {Rtt}) ] ]
    /\ \A c \in Clients, k \in Kinds : Len(batch[c][k]) <= MaxBatch
    /\ aged \in [ Clients -> [ Kinds -> BOOLEAN ] ]
    /\ stage \in [ Actors -> {"off", "event", "metric", "end"} ]
    /\ hand \in [ Actors -> Seq(Envelope) ]
    /\ worker \in [ Clients -> {"none", "drain", "wait", "log", "post", "done"} ]
    /\ queue \in [ Clients -> Seq(Job) ]
    /\ \A c \in Clients : Len(queue[c]) <= MaxQueue
    /\ inFlight \in [ Clients -> Seq(Job) ]
    /\ calls \in 0 .. MaxCalls /\ items \in 0 .. MaxCalls
    /\ done \subseteq Items
    /\ owed \in [ Threads -> SUBSET Items ]
    /\ result \in [ Threads -> {"none", "ok", "timeout"} ]

\* A job as EnvelopesFit wants it, and that all are.
Fitting(e) == e = Beat \/ Bytes(e.items) <= MaxBytes \/ Len(e.items) = 1

\* Every envelope fits, wherever it is.
AllFit ==
    /\ \A a \in Actors : \A i \in DOMAIN hand[a] : Fitting(hand[a][i])
    /\ \A c \in Clients : /\ \A i \in DOMAIN queue[c] : Fitting(queue[c][i])
                          /\ \A i \in DOMAIN inFlight[c] : Fitting(inFlight[c][i])

\* A call accepts one item at most.
Counted == items + Cardinality({t \in Threads : op[t] \in Tracks}) <= calls

\* What a thread is in.
OpsAt(at) ==
    CASE at \in {"idle", "quit", "join"}         -> {"none"}
      [] at = "missed"                           -> Tracks \cup Settings
      [] at = "snapped"                          -> Tracks \cup Drains \cup Settings
      [] at = "adding"                           -> Tracks
      [] at = "draining"                         -> Drains
      [] at \in {"init", "replay", "publish"}    -> {"init"}

\* tombstone_init, with g_client_mutex held.
Initing == {"init", "replay", "publish"}

\* A thread is in a call of the kind its place says, holds a client from its snapshot to
\* its return, and has envelopes in hand only while it drains.
ThreadShape ==
    \A t \in Threads :
       /\ op[t] \in OpsAt(pc[t])
       /\ ref[t] = 0 <=> pc[t] \in {"idle", "missed"}
       /\ pc[t] \notin {"draining", "quit"} => stage[t] = "off" /\ hand[t] = <<>>

\* tombstone_init excludes itself and is alone with its client.
InitShape ==
    /\ \A t \in Threads : pc[t] \in Initing =>
          /\ gClient = 0
          /\ \A u \in Threads \ {t} : pc[u] \notin Initing /\ ref[u] # ref[t]
          /\ pc[t] = "init" => replayed = 0
          /\ pc[t] = "publish" => replayed = Len(store.tracks)
    /\ MutexFree => replayed = 0
    /\ NothingStranded

\* A worker has envelopes in hand only while it drains and a job in flight only while it
\* posts; before its init a client has nothing and nobody has it.
ClientShape ==
    \A c \in Clients :
       /\ worker[c] # "drain" => stage[c] = "off" /\ hand[c] = <<>>
       /\ IF worker[c] = "post" THEN Len(inFlight[c]) = 1 ELSE inFlight[c] = <<>>
       /\ life[c] = "unborn" =>
             /\ gClient # c /\ (\A t \in Threads : ref[t] # c)
             /\ worker[c] = "none" /\ queue[c] = <<>>
             /\ \A k \in Kinds : batch[c][k] = <<>>

\* Nothing has left the batches of a client whose gate is closed, nor is about to.
GateInv ==
    /\ \A a \in Actors : hand[a] # <<>> \/ stage[a] = "metric" => gate[ClientOf(a)]
    /\ \A c \in Clients : queue[c] # <<>> \/ inFlight[c] # <<>> => gate[c]

-----------------------------------------------------------------------------
(* The inductive invariant: items *)

\* The places of an item.
StoreSpot       == <<"store", 0, 0>>
DoneSpot        == <<"done", 0, 0>>
BatchSpot(c, k) == <<"batch", c, k>>
HandSpot(a)     == <<"hand", a, 0>>
QueueSpot(c)    == <<"queue", c, 0>>
PostSpot(c)     == <<"post", c, 0>>

\* All of them.
Spots == {StoreSpot, DoneSpot} \cup ({"batch"} \X Clients \X Kinds)
            \cup {HandSpot(a) : a \in Actors}
            \cup {QueueSpot(c) : c \in Clients} \cup {PostSpot(c) : c \in Clients}

\* The tracks of the pre-init store that are still to be replayed.
ToReplay == {store.tracks[j].n : j \in (replayed + 1) .. Len(store.tracks)}

\* The items of a sequence that the game made.
Captured(s) == {s[i] : i \in DOMAIN s} \ {Rtt}

\* The items that a place holds.
Held(l) ==
    CASE l[1] = "store" -> ToReplay
      [] l[1] = "done"  -> done
      [] l[1] = "batch" -> Captured(batch[l[2]][l[3]])
      [] l[1] = "hand"  -> ItemsOf(hand[l[2]])
      [] l[1] = "queue" -> ItemsOf(queue[l[2]])
      [] l[1] = "post"  -> ItemsOf(inFlight[l[2]])

\* Each item is held in one place, and no number beyond items is held.
HeldOnce ==
    /\ \A n \in 1 .. items : \E l \in Spots : n \in Held(l)
    /\ \A l \in Spots : \A n \in Held(l) :
          n \in 1 .. items /\ \A m \in Spots : n \in Held(m) => m = l

\* No two envelopes of a queue share an item.
Apart(q) ==
    \A i, j \in DOMAIN q : i # j => Captured(q[i].items) \cap Captured(q[j].items) = {}

\* So it is for the queue of every client.
QueueApart == \A c \in Clients : Apart(queue[c])

-----------------------------------------------------------------------------
(* The inductive invariant: order, and what a flush owes *)

\* The pre-init store keeps the order of the calls.
StoreOrder ==
    \A i, j \in DOMAIN store.tracks : i < j => store.tracks[i].n < store.tracks[j].n

\* The batches of a client, and the hands that hold envelopes cut from them.
OfClient(l, c) ==
    \/ \E k \in Kinds : l = BatchSpot(c, k)
    \/ \E a \in Actors : ClientOf(a) = c /\ l = HandSpot(a)

\* What is still to be replayed is behind all the client of the replay has.
ReplayOrder ==
    \A t \in Threads : pc[t] \in {"init", "replay"} =>
       \A n \in ToReplay : \A l \in Spots : OfClient(l, ref[t]) => \A m \in Held(l) : m < n

\* Where an item can be that a flush of thread t has to see sent: not in a batch that the
\* flush has drained already.
Due(l, t) ==
    \/ l \in {DoneSpot, QueueSpot(ref[t]), PostSpot(ref[t])}
    \/ \E a \in Actors : ClientOf(a) = ref[t] /\ l = HandSpot(a)
    \/ l = BatchSpot(ref[t], "event") /\ stage[t] = "event"
    \/ l = BatchSpot(ref[t], "metric") /\ stage[t] \in {"event", "metric"}

\* All that a flush owes is where it will be seen sent, and it owes nothing behind a closed
\* gate.
OwedInv ==
    \A t \in Threads : pc[t] = "draining" /\ op[t] = "flush" =>
       /\ \A n \in owed[t] : \E l \in Spots : Due(l, t) /\ n \in Held(l)
       /\ owed[t] # {} => gate[ref[t]]

\* The inductive invariant.
TelemetryInv ==
    /\ Types /\ AllFit /\ Counted
    /\ ThreadShape /\ InitShape /\ ClientShape /\ GateInv
    /\ HeldOnce /\ QueueApart /\ StoreOrder /\ ReplayOrder /\ CaptureOrder
    /\ OwedInv

-----------------------------------------------------------------------------
(* Envelopes: their sizes, and the cut of a batch *)

\* What a batch is made of.
Item == Items \cup {Rtt}

\* What the constants give the sums.
LEMMA Numbers ==
    /\ MaxClients \in Nat \ {0} /\ MaxCalls \in Nat \ {0} /\ MaxTracks \in Nat \ {0}
    /\ MaxBatch \in Nat \ {0} /\ MaxQueue \in Nat \ {0} /\ MaxAttempts \in Nat \ {0}
    /\ MaxBytes \in Nat \ {0} /\ EmptyBytes \in Nat \ {0}
    /\ Item = 0 .. MaxCalls /\ Rtt = 0
    /\ \A n \in Item : ItemBytes[n] \in Nat
BY TelemetryAssumption DEF Item, Items, Rtt

\* The running size in Bytes.
BytesUpto(s) ==
    CHOOSE f : f = [i \in 0 .. Len(s) |->
                      IF i = 0 THEN EmptyBytes - 1 ELSE f[i - 1] + ItemBytes[s[i]] + 1]

\* Bytes sums the sizes one after the other.
LEMMA BytesDefined ==
    ASSUME NEW s \in Seq(Item)
    PROVE  /\ Bytes(s) = BytesUpto(s)[Len(s)]
           /\ BytesUpto(s) \in [0 .. Len(s) -> Nat]
           /\ BytesUpto(s)[0] = EmptyBytes - 1
           /\ \A i \in 1 .. Len(s) :
                 BytesUpto(s)[i] = BytesUpto(s)[i - 1] + ItemBytes[s[i]] + 1
<1> DEFINE n == Len(s)
           Sums(f) == f = [i \in 0 .. n |->
                             IF i = 0 THEN EmptyBytes - 1 ELSE f[i - 1] + ItemBytes[s[i]] + 1]
           g == BytesUpto(s)
           step == [x \in Nat \X (1 .. n) |-> x[1] + ItemBytes[s[x[2]]] + 1]
<1>1. /\ n \in Nat /\ EmptyBytes - 1 \in Nat
      /\ \A i \in 1 .. n : ItemBytes[s[i]] \in Nat
  <2>1. n \in Nat /\ \A i \in 1 .. n : s[i] \in Item
    BY ElementOfSeq, LenProperties
  <2>2. QED
    BY <2>1, Numbers
<1>2. Bytes(s) = g[n]
  BY DEF Bytes, BytesUpto
<1> HIDE DEF n
<1>3. \A v \in Nat, i \in 1 .. n : step[<<v, i>>] = v + ItemBytes[s[i]] + 1
  OBVIOUS
<1>4. step \in [Nat \X (1 .. n) -> Nat]
  BY <1>1
<1>5. PICK f \in [0 .. n -> Nat] :
         f[0] = EmptyBytes - 1 /\ \A i \in 1 .. n : f[i] = step[<<f[i - 1], i>>]
  <2> DEFINE base == EmptyBytes - 1
  <2>1. base \in Nat /\ StepFunction(Nat, n, step)
    BY <1>1, <1>4 DEF StepFunction
  <2> HIDE DEF step, Sums, g, base
  <2>2. \E f : RunOf(Nat, base, n, step, f)
    BY <2>1, RecursionExists
  <2>3. QED
    BY <2>2 DEF base, RunOf
<1>6. \A i \in 1 .. n : f[i] = f[i - 1] + ItemBytes[s[i]] + 1
  <2>1. \A i \in 1 .. n : f[i - 1] \in Nat
    BY <1>1
  <2> HIDE DEF step
  <2>2. QED
    BY <1>3, <1>5, <2>1
<1>7. Sums(f)
  BY <1>5, <1>6
<1>8. Sums(g)
  <2>1. g = CHOOSE h : Sums(h)
    BY DEF BytesUpto, n
  <2> HIDE DEF Sums, g
  <2>2. QED
    BY <1>7, <2>1
<1>9. g[0] = EmptyBytes - 1 /\ \A i \in 1 .. n : g[i] = g[i - 1] + ItemBytes[s[i]] + 1
  <2> HIDE DEF g
  <2>1. \A i \in 0 .. n : g[i] = IF i = 0 THEN EmptyBytes - 1 ELSE g[i - 1] + ItemBytes[s[i]] + 1
    BY <1>8, Zenon
  <2>2. QED
    BY <1>1, <2>1
<1>10. \A i \in 0 .. n : g[i] \in Nat
  <2> DEFINE S == {i \in Nat : i <= n => g[i] \in Nat}
  <2> HIDE DEF g
  <2>1. 0 \in S
    BY <1>1, <1>9
  <2>2. ASSUME NEW i \in Nat, i \in S PROVE i + 1 \in S
    <3>1. CASE i + 1 <= n
      <4>1. i + 1 \in 1 .. n /\ g[i + 1] = g[i] + ItemBytes[s[i + 1]] + 1 /\ g[i] \in Nat
        BY <1>1, <1>9, <2>2, <3>1
      <4>2. QED
        BY <1>1, <4>1
    <3>2. QED
      BY <1>1, <3>1
  <2>3. \A i \in Nat : i \in S
    <3> HIDE DEF S
    <3>1. QED
      BY <2>1, <2>2, SetInduction
  <2>4. QED
    BY <1>1, <2>3
<1>11. g \in [0 .. n -> Nat]
  <2> HIDE DEF g
  <2>1. g = [i \in 0 .. n |-> g[i]]
    BY <1>8, Zenon
  <2>2. QED
    BY <1>10, <2>1
<1>12. QED
  BY <1>2, <1>9, <1>11 DEF n

\* An item adds its size and a comma.
LEMMA BytesGrow ==
    ASSUME NEW s \in Seq(Item), NEW n \in Item
    PROVE  /\ Bytes(s) \in Nat
           /\ Bytes(Append(s, n)) = Bytes(s) + ItemBytes[n] + 1
<1> DEFINE r == Append(s, n)
           f == BytesUpto(s)
           g == BytesUpto(r)
<1>1. /\ r \in Seq(Item) /\ Len(s) \in Nat /\ Len(r) = Len(s) + 1
      /\ \A i \in 1 .. Len(s) : r[i] = s[i]
      /\ r[Len(s) + 1] = n
  BY AppendProperties, LenProperties
<1>2. /\ Bytes(s) = f[Len(s)] /\ f \in [0 .. Len(s) -> Nat] /\ f[0] = EmptyBytes - 1
      /\ \A i \in 1 .. Len(s) : f[i] = f[i - 1] + ItemBytes[s[i]] + 1
  BY BytesDefined
<1>3. /\ Bytes(r) = g[Len(r)] /\ g[0] = EmptyBytes - 1
      /\ \A i \in 1 .. Len(r) : g[i] = g[i - 1] + ItemBytes[r[i]] + 1
  BY <1>1, BytesDefined
<1> HIDE DEF r, f, g
<1>4. g[Len(s)] = f[Len(s)]
  <2> DEFINE S == {i \in Nat : i <= Len(s) => g[i] = f[i]}
  <2>1. 0 \in S
    BY <1>2, <1>3
  <2>2. ASSUME NEW i \in Nat, i \in S PROVE i + 1 \in S
    <3>1. CASE i + 1 <= Len(s)
      <4>1. i + 1 \in 1 .. Len(s) /\ i + 1 \in 1 .. Len(r) /\ g[i] = f[i]
        BY <1>1, <2>2, <3>1
      <4>2. g[i + 1] = g[i] + ItemBytes[r[i + 1]] + 1
        BY <1>3, <4>1
      <4>3. f[i + 1] = f[i] + ItemBytes[s[i + 1]] + 1
        BY <1>2, <4>1
      <4>4. QED
        BY <1>1, <4>1, <4>2, <4>3
    <3>2. QED
      BY <3>1
  <2>3. \A i \in Nat : i \in S
    <3> HIDE DEF S
    <3>1. QED
      BY <2>1, <2>2, SetInduction
  <2>4. QED
    BY <1>1, <2>3
<1>5. Len(r) \in 1 .. Len(r) /\ Len(r) - 1 = Len(s)
  BY <1>1
<1>6. g[Len(r)] = g[Len(s)] + ItemBytes[n] + 1
  BY <1>1, <1>3, <1>5
<1>7. f[Len(s)] \in Nat
  BY <1>1, <1>2
<1>8. QED
  BY <1>2, <1>3, <1>4, <1>6, <1>7 DEF r

\* The envelopes of one drain are in order.
Sorted(cut) ==
    \A i \in DOMAIN cut :
       /\ InOrder(cut[i].items)
       /\ \A j \in DOMAIN cut : i < j => Precedes(cut[i].items, cut[j].items)

\* What drain_locked has made of the first m items of the batch s.
CutOf(k, s, m, cut) ==
    /\ cut \in Seq(Envelope)
    /\ \A i \in DOMAIN cut : cut[i].kind = k /\ Fitting(cut[i])
    /\ \A i \in DOMAIN cut : \A p \in DOMAIN cut[i].items :
          \E j \in 1 .. m : cut[i].items[p] = s[j]
    /\ \A j \in 1 .. m : \E i \in DOMAIN cut : \E p \in DOMAIN cut[i].items :
          cut[i].items[p] = s[j]
    /\ InOrder(s) => Sorted(cut)

\* A number behind all the others.
LEMMA AppendedInOrder ==
    ASSUME NEW s \in Seq(Item), NEW n \in Item, InOrder(s),
           \A i \in DOMAIN s : Rtt \notin {s[i], n} => s[i] < n
    PROVE  InOrder(Append(s, n))
<1>1. /\ Len(s) \in Nat /\ DOMAIN s = 1 .. Len(s)
      /\ DOMAIN Append(s, n) = 1 .. Len(s) + 1
      /\ \A i \in 1 .. Len(s) : Append(s, n)[i] = s[i]
      /\ Append(s, n)[Len(s) + 1] = n
  BY AppendProperties, LenProperties
<1> DEFINE r == Append(s, n)
<1> HIDE DEF r
<1>2. ASSUME NEW i \in DOMAIN r, NEW j \in DOMAIN r, i < j, Rtt \notin {r[i], r[j]}
      PROVE  r[i] < r[j]
  <2>1. i \in 1 .. Len(s) /\ r[i] = s[i]
    BY <1>1, <1>2 DEF r
  <2>2. CASE j = Len(s) + 1
    BY <1>1, <1>2, <2>1, <2>2 DEF r
  <2>3. CASE j # Len(s) + 1
    <3>1. j \in 1 .. Len(s) /\ r[j] = s[j]
      BY <1>1, <2>3 DEF r
    <3>2. QED
      BY <1>1, <1>2, <2>1, <3>1 DEF InOrder
  <2>4. QED
    BY <2>2, <2>3
<1>3. QED
  BY <1>2 DEF InOrder, r

\* One item more.
LEMMA PackedCuts ==
    ASSUME NEW k \in Kinds, NEW s \in Seq(Item), NEW m \in Nat, m + 1 <= Len(s),
           NEW cut, CutOf(k, s, m, cut)
    PROVE  CutOf(k, s, m + 1, Packed(k, cut, s[m + 1]))
<1> DEFINE n == s[m + 1]
           L == Len(cut)
           e == cut[L]
           more == [e EXCEPT !.items = Append(@, n)]
           new == [kind |-> k, items |-> <<n>>, attempt |-> 0]
           next == Packed(k, cut, n)
<1>1. /\ n \in Item /\ cut \in Seq(Envelope) /\ L \in Nat /\ DOMAIN cut = 1 .. L
      /\ Len(s) \in Nat /\ DOMAIN s = 1 .. Len(s)
  <2>1. cut \in Seq(Envelope)
    BY DEF CutOf
  <2>2. Len(s) \in Nat /\ m + 1 \in 1 .. Len(s)
    BY LenProperties
  <2>3. QED
    BY <2>1, <2>2, LenProperties, ElementOfSeq
<1>2. \A i \in DOMAIN cut :
         /\ cut[i] \in Envelope /\ cut[i].items \in Seq(Item) /\ cut[i].kind = k
         /\ Fitting(cut[i])
  <2>1. \A i \in DOMAIN cut : cut[i] \in Envelope
    BY <1>1, ElementOfSeq
  <2>2. QED
    BY <2>1 DEF CutOf, Envelope, Item
<1>3. /\ new \in Envelope /\ new.kind = k /\ new.items \in Seq(Item) /\ Len(new.items) = 1
      /\ DOMAIN new.items = {1} /\ new.items[1] = n
  <2>1. 0 \in 0 .. MaxAttempts - 1
    BY Numbers
  <2>2. QED
    BY <1>1, <2>1 DEF Envelope, Item
<1>4. InOrder(s) =>
         \A i \in DOMAIN cut : \A p \in DOMAIN cut[i].items :
            Rtt \notin {cut[i].items[p], n} => cut[i].items[p] < n
  <2>1. SUFFICES ASSUME InOrder(s), NEW i \in DOMAIN cut, NEW p \in DOMAIN cut[i].items,
                        Rtt \notin {cut[i].items[p], n}
                 PROVE  cut[i].items[p] < n
    OBVIOUS
  <2>2. PICK j \in 1 .. m : cut[i].items[p] = s[j]
    BY DEF CutOf
  <2>3. j \in DOMAIN s /\ m + 1 \in DOMAIN s /\ j < m + 1
    BY <1>1
  <2>4. QED
    BY <2>1, <2>2, <2>3 DEF InOrder
<1>5. InOrder(s) => Sorted(cut)
  BY DEF CutOf
<1>6. \A i \in DOMAIN cut : \A p \in DOMAIN cut[i].items :
         \E j \in 1 .. m + 1 : cut[i].items[p] = s[j]
  <2>1. 1 .. m \subseteq 1 .. m + 1
    OBVIOUS
  <2>2. QED
    BY <2>1 DEF CutOf
<1>7. ASSUME NEW j \in 1 .. m + 1
      PROVE  j = m + 1 \/ \E i \in DOMAIN cut : \E p \in DOMAIN cut[i].items :
                             cut[i].items[p] = s[j]
  <2>1. j = m + 1 \/ j \in 1 .. m
    OBVIOUS
  <2>2. QED
    BY <2>1 DEF CutOf
<1>8. CASE cut # <<>> /\ Fits(e, n)
  <2>1. L \in DOMAIN cut /\ e \in Envelope /\ e.items \in Seq(Item)
    <3>1. L # 0
      BY <1>1, <1>8, EmptySeq
    <3>2. L \in DOMAIN cut
      BY <1>1, <3>1
    <3>3. QED
      BY <1>2, <3>2
  <2> DEFINE grown == Append(e.items, n)
  <2>2. /\ grown \in Seq(Item) /\ Len(e.items) \in Nat
        /\ DOMAIN e.items = 1 .. Len(e.items) /\ DOMAIN grown = 1 .. Len(e.items) + 1
        /\ \A p \in 1 .. Len(e.items) : grown[p] = e.items[p]
        /\ grown[Len(e.items) + 1] = n
    BY <1>1, <2>1, AppendProperties, LenProperties
  <2>3. next = [cut EXCEPT ![L] = more]
    BY <1>8 DEF Packed
  <2>4. more.items = grown /\ more.kind = e.kind /\ more \in Envelope
    BY <2>1, <2>2 DEF Envelope, Item
  <2>5. Fitting(more)
    <3>1. Bytes(grown) = Bytes(e.items) + ItemBytes[n] + 1
      BY <1>1, <2>1, BytesGrow
    <3>2. Bytes(e.items) \in Nat /\ ItemBytes[n] \in Nat
      BY <1>1, <2>1, BytesGrow, Numbers
    <3>3. QED
      BY <1>8, <2>4, <3>1, <3>2 DEF Fitting, Fits
  <2> HIDE DEF next, more, grown
  <2>6. /\ next \in Seq(Envelope) /\ DOMAIN next = DOMAIN cut /\ next[L] = more
        /\ \A i \in DOMAIN cut : i # L => next[i] = cut[i]
    <3>1. next \in Seq(Envelope)
      BY <1>1, <2>1, <2>3, <2>4, ExceptSeq
    <3>2. QED
      BY <2>1, <2>3, <3>1
  <2>7. ASSUME NEW i \in DOMAIN next PROVE next[i].kind = k /\ Fitting(next[i])
    <3>1. CASE i = L
      BY <1>2, <2>1, <2>4, <2>5, <2>6, <3>1
    <3>2. CASE i # L
      BY <1>2, <2>6, <3>2
    <3>3. QED
      BY <3>1, <3>2
  <2>8. ASSUME NEW i \in DOMAIN next, NEW p \in DOMAIN next[i].items
        PROVE  \E j \in 1 .. m + 1 : next[i].items[p] = s[j]
    <3>1. CASE i = L
      <4>1. p \in DOMAIN grown /\ next[i].items[p] = grown[p]
        BY <2>4, <2>6, <2>8, <3>1
      <4>2. CASE p = Len(e.items) + 1
        <5>1. m + 1 \in 1 .. m + 1
          OBVIOUS
        <5>2. QED
          BY <2>2, <4>1, <4>2, <5>1
      <4>3. CASE p # Len(e.items) + 1
        <5> HIDE DEF e, L
        <5>1. p \in DOMAIN e.items /\ grown[p] = e.items[p]
          BY <2>2, <4>1, <4>3
        <5>2. QED
          BY <1>6, <2>1, <4>1, <5>1 DEF e
      <4>4. QED
        BY <4>2, <4>3
    <3>2. CASE i # L
      BY <1>6, <2>6, <2>8, <3>2
    <3>3. QED
      BY <3>1, <3>2
  <2>9. ASSUME NEW j \in 1 .. m + 1
        PROVE  \E i \in DOMAIN next : \E p \in DOMAIN next[i].items : next[i].items[p] = s[j]
    <3>1. CASE j = m + 1
      <4> HIDE DEF e, L
      <4>1. Len(e.items) + 1 \in DOMAIN next[L].items /\ next[L].items[Len(e.items) + 1] = n
        BY <2>2, <2>4, <2>6
      <4>2. QED
        BY <2>1, <2>6, <3>1, <4>1
    <3>2. CASE j # m + 1
      <4>a. PICK i \in DOMAIN cut : \E p \in DOMAIN cut[i].items : cut[i].items[p] = s[j]
        BY <1>7, <3>2
      <4>1. PICK p \in DOMAIN cut[i].items : cut[i].items[p] = s[j]
        BY <4>a
      <4>2. p \in DOMAIN next[i].items /\ next[i].items[p] = cut[i].items[p]
        <5>1. CASE i = L
          <6>1. p \in DOMAIN e.items /\ next[i].items = grown /\ cut[i].items[p] = e.items[p]
            BY <2>4, <2>6, <4>1, <5>1
          <6> HIDE DEF e, L
          <6>2. QED
            BY <2>2, <6>1
        <5>2. CASE i # L
          BY <2>6, <4>1, <5>2
        <5>3. QED
          BY <5>1, <5>2
      <4>3. QED
        BY <2>6, <4>1, <4>2
    <3>3. QED
      BY <3>1, <3>2
  <2>10. ASSUME InOrder(s) PROVE Sorted(next)
    <3>1. /\ \A i \in DOMAIN cut : /\ InOrder(cut[i].items)
                                   /\ \A j \in DOMAIN cut : i < j =>
                                         Precedes(cut[i].items, cut[j].items)
          /\ \A i \in DOMAIN cut : \A p \in DOMAIN cut[i].items :
                Rtt \notin {cut[i].items[p], n} => cut[i].items[p] < n
      BY <1>4, <1>5, <2>10 DEF Sorted
    <3>2. InOrder(grown)
      BY <1>1, <2>1, <3>1, AppendedInOrder DEF grown
    <3>3. ASSUME NEW i \in DOMAIN cut, i < L PROVE Precedes(cut[i].items, grown)
      <4>1. ASSUME NEW p \in DOMAIN cut[i].items, NEW q \in DOMAIN grown,
                   Rtt \notin {cut[i].items[p], grown[q]}
            PROVE  cut[i].items[p] < grown[q]
        <5>1. CASE q = Len(e.items) + 1
          BY <2>2, <3>1, <4>1, <5>1
        <5>2. CASE q # Len(e.items) + 1
          <6>1. q \in DOMAIN e.items /\ grown[q] = e.items[q]
            BY <2>2, <5>2
          <6>2. Precedes(cut[i].items, e.items)
            BY <2>1, <3>1, <3>3
          <6>3. QED
            BY <4>1, <6>1, <6>2 DEF Precedes
        <5>3. QED
          BY <5>1, <5>2
      <4>2. QED
        BY <4>1 DEF Precedes
    <3>4. ASSUME NEW i \in DOMAIN next PROVE InOrder(next[i].items)
      BY <2>4, <2>6, <3>1, <3>2
    <3>5. ASSUME NEW i \in DOMAIN next, NEW j \in DOMAIN next, i < j
          PROVE  Precedes(next[i].items, next[j].items)
      <4>1. i # L /\ next[i] = cut[i] /\ i < L
        BY <1>1, <2>6, <3>5
      <4>2. CASE j = L
        BY <2>4, <2>6, <3>3, <4>1, <4>2
      <4>3. CASE j # L
        BY <2>6, <3>1, <3>5, <4>1, <4>3
      <4>4. QED
        BY <4>2, <4>3
    <3>6. QED
      BY <3>4, <3>5 DEF Sorted
  <2>11. QED
    BY <2>6, <2>7, <2>8, <2>9, <2>10 DEF CutOf, next
<1>9. CASE ~ (cut # <<>> /\ Fits(e, n))
  <2>1. next = Append(cut, new)
    BY <1>9 DEF Packed
  <2>2. Fitting(new)
    BY <1>3 DEF Fitting
  <2> HIDE DEF next, new
  <2>3. /\ next \in Seq(Envelope) /\ DOMAIN next = 1 .. L + 1 /\ next[L + 1] = new
        /\ \A i \in DOMAIN cut : next[i] = cut[i]
    BY <1>1, <1>3, <2>1, AppendProperties, LenProperties
  <2>4. ASSUME NEW i \in DOMAIN next PROVE i = L + 1 \/ i \in DOMAIN cut
    BY <1>1, <2>3
  <2>5. ASSUME NEW i \in DOMAIN next PROVE next[i].kind = k /\ Fitting(next[i])
    BY <1>2, <1>3, <2>2, <2>3, <2>4
  <2>6. ASSUME NEW i \in DOMAIN next, NEW p \in DOMAIN next[i].items
        PROVE  \E j \in 1 .. m + 1 : next[i].items[p] = s[j]
    <3>1. CASE i = L + 1
      <4>1. next[i].items[p] = s[m + 1] /\ m + 1 \in 1 .. m + 1
        BY <1>3, <2>3, <2>6, <3>1
      <4>2. QED
        BY <4>1
    <3>2. CASE i \in DOMAIN cut
      BY <1>6, <2>3, <2>6, <3>2
    <3>3. QED
      BY <2>4, <3>1, <3>2
  <2>7. ASSUME NEW j \in 1 .. m + 1
        PROVE  \E i \in DOMAIN next : \E p \in DOMAIN next[i].items : next[i].items[p] = s[j]
    <3>1. CASE j = m + 1
      <4>1. L + 1 \in DOMAIN next /\ 1 \in DOMAIN next[L + 1].items
            /\ next[L + 1].items[1] = s[j]
        BY <1>1, <1>3, <2>3, <3>1
      <4>2. QED
        BY <4>1
    <3>2. CASE j # m + 1
      <4>a. PICK i \in DOMAIN cut : \E p \in DOMAIN cut[i].items : cut[i].items[p] = s[j]
        BY <1>7, <3>2
      <4>1. PICK p \in DOMAIN cut[i].items : cut[i].items[p] = s[j]
        BY <4>a
      <4>2. i \in DOMAIN next /\ next[i] = cut[i]
        BY <1>1, <2>3
      <4>3. QED
        BY <4>1, <4>2
    <3>3. QED
      BY <3>1, <3>2
  <2>8. ASSUME InOrder(s) PROVE Sorted(next)
    <3>1. /\ \A i \in DOMAIN cut : /\ InOrder(cut[i].items)
                                   /\ \A j \in DOMAIN cut : i < j =>
                                         Precedes(cut[i].items, cut[j].items)
          /\ \A i \in DOMAIN cut : \A p \in DOMAIN cut[i].items :
                Rtt \notin {cut[i].items[p], n} => cut[i].items[p] < n
      BY <1>4, <1>5, <2>8 DEF Sorted
    <3>2. InOrder(new.items)
      BY <1>3 DEF InOrder
    <3>3. \A i \in DOMAIN cut : Precedes(cut[i].items, new.items)
      BY <1>3, <3>1 DEF Precedes
    <3>4. ASSUME NEW i \in DOMAIN next PROVE InOrder(next[i].items)
      BY <2>3, <2>4, <3>1, <3>2
    <3>5. ASSUME NEW i \in DOMAIN next, NEW j \in DOMAIN next, i < j
          PROVE  Precedes(next[i].items, next[j].items)
      <4>1. i \in DOMAIN cut /\ next[i] = cut[i]
        BY <1>1, <2>3, <3>5
      <4>2. CASE j = L + 1
        BY <2>3, <3>3, <4>1, <4>2
      <4>3. CASE j \in DOMAIN cut
        BY <2>3, <3>1, <3>5, <4>1, <4>3
      <4>4. QED
        BY <2>4, <4>2, <4>3
    <3>6. QED
      BY <3>4, <3>5 DEF Sorted
  <2>9. QED
    BY <2>3, <2>5, <2>6, <2>7, <2>8 DEF CutOf, next
<1>10. QED
  BY <1>8, <1>9

\* drain_locked makes envelopes of envelopes.
LEMMA PackedTyped ==
    ASSUME NEW k \in Kinds, NEW cut \in Seq(Envelope), NEW n \in Item
    PROVE  Packed(k, cut, n) \in Seq(Envelope)
<1> DEFINE L == Len(cut)
           more == [cut[L] EXCEPT !.items = Append(@, n)]
           new == [kind |-> k, items |-> <<n>>, attempt |-> 0]
<1>1. CASE cut # <<>> /\ Fits(cut[L], n)
  <2>1. L \in 1 .. L /\ cut[L] \in Envelope
    BY <1>1, EmptySeq, ElementOfSeq, LenProperties
  <2>2. cut[L].items \in Seq(Item)
    BY <2>1 DEF Envelope, Item
  <2>3. Append(cut[L].items, n) \in Seq(Item)
    BY <2>2, AppendProperties
  <2>4. more \in Envelope
    BY <2>1, <2>3 DEF Envelope, Item
  <2>5. Packed(k, cut, n) = [cut EXCEPT ![L] = more]
    BY <1>1 DEF Packed
  <2> HIDE DEF more
  <2>6. QED
    BY <2>1, <2>4, <2>5, ExceptSeq
<1>2. CASE ~ (cut # <<>> /\ Fits(cut[L], n))
  <2>1. 0 \in 0 .. MaxAttempts - 1
    BY Numbers
  <2>2. new \in Envelope
    BY <2>1 DEF Envelope, Item
  <2>3. Packed(k, cut, n) = Append(cut, new)
    BY <1>2 DEF Packed
  <2> HIDE DEF new
  <2>4. QED
    BY <2>2, <2>3, AppendProperties
<1>3. QED
  BY <1>1, <1>2

\* The recursion of Envelopes.
EnvelopesUpto(k, s) ==
    CHOOSE f : f = [i \in 0 .. Len(s) |-> IF i = 0 THEN <<>> ELSE Packed(k, f[i - 1], s[i])]

\* drain_locked, called until the batch is empty, makes envelopes of all of it.
LEMMA EnvelopesCut ==
    ASSUME NEW k \in Kinds, NEW s \in Seq(Item)
    PROVE  CutOf(k, s, Len(s), Envelopes(k, s))
<1> DEFINE n == Len(s)
           V == Seq(Envelope)
           none == <<>>
           Cuts(f) == f = [i \in 0 .. n |-> IF i = 0 THEN none ELSE Packed(k, f[i - 1], s[i])]
           g == EnvelopesUpto(k, s)
           step == [x \in V \X (1 .. n) |-> Packed(k, x[1], s[x[2]])]
<1>1. n \in Nat /\ none \in V /\ \A i \in 1 .. n : s[i] \in Item
  BY ElementOfSeq, LenProperties
<1>2. Envelopes(k, s) = g[n]
  BY DEF Envelopes, EnvelopesUpto
<1>3. \A v \in V, m \in Item : Packed(k, v, m) \in V
  BY PackedTyped
<1> HIDE DEF n, V
<1>4. \A v \in V, i \in 1 .. n : step[<<v, i>>] = Packed(k, v, s[i])
  OBVIOUS
<1>5. step \in [V \X (1 .. n) -> V]
  <2>1. ASSUME NEW x \in V \X (1 .. n) PROVE Packed(k, x[1], s[x[2]]) \in V
    <3>1. x[1] \in V /\ x[2] \in 1 .. n
      OBVIOUS
    <3>2. QED
      BY <1>1, <1>3, <3>1
  <2>2. QED
    BY <2>1
<1> HIDE DEF none
<1>6. PICK f : RunOf(V, none, n, step, f)
  <2> HIDE DEF step, Cuts, g
  <2>1. StepFunction(V, n, step)
    BY <1>1, <1>5 DEF StepFunction
  <2>2. QED
    BY <1>1, <2>1, RecursionExists
<1>7. f \in [0 .. n -> V] /\ f[0] = none /\ \A i \in 1 .. n : f[i] = Packed(k, f[i - 1], s[i])
  <2> HIDE DEF step, Cuts, g
  <2>1. f \in [0 .. n -> V] /\ f[0] = none /\ \A i \in 1 .. n : f[i] = step[<<f[i - 1], i>>]
    BY <1>6 DEF RunOf
  <2>2. \A i \in 1 .. n : f[i - 1] \in V
    BY <1>1, <2>1
  <2>3. QED
    BY <1>4, <2>1, <2>2
<1>8. Cuts(f)
  BY <1>7
<1>9. Cuts(g)
  <2>1. g = CHOOSE h : Cuts(h)
    BY DEF EnvelopesUpto, n, none
  <2> HIDE DEF Cuts, g
  <2>2. QED
    BY <1>8, <2>1
<1>10. g[0] = none /\ \A i \in 1 .. n : g[i] = Packed(k, g[i - 1], s[i])
  <2> HIDE DEF g
  <2>1. \A i \in 0 .. n : g[i] = IF i = 0 THEN none ELSE Packed(k, g[i - 1], s[i])
    BY <1>9, Zenon
  <2>2. QED
    BY <1>1, <2>1
<1> HIDE DEF g, step, Cuts
<1> DEFINE S == {i \in Nat : i <= n => CutOf(k, s, i, g[i])}
<1>11. 0 \in S
  <2>1. <<>> \in Seq(Envelope) /\ DOMAIN <<>> = {} /\ 1 .. 0 = {}
    OBVIOUS
  <2>2. CutOf(k, s, 0, <<>>)
    BY <2>1 DEF CutOf, Sorted
  <2>3. QED
    BY <1>10, <2>2 DEF none
<1>12. ASSUME NEW i \in Nat, i \in S PROVE i + 1 \in S
  <2>1. CASE i + 1 <= n
    <3>1. CutOf(k, s, i, g[i]) /\ g[i + 1] = Packed(k, g[i], s[i + 1])
      BY <1>1, <1>10, <1>12, <2>1
    <3>2. CutOf(k, s, i + 1, g[i + 1])
      BY <2>1, <3>1, PackedCuts DEF n
    <3>3. QED
      BY <3>2
  <2>2. QED
    BY <2>1
<1>13. \A i \in Nat : i \in S
  <2> HIDE DEF S
  <2>1. QED
    BY <1>11, <1>12, SetInduction
<1>14. QED
  BY <1>1, <1>2, <1>13 DEF n

-----------------------------------------------------------------------------
(* Steps *)

\* A thread is no worker.
LEMMA ActorsApart ==
    /\ \A t \in Threads : t \notin Clients /\ t \in Actors /\ ClientOf(t) = ref[t]
    /\ \A c \in Clients : c \notin Threads /\ c \in Actors /\ ClientOf(c) = c /\ c # 0
    /\ Clients = 1 .. MaxClients /\ 0 \notin Clients
BY TelemetryAssumption DEF Clients, Actors, ClientOf

\* What a step can be.
LEMMA NextCases ==
    ASSUME Next
    PROVE  \/ UNCHANGED vars
           \/ \E t \in Threads, o \in Tracks \cup Drains \cup Settings : Call(t, o)
           \/ \E t \in Threads :
                \/ InitClient(t) \/ Shutdown(t) \/ Buffer(t) \/ Retake(t) \/ TrackPasses(t)
                \/ TrackIgnored(t) \/ TrackAdds(t) \/ Choose(t) \/ BeginDrain(t)
                \/ CrashIgnored(t) \/ ThreadDrains(t) \/ FlushReturns(t) \/ CrashReturns(t)
                \/ ReplayConsent(t) \/ ReplayTrack(t) \/ ReplayStart(t) \/ Publish(t)
                \/ QuitStops(t) \/ QuitJoins(t)
           \/ \E c \in Clients :
                \/ WorkerDrains(c) \/ WorkerDrained(c) \/ WorkerFlushesLog(c)
                \/ WorkerTakes(c) \/ WorkerIdles(c) \/ WorkerExits(c)
                \/ PostDelivered(c) \/ PostDropped(c) \/ PostRetried(c) \/ HeartbeatSent(c)
           \/ \E c \in Clients, k \in Kinds : Age(c, k)
BY DEF Next, Over, GameCalls, CallGoesOn, WorkerStep

\* A bounded sequence takes a newcomer: k elements make room for it.
LEMMA PushedOut ==
    ASSUME NEW T, NEW s \in Seq(T), NEW x \in T, NEW m \in Nat \ {0}, NEW r, NEW k,
           r = Append(IF Len(s) >= m THEN Tail(s) ELSE s, x),
           k = IF Len(s) >= m THEN 1 ELSE 0
    PROVE  /\ r \in Seq(T) /\ k \in 0 .. 1 /\ k <= Len(s) /\ Len(s) \in Nat
           /\ DOMAIN s = 1 .. Len(s)
           /\ DOMAIN r = 1 .. Len(s) - k + 1 /\ Len(r) = Len(s) - k + 1
           /\ Len(s) <= m => Len(r) <= m
           /\ \A i \in 1 .. Len(s) - k : r[i] = s[i + k]
           /\ r[Len(s) - k + 1] = x
           /\ k = 1 => s # <<>> /\ Head(s) = s[1]
<1>1. Len(s) \in Nat /\ DOMAIN s = 1 .. Len(s)
  BY LenProperties
<1>2. CASE Len(s) >= m
  <2>1. s # <<>>
    BY <1>1, <1>2, EmptySeq
  <2>2. /\ Tail(s) \in Seq(T) /\ Len(Tail(s)) = Len(s) - 1 /\ Head(s) = s[1]
        /\ \A i \in 1 .. Len(Tail(s)) : Tail(s)[i] = s[i + 1]
    BY <1>1, <2>1, HeadTailProperties
  <2>3. /\ r \in Seq(T) /\ Len(r) = Len(Tail(s)) + 1
        /\ \A i \in 1 .. Len(Tail(s)) : r[i] = Tail(s)[i]
        /\ r[Len(Tail(s)) + 1] = x
    BY <1>2, <2>2, AppendProperties
  <2>4. DOMAIN r = 1 .. Len(r)
    BY <2>3, LenProperties
  <2>5. QED
    BY <1>1, <1>2, <2>1, <2>2, <2>3, <2>4
<1>3. CASE ~ Len(s) >= m
  <2>1. /\ r \in Seq(T) /\ Len(r) = Len(s) + 1
        /\ \A i \in 1 .. Len(s) : r[i] = s[i]
        /\ r[Len(s) + 1] = x
    BY <1>3, AppendProperties
  <2>2. DOMAIN r = 1 .. Len(r)
    BY <2>1, LenProperties
  <2>3. QED
    BY <1>1, <1>3, <2>1, <2>2
<1>4. QED
  BY <1>2, <1>3

\* What is left of a queue when its i-th job is taken.
LEMMA TakenOut ==
    ASSUME NEW T, NEW s \in Seq(T), NEW i \in DOMAIN s, NEW r, r = RemoveAt(s, i)
    PROVE  /\ r \in Seq(T) /\ Len(s) \in Nat /\ DOMAIN s = 1 .. Len(s)
           /\ Len(r) = Len(s) - 1 /\ DOMAIN r = 1 .. Len(s) - 1
           /\ \A j \in 1 .. Len(s) - 1 : r[j] = IF j < i THEN s[j] ELSE s[j + 1]
<1>1. Len(s) \in Nat /\ DOMAIN s = 1 .. Len(s)
  BY LenProperties
<1> DEFINE f == SubSeq(s, 1, i - 1)
           g == SubSeq(s, i + 1, Len(s))
<1>2. f \in Seq(T) /\ Len(f) = i - 1 /\ \A j \in 1 .. i - 1 : f[j] = s[j]
  <2>1. 1 \in 1 .. Len(s) + 1 /\ i - 1 \in 1 - 1 .. Len(s)
    BY <1>1
  <2>2. /\ f \in Seq(T) /\ Len(f) = (i - 1) - 1 + 1
        /\ \A j \in 1 .. (i - 1) - 1 + 1 : f[j] = s[1 + j - 1]
    BY <2>1, SubSeqProperties
  <2> HIDE DEF f
  <2>3. QED
    BY <1>1, <2>2
<1>3. g \in Seq(T) /\ Len(g) = Len(s) - i /\ \A j \in 1 .. Len(s) - i : g[j] = s[i + j]
  <2>1. i + 1 \in 1 .. Len(s) + 1 /\ Len(s) \in (i + 1) - 1 .. Len(s)
    BY <1>1
  <2>2. /\ g \in Seq(T) /\ Len(g) = Len(s) - (i + 1) + 1
        /\ \A j \in 1 .. Len(s) - (i + 1) + 1 : g[j] = s[(i + 1) + j - 1]
    BY <2>1, SubSeqProperties
  <2> HIDE DEF g
  <2>3. Len(s) - (i + 1) + 1 = Len(s) - i
    BY <1>1
  <2>4. \A j \in 1 .. Len(s) - i : s[(i + 1) + j - 1] = s[i + j]
    BY <1>1
  <2>5. QED
    BY <2>2, <2>3, <2>4
<1>4. r = f \o g
  BY DEF RemoveAt
<1> HIDE DEF f, g
<1>5. /\ r \in Seq(T) /\ Len(r) = Len(f) + Len(g)
      /\ \A j \in 1 .. Len(f) + Len(g) : r[j] = IF j <= Len(f) THEN f[j] ELSE g[j - Len(f)]
  <2>1. f \in Seq(T) /\ g \in Seq(T)
    BY <1>2, <1>3
  <2>2. /\ f \o g \in Seq(T) /\ Len(f \o g) = Len(f) + Len(g)
        /\ \A j \in 1 .. Len(f) + Len(g) :
              (f \o g)[j] = IF j <= Len(f) THEN f[j] ELSE g[j - Len(f)]
    BY <2>1, ConcatProperties
  <2>3. QED
    BY <1>4, <2>2
<1>6. Len(r) = Len(s) - 1 /\ DOMAIN r = 1 .. Len(s) - 1
  <2>1. DOMAIN r = 1 .. Len(r)
    BY <1>5, LenProperties
  <2>2. QED
    BY <1>1, <1>2, <1>3, <1>5, <2>1
<1>7. ASSUME NEW j \in 1 .. Len(s) - 1 PROVE r[j] = IF j < i THEN s[j] ELSE s[j + 1]
  <2>1. j \in 1 .. Len(f) + Len(g) /\ Len(f) = i - 1
    BY <1>1, <1>2, <1>3
  <2>2. CASE j < i
    BY <1>1, <1>2, <1>5, <2>1, <2>2
  <2>3. CASE ~ j < i
    <3>1. j - (i - 1) \in 1 .. Len(s) - i /\ i + (j - (i - 1)) = j + 1
      BY <1>1, <2>3
    <3>2. r[j] = g[j - (i - 1)]
      BY <1>1, <1>5, <2>1, <2>3
    <3>3. QED
      BY <1>3, <2>3, <3>1, <3>2
  <2>4. QED
    BY <2>2, <2>3
<1>8. QED
  BY <1>1, <1>5, <1>6, <1>7

\* The types of what a step tests.
LEMMA ControlTypes ==
    ASSUME TelemetryInv
    PROVE  /\ pc \in [Threads -> {"idle", "missed", "snapped", "adding", "draining", "init",
                                  "replay", "publish", "quit", "join"}]
           /\ op \in [Threads -> Tracks \cup Drains \cup Settings \cup {"none", "init"}]
           /\ ref \in [Threads -> 0 .. MaxClients] /\ gClient \in 0 .. MaxClients
           /\ life \in [Clients -> {"unborn", "live", "stopping", "gone"}]
           /\ consent \in [Clients -> BOOLEAN] /\ gate \in [Clients -> BOOLEAN]
           /\ stage \in [Actors -> {"off", "event", "metric", "end"}]
           /\ worker \in [Clients -> {"none", "drain", "wait", "log", "post", "done"}]
           /\ DOMAIN hand = Actors /\ DOMAIN queue = Clients /\ DOMAIN inFlight = Clients
           /\ DOMAIN batch = Clients /\ \A c \in Clients : DOMAIN batch[c] = Kinds
           /\ ThreadShape /\ InitShape /\ ClientShape /\ GateInv
BY DEF TelemetryInv, Types


\* What an actor that drains the batches of a client touches.
DrainTouches(a, c) ==
    /\ \A b \in Actors \ {a} : hand'[b] = hand[b] /\ stage'[b] = stage[b]
    /\ hand'[a] # <<>> \/ stage'[a] = "metric" => gate[c] \/ hand[a] # <<>> \/ stage[a] = "metric"
    /\ \A d \in Clients \ {c} : batch'[d] = batch[d] /\ queue'[d] = queue[d]
    /\ queue'[c] # queue[c] => hand[a] # <<>>

\* A drain touches no more than that.
LEMMA DrainFrame ==
    ASSUME TelemetryInv, NEW a \in Actors, NEW c \in Clients, NEW force, Drain(a, c, force)
    PROVE  DrainTouches(a, c)
<1> USE ControlTypes
<1>1. CASE DrainEvents(a, c, force)
  BY <1>1 DEF DrainTouches, DrainEvents, DrainBatch, MayDrain
<1>2. CASE DrainMetrics(a, c, force)
  BY <1>2 DEF DrainTouches, DrainMetrics, DrainBatch
<1>3. CASE EnqueueNext(a, c)
  BY <1>3 DEF DrainTouches, EnqueueNext, batchVars
<1>4. QED
  BY <1>1, <1>2, <1>3 DEF Drain

\* What an item that is added to a batch touches.
LEMMA AddFrame ==
    ASSUME TelemetryInv, NEW c \in Clients, NEW k \in Kinds, NEW n, Add(c, k, n)
    PROVE  /\ \A d \in Clients : \A j \in Kinds :
                 batch'[d][j] = IF d = c /\ j = k THEN Added(batch[c][k], n) ELSE batch[d][j]
           /\ \A d \in Clients \ {c} : batch'[d] = batch[d]
BY ControlTypes DEF Add

\* The client of a thread that has one, or of a worker that runs, was born.
LEMMA Born ==
    ASSUME TelemetryInv
    PROVE  /\ \A t \in Threads : pc[t] \notin {"idle", "missed"} =>
                 ref[t] \in Clients /\ life[ref[t]] # "unborn"
           /\ \A c \in Clients : worker[c] # "none" => life[c] # "unborn"
           /\ gClient # 0 => gClient \in Clients /\ life[gClient] # "unborn"
BY ControlTypes, ActorsApart DEF ThreadShape, ClientShape

\* A thread that returns is not in tombstone_init.
LEMMA InitReturns ==
    ASSUME TelemetryInv, NEW t \in Threads, pc[t] \notin Initing, Return(t),
           UNCHANGED <<gClient, store, replayed>>
    PROVE  InitShape'
<1> USE ControlTypes
<1>1. /\ \A u \in Threads \ {t} : pc'[u] = pc[u] /\ ref'[u] = ref[u]
      /\ pc'[t] \in {"quit", "idle"} /\ ref'[t] \in {0, ref[t]}
  BY DEF Return
<1>2. ASSUME NEW u \in Threads, pc'[u] \in Initing
      PROVE  /\ u # t /\ pc[u] \in Initing /\ pc'[u] = pc[u] /\ ref[u] # 0
             /\ \A v \in Threads \ {u} : pc'[v] \notin Initing /\ ref'[v] # ref'[u]
  <2>1. u # t /\ pc[u] \in Initing /\ ref[u] # 0
    BY <1>1, <1>2 DEF Initing, ThreadShape
  <2>2. \A v \in Threads \ {u} : pc[v] \notin Initing /\ ref[v] # ref[u]
    BY <2>1 DEF InitShape
  <2>3. QED
    BY <1>1, <2>1, <2>2 DEF Initing
<1>3. MutexFree' => MutexFree
  BY <1>1 DEF MutexFree, Initing
<1>4. QED
  BY <1>2, <1>3 DEF InitShape, NothingStranded

\* A thread is where its call takes it.
LEMMA ThreadStep ==
    ASSUME TelemetryInv, Next
    PROVE  ThreadShape'
<1> USE ControlTypes, ActorsApart
<1> USE DEF ThreadShape, InitShape, OpsAt, Tracks, Kinds, Drains, Settings, vars, apiVars,
            callVars, clientVars, batchVars, drainVars, workerVars, historyVars, flushVars
<1>1. CASE UNCHANGED vars
  BY <1>1
<1>2. ASSUME NEW t \in Threads, NEW o \in Tracks \cup Drains \cup Settings, Call(t, o)
      PROVE  ThreadShape'
  BY <1>2 DEF Call
<1>3. ASSUME NEW t \in Threads, InitClient(t)
      PROVE  ThreadShape'
  BY <1>3 DEF InitClient
<1>4. ASSUME NEW t \in Threads, Shutdown(t)
      PROVE  ThreadShape'
  BY <1>4 DEF Shutdown
<1>5. ASSUME NEW t \in Threads, Buffer(t)
      PROVE  ThreadShape'
  BY <1>5 DEF Buffer, Return, NoneYet, Buffered
<1>6. ASSUME NEW t \in Threads, Retake(t)
      PROVE  ThreadShape'
  BY <1>6 DEF Retake
<1>7. ASSUME NEW t \in Threads, TrackPasses(t)
      PROVE  ThreadShape'
  BY <1>7 DEF TrackPasses
<1>8. ASSUME NEW t \in Threads, TrackIgnored(t)
      PROVE  ThreadShape'
  BY <1>8 DEF TrackIgnored, Return
<1>9. ASSUME NEW t \in Threads, TrackAdds(t)
      PROVE  ThreadShape'
  BY <1>9 DEF TrackAdds, Return, Add
<1>10. ASSUME NEW t \in Threads, Choose(t)
       PROVE  ThreadShape'
  BY <1>10 DEF Choose, Return
<1>11. ASSUME NEW t \in Threads, BeginDrain(t)
       PROVE  ThreadShape'
  BY <1>11 DEF BeginDrain
<1>12. ASSUME NEW t \in Threads, CrashIgnored(t)
       PROVE  ThreadShape'
  BY <1>12 DEF CrashIgnored, Return
<1>13. ASSUME NEW t \in Threads, ThreadDrains(t)
       PROVE  ThreadShape'
  <2>1. /\ ref[t] \in Clients /\ pc[t] \in {"draining", "quit"}
        /\ t \in Actors /\ Drain(t, ref[t], TRUE) /\ UNCHANGED <<pc, op, ref>>
    BY <1>13, Born DEF ThreadDrains
  <2>2. DrainTouches(t, ref[t])
    BY <2>1, DrainFrame
  <2>3. QED
    BY <2>1, <2>2 DEF DrainTouches
<1>14. ASSUME NEW t \in Threads, FlushReturns(t)
       PROVE  ThreadShape'
  BY <1>14 DEF FlushReturns, Return, AllSent, Drained
<1>15. ASSUME NEW t \in Threads, CrashReturns(t)
       PROVE  ThreadShape'
  BY <1>15 DEF CrashReturns, Return, Drained
<1>16. ASSUME NEW t \in Threads, ReplayConsent(t)
       PROVE  ThreadShape'
  BY <1>16 DEF ReplayConsent
<1>17. ASSUME NEW t \in Threads, ReplayTrack(t)
       PROVE  ThreadShape'
  BY <1>17 DEF ReplayTrack, Add, NextTrack
<1>18. ASSUME NEW t \in Threads, ReplayStart(t)
       PROVE  ThreadShape'
  BY <1>18 DEF ReplayStart
<1>19. ASSUME NEW t \in Threads, Publish(t)
       PROVE  ThreadShape'
  BY <1>19 DEF Publish, Cleared, EmptyStore
<1>20. ASSUME NEW t \in Threads, QuitStops(t)
       PROVE  ThreadShape'
  BY <1>20 DEF QuitStops, Drained
<1>21. ASSUME NEW t \in Threads, QuitJoins(t)
       PROVE  ThreadShape'
  BY <1>21 DEF QuitJoins
<1>22. ASSUME NEW c \in Clients, WorkerDrains(c)
       PROVE  ThreadShape'
  <2>1. c \in Actors /\ Drain(c, c, FALSE) /\ UNCHANGED <<pc, op, ref>>
    BY <1>22 DEF WorkerDrains
  <2>2. DrainTouches(c, c)
    BY <2>1, DrainFrame
  <2>3. QED
    BY <2>1, <2>2 DEF DrainTouches
<1>23. ASSUME NEW c \in Clients, WorkerDrained(c)
       PROVE  ThreadShape'
  BY <1>23 DEF WorkerDrained, Drained
<1>24. ASSUME NEW c \in Clients, WorkerFlushesLog(c)
       PROVE  ThreadShape'
  BY <1>24 DEF WorkerFlushesLog
<1>25. ASSUME NEW c \in Clients, WorkerTakes(c)
       PROVE  ThreadShape'
  BY <1>25 DEF WorkerTakes, MayGoOn
<1>26. ASSUME NEW c \in Clients, WorkerIdles(c)
       PROVE  ThreadShape'
  BY <1>26 DEF WorkerIdles, MayGoOn
<1>27. ASSUME NEW c \in Clients, WorkerExits(c)
       PROVE  ThreadShape'
  BY <1>27 DEF WorkerExits
<1>28. ASSUME NEW c \in Clients, PostDelivered(c)
       PROVE  ThreadShape'
  BY <1>28 DEF PostDelivered, Idle, Add
<1>29. ASSUME NEW c \in Clients, PostDropped(c)
       PROVE  ThreadShape'
  BY <1>29 DEF PostDropped, Idle
<1>30. ASSUME NEW c \in Clients, PostRetried(c)
       PROVE  ThreadShape'
  BY <1>30 DEF PostRetried, Idle
<1>31. ASSUME NEW c \in Clients, NEW k \in Kinds, Age(c, k)
       PROVE  ThreadShape'
  BY <1>31 DEF Age
<1>32. ASSUME NEW c \in Clients, HeartbeatSent(c)
       PROVE  ThreadShape'
  BY <1>32 DEF HeartbeatSent
<1> HIDE DEF ThreadShape, InitShape, OpsAt, Tracks, Kinds, Drains, Settings
<1>33. QED
  BY <1>1, <1>2, <1>3, <1>4, <1>5, <1>6, <1>7, <1>8, <1>9, <1>10, <1>11, <1>12, <1>13,
     <1>14, <1>15, <1>16, <1>17, <1>18, <1>19, <1>20, <1>21, <1>22, <1>23, <1>24, <1>25,
     <1>26, <1>27, <1>28, <1>29, <1>30, <1>31, <1>32, NextCases

\* One thread initialises at a time, and nobody else has its client.
LEMMA InitStep ==
    ASSUME TelemetryInv, Next
    PROVE  InitShape'
<1> USE ControlTypes, ActorsApart
<1> USE DEF ThreadShape, InitShape, Initing, MutexFree, NothingStranded, vars, apiVars,
            callVars, clientVars, batchVars, drainVars, workerVars, historyVars, flushVars
<1>1. CASE UNCHANGED vars
  BY <1>1
<1>2. ASSUME NEW t \in Threads, NEW o \in Tracks \cup Drains \cup Settings, Call(t, o)
      PROVE  InitShape'
  BY <1>2 DEF Call
<1>3. ASSUME NEW t \in Threads, InitClient(t)
      PROVE  InitShape'
  <2>1. PICK c \in Clients : life[c] = "unborn" /\ ref' = [ref EXCEPT ![t] = c]
    BY <1>3 DEF InitClient
  <2>2. \A u \in Threads : ref[u] # c
    BY <2>1 DEF ClientShape
  <2>3. pc' = [pc EXCEPT ![t] = "init"] /\ \A u \in Threads : pc[u] \notin Initing
    BY <1>3 DEF InitClient
  <2>4. gClient = 0 /\ replayed' = 0 /\ UNCHANGED <<gClient, store>>
    BY <1>3 DEF InitClient
  <2>5. QED
    BY <2>1, <2>2, <2>3, <2>4
<1>4. ASSUME NEW t \in Threads, Shutdown(t)
      PROVE  InitShape'
  BY <1>4 DEF Shutdown
<1>5. ASSUME NEW t \in Threads, Buffer(t)
      PROVE  InitShape'
  BY <1>5 DEF Buffer, Return, NoneYet, Buffered
<1>6. ASSUME NEW t \in Threads, Retake(t)
      PROVE  InitShape'
  BY <1>6 DEF Retake
<1>7. ASSUME NEW t \in Threads, TrackPasses(t)
      PROVE  InitShape'
  BY <1>7 DEF TrackPasses
<1>8. ASSUME NEW t \in Threads, TrackIgnored(t)
      PROVE  InitShape'
  BY <1>8, InitReturns DEF TrackIgnored, Initing
<1>9. ASSUME NEW t \in Threads, TrackAdds(t)
      PROVE  InitShape'
  BY <1>9, InitReturns DEF TrackAdds, Initing
<1>10. ASSUME NEW t \in Threads, Choose(t)
       PROVE  InitShape'
  BY <1>10, InitReturns DEF Choose, Initing
<1>11. ASSUME NEW t \in Threads, BeginDrain(t)
       PROVE  InitShape'
  BY <1>11 DEF BeginDrain
<1>12. ASSUME NEW t \in Threads, CrashIgnored(t)
       PROVE  InitShape'
  BY <1>12, InitReturns DEF CrashIgnored, Initing
<1>13. ASSUME NEW t \in Threads, ThreadDrains(t)
       PROVE  InitShape'
  BY <1>13 DEF ThreadDrains, Drain, DrainEvents, DrainMetrics, DrainBatch, EnqueueNext, MayDrain
<1>14. ASSUME NEW t \in Threads, FlushReturns(t)
       PROVE  InitShape'
  BY <1>14, InitReturns DEF FlushReturns, Initing
<1>15. ASSUME NEW t \in Threads, CrashReturns(t)
       PROVE  InitShape'
  BY <1>15, InitReturns DEF CrashReturns, Initing
<1>16. ASSUME NEW t \in Threads, ReplayConsent(t)
       PROVE  InitShape'
  BY <1>16 DEF ReplayConsent
<1>17. ASSUME NEW t \in Threads, ReplayTrack(t)
       PROVE  InitShape'
  BY <1>17 DEF ReplayTrack, Add, NextTrack
<1>18. ASSUME NEW t \in Threads, ReplayStart(t)
       PROVE  InitShape'
  BY <1>18 DEF ReplayStart
<1>19. ASSUME NEW t \in Threads, Publish(t)
       PROVE  InitShape'
  BY <1>19 DEF Publish, Cleared, EmptyStore
<1>20. ASSUME NEW t \in Threads, QuitStops(t)
       PROVE  InitShape'
  BY <1>20 DEF QuitStops, Drained
<1>21. ASSUME NEW t \in Threads, QuitJoins(t)
       PROVE  InitShape'
  <2>1. /\ pc[t] = "join" /\ pc' = [pc EXCEPT ![t] = "idle"]
        /\ ref' = [ref EXCEPT ![t] = 0] /\ UNCHANGED <<gClient, store, replayed>>
    BY <1>21 DEF QuitJoins
  <2>2. \A u \in Threads : pc[u] \in Initing => ref[u] # 0
    OBVIOUS
  <2>3. QED
    BY <2>1, <2>2
<1>22. ASSUME NEW c \in Clients, WorkerDrains(c)
       PROVE  InitShape'
  BY <1>22 DEF WorkerDrains, Drain, DrainEvents, DrainMetrics, DrainBatch, EnqueueNext, MayDrain
<1>23. ASSUME NEW c \in Clients, WorkerDrained(c)
       PROVE  InitShape'
  BY <1>23 DEF WorkerDrained, Drained
<1>24. ASSUME NEW c \in Clients, WorkerFlushesLog(c)
       PROVE  InitShape'
  BY <1>24 DEF WorkerFlushesLog
<1>25. ASSUME NEW c \in Clients, WorkerTakes(c)
       PROVE  InitShape'
  BY <1>25 DEF WorkerTakes, MayGoOn
<1>26. ASSUME NEW c \in Clients, WorkerIdles(c)
       PROVE  InitShape'
  BY <1>26 DEF WorkerIdles, MayGoOn
<1>27. ASSUME NEW c \in Clients, WorkerExits(c)
       PROVE  InitShape'
  BY <1>27 DEF WorkerExits
<1>28. ASSUME NEW c \in Clients, PostDelivered(c)
       PROVE  InitShape'
  BY <1>28 DEF PostDelivered, Idle, Add
<1>29. ASSUME NEW c \in Clients, PostDropped(c)
       PROVE  InitShape'
  BY <1>29 DEF PostDropped, Idle
<1>30. ASSUME NEW c \in Clients, PostRetried(c)
       PROVE  InitShape'
  BY <1>30 DEF PostRetried, Idle
<1>31. ASSUME NEW c \in Clients, NEW k \in Kinds, Age(c, k)
       PROVE  InitShape'
  BY <1>31 DEF Age
<1>32. ASSUME NEW c \in Clients, HeartbeatSent(c)
       PROVE  InitShape'
  BY <1>32 DEF HeartbeatSent
<1> HIDE DEF ThreadShape, InitShape, Initing, MutexFree, NothingStranded
<1>33. QED
  BY <1>1, <1>2, <1>3, <1>4, <1>5, <1>6, <1>7, <1>8, <1>9, <1>10, <1>11, <1>12, <1>13,
     <1>14, <1>15, <1>16, <1>17, <1>18, <1>19, <1>20, <1>21, <1>22, <1>23, <1>24, <1>25,
     <1>26, <1>27, <1>28, <1>29, <1>30, <1>31, <1>32, NextCases

LEMMA ClientRests ==
    ASSUME ClientShape,
           UNCHANGED <<worker, stage, hand, inFlight, life, gClient, ref, queue, batch>>
    PROVE  ClientShape'
BY DEF ClientShape

\* A worker that is not draining has drained, and a client that is not born has nothing.
LEMMA ClientStep ==
    ASSUME TelemetryInv, Next
    PROVE  ClientShape'
<1> USE ControlTypes, ActorsApart
<1> USE DEF ThreadShape, InitShape, ClientShape, vars, apiVars, callVars, clientVars,
            batchVars, drainVars, workerVars, historyVars, flushVars
<1>1. CASE UNCHANGED vars
  <2>1. /\ worker' = worker /\ stage' = stage /\ hand' = hand /\ inFlight' = inFlight
        /\ life' = life /\ gClient' = gClient /\ ref' = ref /\ queue' = queue /\ batch' = batch
    BY <1>1, Zenon
  <2>2. QED
    BY <2>1, ClientRests DEF TelemetryInv
<1>2. ASSUME NEW t \in Threads, NEW o \in Tracks \cup Drains \cup Settings, Call(t, o)
      PROVE  ClientShape'
  BY <1>2 DEF Call
<1>3. ASSUME NEW t \in Threads, InitClient(t)
      PROVE  ClientShape'
  BY <1>3 DEF InitClient
<1>4. ASSUME NEW t \in Threads, Shutdown(t)
      PROVE  ClientShape'
  BY <1>4 DEF Shutdown
<1>5. ASSUME NEW t \in Threads, Buffer(t)
      PROVE  ClientShape'
  BY <1>5 DEF Buffer, Return, NoneYet, Buffered
<1>6. ASSUME NEW t \in Threads, Retake(t)
      PROVE  ClientShape'
  BY <1>6 DEF Retake
<1>7. ASSUME NEW t \in Threads, TrackPasses(t)
      PROVE  ClientShape'
  BY <1>7 DEF TrackPasses
<1>8. ASSUME NEW t \in Threads, TrackIgnored(t)
      PROVE  ClientShape'
  BY <1>8 DEF TrackIgnored, Return
<1>9. ASSUME NEW t \in Threads, TrackAdds(t)
      PROVE  ClientShape'
  BY <1>9 DEF TrackAdds, Return, Add
<1>10. ASSUME NEW t \in Threads, Choose(t)
       PROVE  ClientShape'
  BY <1>10 DEF Choose, Return
<1>11. ASSUME NEW t \in Threads, BeginDrain(t)
       PROVE  ClientShape'
  BY <1>11 DEF BeginDrain
<1>12. ASSUME NEW t \in Threads, CrashIgnored(t)
       PROVE  ClientShape'
  BY <1>12 DEF CrashIgnored, Return
<1>13. ASSUME NEW t \in Threads, ThreadDrains(t)
       PROVE  ClientShape'
  <2>1. /\ ref[t] \in Clients /\ life[ref[t]] # "unborn" /\ t \in Actors /\ Drain(t, ref[t], TRUE)
        /\ UNCHANGED <<ref, gClient, life, worker, inFlight>>
    BY <1>13, Born DEF ThreadDrains
  <2>2. DrainTouches(t, ref[t])
    BY <2>1, DrainFrame
  <2>3. QED
    BY <2>1, <2>2 DEF DrainTouches
<1>14. ASSUME NEW t \in Threads, FlushReturns(t)
       PROVE  ClientShape'
  BY <1>14 DEF FlushReturns, Return, AllSent, Drained
<1>15. ASSUME NEW t \in Threads, CrashReturns(t)
       PROVE  ClientShape'
  BY <1>15 DEF CrashReturns, Return, Drained
<1>16. ASSUME NEW t \in Threads, ReplayConsent(t)
       PROVE  ClientShape'
  BY <1>16 DEF ReplayConsent
<1>17. ASSUME NEW t \in Threads, ReplayTrack(t)
       PROVE  ClientShape'
  <2>1. /\ ref[t] \in Clients /\ life[ref[t]] # "unborn"
        /\ UNCHANGED <<ref, gClient, life, worker, inFlight, stage, hand, queue>>
    BY <1>17, Born DEF ReplayTrack
  <2>2. \A d \in Clients \ {ref[t]} : batch'[d] = batch[d]
    <3>1. CASE consent[ref[t]]
      <4>1. batch' = [batch EXCEPT ![ref[t]][NextTrack.kind] = Added(@, NextTrack.n)]
        BY <1>17, <3>1 DEF ReplayTrack, Add
      <4>2. QED
        BY <4>1
    <3>2. CASE ~ consent[ref[t]]
      BY <1>17, <3>2 DEF ReplayTrack
    <3>3. QED
      BY <3>1, <3>2
  <2>3. QED
    BY <2>1, <2>2
<1>18. ASSUME NEW t \in Threads, ReplayStart(t)
       PROVE  ClientShape'
  BY <1>18 DEF ReplayStart
<1>19. ASSUME NEW t \in Threads, Publish(t)
       PROVE  ClientShape'
  BY <1>19 DEF Publish, Cleared, EmptyStore
<1>20. ASSUME NEW t \in Threads, QuitStops(t)
       PROVE  ClientShape'
  BY <1>20 DEF QuitStops, Drained
<1>21. ASSUME NEW t \in Threads, QuitJoins(t)
       PROVE  ClientShape'
  BY <1>21 DEF QuitJoins
<1>22. ASSUME NEW c \in Clients, WorkerDrains(c)
       PROVE  ClientShape'
  <2>1. /\ worker[c] = "drain" /\ life[c] # "unborn" /\ c \in Actors /\ Drain(c, c, FALSE)
        /\ UNCHANGED <<ref, gClient, life, worker, inFlight>>
    BY <1>22, Born DEF WorkerDrains
  <2>2. DrainTouches(c, c)
    BY <2>1, DrainFrame
  <2>3. QED
    BY <2>1, <2>2 DEF DrainTouches
<1>23. ASSUME NEW c \in Clients, WorkerDrained(c)
       PROVE  ClientShape'
  BY <1>23 DEF WorkerDrained, Drained
<1>24. ASSUME NEW c \in Clients, WorkerFlushesLog(c)
       PROVE  ClientShape'
  BY <1>24 DEF WorkerFlushesLog
<1>25. ASSUME NEW c \in Clients, WorkerTakes(c)
       PROVE  ClientShape'
  BY <1>25 DEF WorkerTakes, MayGoOn
<1>26. ASSUME NEW c \in Clients, WorkerIdles(c)
       PROVE  ClientShape'
  BY <1>26 DEF WorkerIdles, MayGoOn
<1>27. ASSUME NEW c \in Clients, WorkerExits(c)
       PROVE  ClientShape'
  BY <1>27 DEF WorkerExits
<1>28. ASSUME NEW c \in Clients, PostDelivered(c)
       PROVE  ClientShape'
  <2>1. /\ worker[c] = "post" /\ life[c] # "unborn" /\ Idle(c)
        /\ UNCHANGED <<ref, gClient, life, hand, queue>>
    BY <1>28, Born DEF PostDelivered
  <2>2. \A d \in Clients \ {c} : batch'[d] = batch[d]
    <3>1. batch' = [batch EXCEPT ![c]["metric"] = Added(@, Rtt)] \/ batch' = batch
      BY <1>28 DEF PostDelivered, Add
    <3>2. CASE batch' = [batch EXCEPT ![c]["metric"] = Added(@, Rtt)]
      BY <3>2
    <3>3. QED
      BY <3>1, <3>2
  <2>3. QED
    BY <2>1, <2>2 DEF Idle
<1>29. ASSUME NEW c \in Clients, PostDropped(c)
       PROVE  ClientShape'
  BY <1>29 DEF PostDropped, Idle
<1>30. ASSUME NEW c \in Clients, PostRetried(c)
       PROVE  ClientShape'
  BY <1>30 DEF PostRetried, Idle
<1>31. ASSUME NEW c \in Clients, NEW k \in Kinds, Age(c, k)
       PROVE  ClientShape'
  BY <1>31 DEF Age
<1>32. ASSUME NEW c \in Clients, HeartbeatSent(c)
       PROVE  ClientShape'
  BY <1>32 DEF HeartbeatSent, HeartbeatRuns
<1> HIDE DEF ThreadShape, InitShape, ClientShape
<1>33. QED
  BY <1>1, <1>2, <1>3, <1>4, <1>5, <1>6, <1>7, <1>8, <1>9, <1>10, <1>11, <1>12, <1>13,
     <1>14, <1>15, <1>16, <1>17, <1>18, <1>19, <1>20, <1>21, <1>22, <1>23, <1>24, <1>25,
     <1>26, <1>27, <1>28, <1>29, <1>30, <1>31, <1>32, NextCases

\* What leaves a batch leaves it through an open gate.
LEMMA GateStep ==
    ASSUME TelemetryInv, Next
    PROVE  GateInv'
<1> USE ControlTypes, ActorsApart
<1> USE DEF ThreadShape, InitShape, ClientShape, GateInv, ClientOf, vars, apiVars, callVars,
            clientVars, batchVars, drainVars, workerVars, historyVars, flushVars
<1>1. CASE UNCHANGED vars
  BY <1>1
<1>2. ASSUME NEW t \in Threads, NEW o \in Tracks \cup Drains \cup Settings, Call(t, o)
      PROVE  GateInv'
  BY <1>2 DEF Call
<1>3. ASSUME NEW t \in Threads, InitClient(t)
      PROVE  GateInv'
  <2>1. PICK c \in Clients :
                 /\ life[c] = "unborn" /\ ref' = [ref EXCEPT ![t] = c]
                 /\ stage' = [stage EXCEPT ![c] = "event"] /\ \E v : gate' = [gate EXCEPT ![c] = v]
    <3> HIDE DEF ThreadShape, InitShape, ClientShape, GateInv, ClientOf
    <3>1. QED
      BY <1>3, Zenon DEF InitClient
  <2>2. /\ UNCHANGED <<hand, queue, inFlight>> /\ worker[c] = "none" /\ pc[t] = "idle"
        /\ queue[c] = <<>> /\ inFlight[c] = <<>> /\ hand[c] = <<>> /\ stage[c] = "off"
        /\ stage[t] = "off" /\ hand[t] = <<>> /\ \A u \in Threads : ref[u] # c
    BY <1>3, <2>1 DEF InitClient
  <2>3. ASSUME NEW a \in Actors, hand'[a] # <<>> \/ stage'[a] = "metric"
        PROVE  gate'[ClientOf(a)']
    <3>1. a # c /\ a # t /\ (hand[a] # <<>> \/ stage[a] = "metric")
      BY <2>1, <2>2, <2>3
    <3>2. ClientOf(a)' = ClientOf(a) /\ ClientOf(a) # c
      BY <2>1, <2>2, <3>1
    <3>3. QED
      BY <2>1, <3>1, <3>2
  <2>4. \A d \in Clients : queue[d] # <<>> \/ inFlight[d] # <<>> => d # c
    BY <2>2
  <2>5. QED
    BY <2>1, <2>2, <2>3, <2>4
<1>4. ASSUME NEW t \in Threads, Shutdown(t)
      PROVE  GateInv'
  <2>1. /\ UNCHANGED <<hand, queue, inFlight, gate>> /\ pc[t] = "idle"
        /\ \A u \in Threads \ {t} : ref'[u] = ref[u]
        /\ \A a \in Actors : stage'[a] = "metric" => stage[a] = "metric" /\ a # t
    BY <1>4 DEF Shutdown
  <2>2. QED
    BY <2>1
<1>5. ASSUME NEW t \in Threads, Buffer(t)
      PROVE  GateInv'
  BY <1>5 DEF Buffer, Return, NoneYet, Buffered
<1>6. ASSUME NEW t \in Threads, Retake(t)
      PROVE  GateInv'
  BY <1>6 DEF Retake
<1>7. ASSUME NEW t \in Threads, TrackPasses(t)
      PROVE  GateInv'
  BY <1>7 DEF TrackPasses
<1>8. ASSUME NEW t \in Threads, TrackIgnored(t)
      PROVE  GateInv'
  BY <1>8 DEF TrackIgnored, Return
<1>9. ASSUME NEW t \in Threads, TrackAdds(t)
      PROVE  GateInv'
  BY <1>9 DEF TrackAdds, Return, Add
<1>10. ASSUME NEW t \in Threads, Choose(t)
       PROVE  GateInv'
  BY <1>10 DEF Choose, Return
<1>11. ASSUME NEW t \in Threads, BeginDrain(t)
       PROVE  GateInv'
  BY <1>11 DEF BeginDrain
<1>12. ASSUME NEW t \in Threads, CrashIgnored(t)
       PROVE  GateInv'
  BY <1>12 DEF CrashIgnored, Return
<1>13. ASSUME NEW t \in Threads, ThreadDrains(t)
       PROVE  GateInv'
  <2>1. /\ ref[t] \in Clients /\ t \in Actors /\ ClientOf(t) = ref[t] /\ Drain(t, ref[t], TRUE)
        /\ UNCHANGED <<ref, gate, inFlight>>
    BY <1>13, Born DEF ThreadDrains
  <2>2. DrainTouches(t, ref[t])
    BY <2>1, DrainFrame
  <2>3. ASSUME NEW b \in Actors, hand'[b] # <<>> \/ stage'[b] = "metric"
        PROVE  gate[ClientOf(b)]
    <3>1. CASE b = t
      BY <2>1, <2>2, <2>3, <3>1 DEF DrainTouches
    <3>2. CASE b # t
      BY <2>2, <2>3, <3>2 DEF DrainTouches
    <3>3. QED
      BY <3>1, <3>2
  <2>4. \A d \in Clients : queue'[d] # <<>> \/ inFlight[d] # <<>> => gate[d]
    BY <2>1, <2>2 DEF DrainTouches
  <2>5. \A b \in Actors : ClientOf(b)' = ClientOf(b)
    BY <2>1
  <2>6. QED
    BY <2>1, <2>3, <2>4, <2>5
<1>14. ASSUME NEW t \in Threads, FlushReturns(t)
       PROVE  GateInv'
  BY <1>14 DEF FlushReturns, Return, AllSent, Drained
<1>15. ASSUME NEW t \in Threads, CrashReturns(t)
       PROVE  GateInv'
  BY <1>15 DEF CrashReturns, Return, Drained
<1>16. ASSUME NEW t \in Threads, ReplayConsent(t)
       PROVE  GateInv'
  BY <1>16 DEF ReplayConsent
<1>17. ASSUME NEW t \in Threads, ReplayTrack(t)
       PROVE  GateInv'
  BY <1>17 DEF ReplayTrack, Add, NextTrack
<1>18. ASSUME NEW t \in Threads, ReplayStart(t)
       PROVE  GateInv'
  BY <1>18 DEF ReplayStart
<1>19. ASSUME NEW t \in Threads, Publish(t)
       PROVE  GateInv'
  BY <1>19 DEF Publish, Cleared, EmptyStore
<1>20. ASSUME NEW t \in Threads, QuitStops(t)
       PROVE  GateInv'
  BY <1>20 DEF QuitStops, Drained
<1>21. ASSUME NEW t \in Threads, QuitJoins(t)
       PROVE  GateInv'
  BY <1>21 DEF QuitJoins
<1>22. ASSUME NEW c \in Clients, WorkerDrains(c)
       PROVE  GateInv'
  <2>1. /\ c \in Actors /\ ClientOf(c) = c /\ Drain(c, c, FALSE)
        /\ UNCHANGED <<ref, gate, inFlight>>
    BY <1>22, Born DEF WorkerDrains
  <2>2. DrainTouches(c, c)
    BY <2>1, DrainFrame
  <2>3. ASSUME NEW b \in Actors, hand'[b] # <<>> \/ stage'[b] = "metric"
        PROVE  gate[ClientOf(b)]
    <3>1. CASE b = c
      BY <2>1, <2>2, <2>3, <3>1 DEF DrainTouches
    <3>2. CASE b # c
      BY <2>2, <2>3, <3>2 DEF DrainTouches
    <3>3. QED
      BY <3>1, <3>2
  <2>4. \A d \in Clients : queue'[d] # <<>> \/ inFlight[d] # <<>> => gate[d]
    BY <2>1, <2>2 DEF DrainTouches
  <2>5. \A b \in Actors : ClientOf(b)' = ClientOf(b)
    BY <2>1
  <2>6. QED
    BY <2>1, <2>3, <2>4, <2>5
<1>23. ASSUME NEW c \in Clients, WorkerDrained(c)
       PROVE  GateInv'
  BY <1>23 DEF WorkerDrained, Drained
<1>24. ASSUME NEW c \in Clients, WorkerFlushesLog(c)
       PROVE  GateInv'
  BY <1>24 DEF WorkerFlushesLog
<1>25. ASSUME NEW c \in Clients, WorkerTakes(c)
       PROVE  GateInv'
  BY <1>25 DEF WorkerTakes, MayGoOn
<1>26. ASSUME NEW c \in Clients, WorkerIdles(c)
       PROVE  GateInv'
  BY <1>26 DEF WorkerIdles, MayGoOn
<1>27. ASSUME NEW c \in Clients, WorkerExits(c)
       PROVE  GateInv'
  BY <1>27 DEF WorkerExits
<1>28. ASSUME NEW c \in Clients, PostDelivered(c)
       PROVE  GateInv'
  BY <1>28 DEF PostDelivered, Idle, Add
<1>29. ASSUME NEW c \in Clients, PostDropped(c)
       PROVE  GateInv'
  BY <1>29 DEF PostDropped, Idle
<1>30. ASSUME NEW c \in Clients, PostRetried(c)
       PROVE  GateInv'
  BY <1>30 DEF PostRetried, Idle
<1>31. ASSUME NEW c \in Clients, NEW k \in Kinds, Age(c, k)
       PROVE  GateInv'
  BY <1>31 DEF Age
<1>32. ASSUME NEW c \in Clients, HeartbeatSent(c)
       PROVE  GateInv'
  BY <1>32 DEF HeartbeatSent
<1> HIDE DEF ThreadShape, InitShape, ClientShape, GateInv, ClientOf
<1>33. QED
  BY <1>1, <1>2, <1>3, <1>4, <1>5, <1>6, <1>7, <1>8, <1>9, <1>10, <1>11, <1>12, <1>13,
     <1>14, <1>15, <1>16, <1>17, <1>18, <1>19, <1>20, <1>21, <1>22, <1>23, <1>24, <1>25,
     <1>26, <1>27, <1>28, <1>29, <1>30, <1>31, <1>32, NextCases

-----------------------------------------------------------------------------
(* What a batch, a hand and a queue hold after an operation *)

\* An item of some envelope.
LEMMA ItemsHeld ==
    ASSUME NEW h
    PROVE  \A n : n \in ItemsOf(h) <=> \E i \in DOMAIN h : n \in Captured(h[i].items)
<1>1. SUFFICES ASSUME NEW n
               PROVE  n \in ItemsOf(h) <=> \E i \in DOMAIN h : n \in Captured(h[i].items)
  OBVIOUS
<1>2. \A i \in DOMAIN h : n \in Captured(h[i].items) <=> n \in Range(h[i].items) /\ n # Rtt
  BY DEF Captured, Range
<1>3. n \in ItemsOf(h) <=> (\E i \in DOMAIN h : n \in Range(h[i].items)) /\ n # Rtt
  <2> DEFINE S == {Range(h[i].items) : i \in DOMAIN h}
  <2>1. ItemsOf(h) = (UNION S) \ {Rtt}
    BY DEF ItemsOf
  <2>2. \A x : x \in S <=> \E i \in DOMAIN h : x = Range(h[i].items)
    OBVIOUS
  <2> HIDE DEF S
  <2>3. n \in UNION S <=> \E x \in S : n \in x
    OBVIOUS
  <2>4. QED
    BY <2>1, <2>2, <2>3
<1>4. QED
  BY <1>2, <1>3

\* One envelope, and none.
LEMMA Lone ==
    /\ \A e : ItemsOf(<<e>>) = Captured(e.items)
    /\ ItemsOf(<<>>) = {}
<1>1. ASSUME NEW e PROVE ItemsOf(<<e>>) = Captured(e.items)
  <2>1. DOMAIN <<e>> = {1} /\ <<e>>[1] = e
    OBVIOUS
  <2>2. \A n : n \in ItemsOf(<<e>>) <=> n \in Captured(e.items)
    BY <2>1, ItemsHeld
  <2>3. QED
    BY <2>2
<1>2. \A n : n \notin ItemsOf(<<>>)
  <2>1. DOMAIN <<>> = {}
    OBVIOUS
  <2>2. QED
    BY <2>1, ItemsHeld
<1>3. QED
  BY <1>1, <1>2

\* Batch::add: the newcomer comes, and the oldest goes when the batch is full.
LEMMA AddedTyped ==
    ASSUME NEW s \in Seq(Item), NEW n \in Item
    PROVE  /\ Added(s, n) \in Seq(Item)
           /\ Len(s) <= MaxBatch => Len(Added(s, n)) <= MaxBatch
           /\ Displaced(s) \ {Rtt} \subseteq Captured(s)
<1> DEFINE r == Added(s, n)
           k == IF Len(s) >= MaxBatch THEN 1 ELSE 0
<1>1. /\ r \in Seq(Item) /\ k \in 0 .. 1 /\ k <= Len(s) /\ Len(s) \in Nat
      /\ DOMAIN s = 1 .. Len(s)
      /\ Len(s) <= MaxBatch => Len(r) <= MaxBatch
      /\ k = 1 => s # <<>> /\ Head(s) = s[1]
  <2>1. /\ r = Append(IF Len(s) >= MaxBatch THEN Tail(s) ELSE s, n) /\ MaxBatch \in Nat \ {0}
        /\ k = IF Len(s) >= MaxBatch THEN 1 ELSE 0
    BY Numbers DEF Added
  <2> HIDE DEF r, k
  <2>2. QED
    BY <2>1, PushedOut
<1>2. Displaced(s) \ {Rtt} \subseteq Captured(s)
  <2>1. CASE k = 1
    <3>1. Displaced(s) = {s[1]} /\ 1 \in DOMAIN s
      BY <1>1, <2>1 DEF Displaced
    <3>2. QED
      BY <3>1 DEF Captured
  <2>2. CASE k = 0
    BY <2>2 DEF Displaced
  <2>3. QED
    BY <1>1, <2>1, <2>2
<1>3. QED
  BY <1>1, <1>2

\* What is in the batch after the add, and that it stays in order behind a later item.
LEMMA AddedItems ==
    ASSUME NEW s \in Seq(Item), NEW n \in Item, InOrder(s)
    PROVE  /\ Captured(Added(s, n)) = (Captured(s) \ Displaced(s)) \cup ({n} \ {Rtt})
           /\ (\A m \in Captured(s) : n = Rtt \/ m < n) => InOrder(Added(s, n))
<1> DEFINE r == Added(s, n)
           k == IF Len(s) >= MaxBatch THEN 1 ELSE 0
<1>1. /\ r \in Seq(Item) /\ k \in 0 .. 1 /\ k <= Len(s) /\ Len(s) \in Nat
      /\ DOMAIN s = 1 .. Len(s) /\ DOMAIN r = 1 .. Len(s) - k + 1
      /\ \A i \in 1 .. Len(s) - k : r[i] = s[i + k]
      /\ r[Len(s) - k + 1] = n
      /\ k = 1 => Head(s) = s[1]
  <2>1. /\ r = Append(IF Len(s) >= MaxBatch THEN Tail(s) ELSE s, n) /\ MaxBatch \in Nat \ {0}
        /\ k = IF Len(s) >= MaxBatch THEN 1 ELSE 0
    BY Numbers DEF Added
  <2> HIDE DEF r, k
  <2>2. QED
    BY <2>1, PushedOut
<1>2. Displaced(s) = IF k = 1 THEN {s[1]} ELSE {}
  BY <1>1 DEF Displaced
<1> HIDE DEF r, k
<1>3. ASSUME NEW m, m # Rtt
      PROVE  m \in Captured(r) <=> (m \in Captured(s) /\ m \notin Displaced(s)) \/ m = n
  <2>1. ASSUME m \in Captured(r), m # n
        PROVE  m \in Captured(s) /\ m \notin Displaced(s)
    <3>1. PICK i \in DOMAIN r : r[i] = m
      BY <2>1 DEF Captured
    <3>2. i \in 1 .. Len(s) - k /\ i + k \in DOMAIN s /\ s[i + k] = m /\ 1 \in DOMAIN s
      BY <1>1, <2>1, <3>1
    <3>3. k = 1 => s[1] # m
      <4>1. SUFFICES ASSUME k = 1, s[1] = m PROVE FALSE
        OBVIOUS
      <4>2. 1 < i + k /\ Rtt \notin {s[1], s[i + k]}
        BY <1>1, <1>3, <3>2, <4>1
      <4>3. s[1] < s[i + k]
        BY <3>2, <4>2 DEF InOrder
      <4>4. m \in Nat
        <5>1. s[i + k] \in Item
          BY <1>1, <3>2, ElementOfSeq
        <5>2. QED
          BY <3>2, <5>1, Numbers
      <4>5. QED
        BY <3>2, <4>1, <4>3, <4>4
    <3>4. QED
      BY <1>2, <1>3, <3>2, <3>3 DEF Captured
  <2>2. ASSUME m \in Captured(s), m \notin Displaced(s) PROVE m \in Captured(r)
    <3>1. PICK j \in DOMAIN s : s[j] = m
      BY <2>2 DEF Captured
    <3>2. j - k \in 1 .. Len(s) - k
      BY <1>1, <1>2, <2>2, <3>1
    <3>3. r[j - k] = m /\ j - k \in DOMAIN r
      BY <1>1, <3>1, <3>2
    <3>4. QED
      BY <1>3, <3>3 DEF Captured
  <2>3. ASSUME m = n PROVE m \in Captured(r)
    <3>1. Len(s) - k + 1 \in DOMAIN r
      BY <1>1
    <3>2. QED
      BY <1>1, <1>3, <2>3, <3>1 DEF Captured
  <2>4. QED
    BY <2>1, <2>2, <2>3
<1>4. Rtt \notin Captured(r) /\ Rtt \notin Captured(s)
  BY DEF Captured
<1>5. Captured(r) = (Captured(s) \ Displaced(s)) \cup ({n} \ {Rtt})
  BY <1>3, <1>4
<1>6. ASSUME \A m \in Captured(s) : n = Rtt \/ m < n PROVE InOrder(r)
  <2>1. SUFFICES ASSUME NEW i \in DOMAIN r, NEW j \in DOMAIN r, i < j, Rtt \notin {r[i], r[j]}
                 PROVE  r[i] < r[j]
    BY DEF InOrder
  <2>a. i \in 1 .. Len(s) - k /\ j \in 1 .. Len(s) - k + 1
    BY <1>1, <2>1
  <2>2. i + k \in DOMAIN s /\ r[i] = s[i + k]
    BY <1>1, <2>a
  <2>3. CASE j = Len(s) - k + 1
    <3>1. s[i + k] \in Captured(s)
      BY <2>1, <2>2 DEF Captured
    <3>2. r[j] = n
      BY <1>1, <2>3
    <3>3. QED
      BY <1>6, <2>1, <2>2, <3>1, <3>2
  <2>4. CASE j # Len(s) - k + 1
    <3>a. j \in 1 .. Len(s) - k
      BY <1>1, <2>a, <2>4
    <3>1. j + k \in DOMAIN s /\ r[j] = s[j + k] /\ i + k < j + k
      BY <1>1, <2>1, <2>a, <3>a
    <3>2. QED
      BY <2>1, <2>2, <3>1 DEF InOrder
  <2>5. QED
    BY <2>3, <2>4
<1>7. QED
  BY <1>5, <1>6 DEF r

\* Worker::enqueue: an envelope comes, and the oldest goes when the queue is full.
LEMMA EnqueuedTyped ==
    ASSUME NEW q \in Seq(Job), NEW e \in Job
    PROVE  /\ Enqueued(q, e) \in Seq(Job)
           /\ Len(q) <= MaxQueue => Len(Enqueued(q, e)) <= MaxQueue
           /\ QueueDropped(q) \subseteq ItemsOf(q)
           /\ \A i \in DOMAIN Enqueued(q, e) :
                 Enqueued(q, e)[i] = e \/ \E j \in DOMAIN q : Enqueued(q, e)[i] = q[j]
<1> DEFINE r == Enqueued(q, e)
           k == IF Len(q) >= MaxQueue THEN 1 ELSE 0
<1>1. /\ r \in Seq(Job) /\ k \in 0 .. 1 /\ k <= Len(q) /\ Len(q) \in Nat
      /\ DOMAIN q = 1 .. Len(q) /\ DOMAIN r = 1 .. Len(q) - k + 1
      /\ Len(q) <= MaxQueue => Len(r) <= MaxQueue
      /\ \A i \in 1 .. Len(q) - k : r[i] = q[i + k]
      /\ r[Len(q) - k + 1] = e
      /\ k = 1 => Head(q) = q[1]
  <2>1. /\ r = Append(IF Len(q) >= MaxQueue THEN Tail(q) ELSE q, e) /\ MaxQueue \in Nat \ {0}
        /\ k = IF Len(q) >= MaxQueue THEN 1 ELSE 0
    BY Numbers DEF Enqueued
  <2> HIDE DEF r, k
  <2>2. QED
    BY <2>1, PushedOut
<1>2. QueueDropped(q) \subseteq ItemsOf(q)
  <2>1. CASE k = 1
    <3>1. QueueDropped(q) = Captured(q[1].items) /\ 1 \in DOMAIN q
      BY <1>1, <2>1, Lone DEF QueueDropped
    <3>2. QED
      BY <3>1, ItemsHeld
  <2>2. CASE k = 0
    BY <2>2 DEF QueueDropped
  <2>3. QED
    BY <1>1, <2>1, <2>2
<1> HIDE DEF r, k
<1>3. ASSUME NEW i \in DOMAIN r PROVE r[i] = e \/ \E j \in DOMAIN q : r[i] = q[j]
  <2>1. CASE i = Len(q) - k + 1
    BY <1>1, <2>1
  <2>2. CASE i # Len(q) - k + 1
    <3>a. i \in 1 .. Len(q) - k
      BY <1>1, <2>2
    <3>b. r[i] = q[i + k]
      BY <1>1, <3>a
    <3>c. i + k \in 1 .. Len(q)
      BY <1>1, <3>a
    <3>1. r[i] = q[i + k] /\ i + k \in DOMAIN q
      BY <1>1, <3>b, <3>c
    <3>2. QED
      BY <3>1
  <2>3. QED
    BY <2>1, <2>2
<1>4. QED
  BY <1>1, <1>2, <1>3 DEF r

\* What is in the queue after the enqueue, and that its envelopes stay apart.
LEMMA EnqueuedItems ==
    ASSUME NEW q \in Seq(Job), NEW e \in Job, Apart(q),
           Captured(e.items) \cap ItemsOf(q) = {}
    PROVE  /\ ItemsOf(Enqueued(q, e)) = (ItemsOf(q) \ QueueDropped(q)) \cup Captured(e.items)
           /\ Apart(Enqueued(q, e))
<1> DEFINE r == Enqueued(q, e)
           k == IF Len(q) >= MaxQueue THEN 1 ELSE 0
<1>1. /\ r \in Seq(Job) /\ k \in 0 .. 1 /\ k <= Len(q) /\ Len(q) \in Nat
      /\ DOMAIN q = 1 .. Len(q) /\ DOMAIN r = 1 .. Len(q) - k + 1
      /\ \A i \in 1 .. Len(q) - k : r[i] = q[i + k]
      /\ r[Len(q) - k + 1] = e
      /\ k = 1 => Head(q) = q[1]
  <2>1. /\ r = Append(IF Len(q) >= MaxQueue THEN Tail(q) ELSE q, e) /\ MaxQueue \in Nat \ {0}
        /\ k = IF Len(q) >= MaxQueue THEN 1 ELSE 0
    BY Numbers DEF Enqueued
  <2> HIDE DEF r, k
  <2>2. QED
    BY <2>1, PushedOut
<1>2. QueueDropped(q) = IF k = 1 THEN Captured(q[1].items) ELSE {}
  BY <1>1, Lone DEF QueueDropped
<1> HIDE DEF r, k
<1>3. ASSUME NEW i \in DOMAIN r
      PROVE  \/ i = Len(q) - k + 1 /\ r[i] = e
             \/ i # Len(q) - k + 1 /\ i + k \in DOMAIN q /\ r[i] = q[i + k]
  <2>1. CASE i = Len(q) - k + 1
    BY <1>1, <2>1
  <2>2. CASE i # Len(q) - k + 1
    <3>1. i \in 1 .. Len(q) - k
      BY <1>1, <2>2
    <3>2. r[i] = q[i + k]
      BY <1>1, <3>1
    <3>3. i + k \in 1 .. Len(q)
      BY <1>1, <3>1
    <3>4. QED
      BY <1>1, <2>2, <3>2, <3>3
  <2>3. QED
    BY <2>1, <2>2
<1>4. ASSUME NEW n
      PROVE  n \in ItemsOf(r) <=> (n \in ItemsOf(q) /\ n \notin QueueDropped(q))
                                    \/ n \in Captured(e.items)
  <2>1. ASSUME n \in ItemsOf(r), n \notin Captured(e.items)
        PROVE  n \in ItemsOf(q) /\ n \notin QueueDropped(q)
    <3>1. PICK i \in DOMAIN r : n \in Captured(r[i].items)
      BY <2>1, ItemsHeld
    <3>2. i + k \in DOMAIN q /\ n \in Captured(q[i + k].items)
      BY <1>3, <2>1, <3>1
    <3>3. k = 1 => n \notin Captured(q[1].items)
      <4>1. k = 1 => 1 \in DOMAIN q /\ 1 # i + k
        BY <1>1, <3>1, <3>2
      <4>2. QED
        BY <3>2, <4>1 DEF Apart
    <3>4. QED
      BY <1>2, <3>2, <3>3, ItemsHeld
  <2>2. ASSUME n \in ItemsOf(q), n \notin QueueDropped(q) PROVE n \in ItemsOf(r)
    <3>1. PICK j \in DOMAIN q : n \in Captured(q[j].items)
      BY <2>2, ItemsHeld
    <3>2. j - k \in 1 .. Len(q) - k /\ j - k + k = j
      BY <1>1, <1>2, <2>2, <3>1
    <3>3. j - k \in DOMAIN r /\ r[j - k] = q[j]
      BY <1>1, <3>2
    <3>4. QED
      BY <3>1, <3>3, ItemsHeld
  <2>3. ASSUME n \in Captured(e.items) PROVE n \in ItemsOf(r)
    <3>1. Len(q) - k + 1 \in DOMAIN r
      BY <1>1
    <3>2. QED
      BY <1>1, <2>3, <3>1, ItemsHeld
  <2>4. QED
    BY <2>1, <2>2, <2>3
<1>5. Apart(r)
  <2>1. \A j \in DOMAIN q : Captured(q[j].items) \cap Captured(e.items) = {}
    BY ItemsHeld
  <2>2. SUFFICES ASSUME NEW i \in DOMAIN r, NEW j \in DOMAIN r, i # j
                 PROVE  Captured(r[i].items) \cap Captured(r[j].items) = {}
    BY DEF Apart
  <2>3. i + k # j + k
    BY <1>1, <2>2
  <2>4. QED
    BY <1>3, <2>1, <2>2, <2>3 DEF Apart
<1>6. QED
  BY <1>4, <1>5 DEF r

\* The first envelope of a hand is enqueued.
LEMMA HandTaken ==
    ASSUME NEW h \in Seq(Envelope), h # <<>>
    PROVE  /\ Tail(h) \in Seq(Envelope) /\ Head(h) = h[1] /\ 1 \in DOMAIN h /\ h[1] \in Envelope
           /\ \A i \in DOMAIN Tail(h) : i + 1 \in DOMAIN h /\ Tail(h)[i] = h[i + 1]
           /\ Captured(h[1].items) \subseteq ItemsOf(h)
           /\ Sorted(h) => Sorted(Tail(h))
           /\ Sorted(h) => ItemsOf(Tail(h)) = ItemsOf(h) \ Captured(h[1].items)
<1> DEFINE r == Tail(h)
<1>1. /\ Len(h) \in Nat \ {0} /\ DOMAIN h = 1 .. Len(h) /\ 1 \in DOMAIN h
      /\ Head(h) = h[1] /\ h[1] \in Envelope
      /\ r \in Seq(Envelope) /\ Len(r) = Len(h) - 1
      /\ \A i \in 1 .. Len(r) : r[i] = h[i + 1]
      /\ DOMAIN r = 1 .. Len(h) - 1
  <2>1. /\ Len(h) \in Nat \ {0} /\ DOMAIN h = 1 .. Len(h)
    BY EmptySeq, LenProperties
  <2>2. r \in Seq(Envelope) /\ Len(r) = Len(h) - 1 /\ \A i \in 1 .. Len(r) : r[i] = h[i + 1]
    BY HeadTailProperties
  <2>3. DOMAIN r = 1 .. Len(r)
    BY <2>2, LenProperties
  <2>4. Head(h) = h[1] /\ 1 \in 1 .. Len(h)
    BY <2>1
  <2>5. h[1] \in Envelope
    BY <2>4, ElementOfSeq
  <2>6. QED
    BY <2>1, <2>2, <2>3, <2>4, <2>5
<1> HIDE DEF r
<1>2. \A i \in DOMAIN r : i + 1 \in DOMAIN h /\ r[i] = h[i + 1]
  BY <1>1
<1>3. Captured(h[1].items) \subseteq ItemsOf(h)
  BY <1>1, ItemsHeld
<1>4. ASSUME Sorted(h) PROVE Sorted(r)
  <2>1. ASSUME NEW i \in DOMAIN r, NEW j \in DOMAIN r, i < j
        PROVE  Precedes(r[i].items, r[j].items)
    <3>1. i + 1 < j + 1
      BY <1>1, <2>1
    <3>2. QED
      BY <1>2, <1>4, <2>1, <3>1 DEF Sorted
  <2>2. QED
    BY <1>2, <1>4, <2>1 DEF Sorted
<1>5. ASSUME Sorted(h) PROVE ItemsOf(r) = ItemsOf(h) \ Captured(h[1].items)
  <2>1. ASSUME NEW n, n \in ItemsOf(r) PROVE n \in ItemsOf(h) /\ n \notin Captured(h[1].items)
    <3>1. PICK i \in DOMAIN r : n \in Captured(r[i].items)
      BY <2>1, ItemsHeld
    <3>2. i + 1 \in DOMAIN h /\ n \in Captured(h[i + 1].items) /\ 1 < i + 1
      BY <1>1, <1>2, <3>1
    <3>3. Precedes(h[1].items, h[i + 1].items)
      BY <1>1, <1>5, <3>2 DEF Sorted
    <3>4. h[i + 1].items \in Seq(Item)
      <4>1. h[i + 1] \in Envelope
        BY <1>1, <3>2, ElementOfSeq
      <4>2. QED
        BY <4>1 DEF Envelope, Item
    <3>5. PICK p \in DOMAIN h[i + 1].items : n = h[i + 1].items[p]
      BY <3>2 DEF Captured
    <3>6. n \in Nat /\ n # Rtt
      <4>1. n \in Item
        BY <3>4, <3>5, ElementOfSeq, LenProperties
      <4>2. QED
        BY <3>2, <4>1, Numbers DEF Captured
    <3>7. n \notin Captured(h[1].items)
      <4>1. SUFFICES ASSUME NEW u \in DOMAIN h[1].items, h[1].items[u] = n PROVE FALSE
        BY DEF Captured
      <4>2. n < n
        BY <3>3, <3>5, <3>6, <4>1 DEF Precedes
      <4>3. QED
        BY <3>6, <4>2
    <3>8. QED
      BY <3>2, <3>7, ItemsHeld
  <2>2. ASSUME NEW n, n \in ItemsOf(h), n \notin Captured(h[1].items) PROVE n \in ItemsOf(r)
    <3>1. PICK i \in DOMAIN h : n \in Captured(h[i].items)
      BY <2>2, ItemsHeld
    <3>2. i - 1 \in DOMAIN r /\ r[i - 1] = h[i]
      <4>1. i # 1
        BY <2>2, <3>1
      <4>2. i - 1 \in DOMAIN r /\ (i - 1) + 1 = i
        BY <1>1, <4>1
      <4>3. QED
        BY <1>2, <4>2
    <3>3. QED
      BY <3>1, <3>2, ItemsHeld
  <2>3. QED
    BY <2>1, <2>2
<1>6. QED
  BY <1>1, <1>2, <1>3, <1>4, <1>5 DEF r

\* take_ready_job.
LEMMA JobTaken ==
    ASSUME NEW q \in Seq(Job), NEW i \in DOMAIN q
    PROVE  /\ RemoveAt(q, i) \in Seq(Job) /\ q[i] \in Job
           /\ Len(q) \in Nat /\ Len(RemoveAt(q, i)) <= Len(q)
           /\ \A j \in DOMAIN RemoveAt(q, i) : \E u \in DOMAIN q : RemoveAt(q, i)[j] = q[u]
           /\ Captured(q[i].items) \subseteq ItemsOf(q)
           /\ Apart(q) => Apart(RemoveAt(q, i))
           /\ Apart(q) => ItemsOf(RemoveAt(q, i)) = ItemsOf(q) \ Captured(q[i].items)
<1> DEFINE r == RemoveAt(q, i)
           was(j) == IF j < i THEN j ELSE j + 1
<1>1. /\ r \in Seq(Job) /\ Len(q) \in Nat /\ DOMAIN q = 1 .. Len(q)
      /\ Len(r) = Len(q) - 1 /\ DOMAIN r = 1 .. Len(q) - 1
      /\ \A j \in 1 .. Len(q) - 1 : r[j] = IF j < i THEN q[j] ELSE q[j + 1]
  <2>1. r = RemoveAt(q, i)
    OBVIOUS
  <2> DEFINE T == Job
  <2>2. q \in Seq(T)
    OBVIOUS
  <2> HIDE DEF r, T
  <2>3. /\ r \in Seq(T) /\ Len(q) \in Nat /\ DOMAIN q = 1 .. Len(q)
        /\ Len(r) = Len(q) - 1 /\ DOMAIN r = 1 .. Len(q) - 1
        /\ \A j \in 1 .. Len(q) - 1 : r[j] = IF j < i THEN q[j] ELSE q[j + 1]
    BY <2>1, <2>2, TakenOut
  <2>4. QED
    BY <2>3 DEF T
<1>2. q[i] \in Job
  BY <1>1, ElementOfSeq
<1> HIDE DEF r
<1>3. \A j \in DOMAIN r : was(j) \in DOMAIN q /\ was(j) # i /\ r[j] = q[was(j)]
  BY <1>1
<1>4. \A j, u \in DOMAIN r : j # u => was(j) # was(u)
  BY <1>1
<1>5. \A u \in DOMAIN q : u # i => \E j \in DOMAIN r : r[j] = q[u]
  <2>1. SUFFICES ASSUME NEW u \in DOMAIN q, u # i PROVE \E j \in DOMAIN r : r[j] = q[u]
    OBVIOUS
  <2>2. CASE u < i
    BY <1>1, <2>1, <2>2
  <2>3. CASE ~ u < i
    <3>1. u - 1 \in DOMAIN r /\ ~ u - 1 < i /\ (u - 1) + 1 = u
      BY <1>1, <2>1, <2>3
    <3>2. r[u - 1] = q[u]
      BY <1>1, <3>1
    <3>3. QED
      BY <3>1, <3>2
  <2>4. QED
    BY <2>2, <2>3
<1> HIDE DEF was
<1>6. Captured(q[i].items) \subseteq ItemsOf(q)
  BY ItemsHeld
<1>7. ASSUME Apart(q) PROVE Apart(r)
  BY <1>3, <1>4, <1>7 DEF Apart
<1>8. ASSUME Apart(q) PROVE ItemsOf(r) = ItemsOf(q) \ Captured(q[i].items)
  <2>1. ASSUME NEW n, n \in ItemsOf(r) PROVE n \in ItemsOf(q) /\ n \notin Captured(q[i].items)
    <3>1. PICK j \in DOMAIN r : n \in Captured(r[j].items)
      BY <2>1, ItemsHeld
    <3>2. was(j) \in DOMAIN q /\ was(j) # i /\ n \in Captured(q[was(j)].items)
      BY <1>3, <3>1
    <3>3. QED
      BY <1>8, <3>2, ItemsHeld DEF Apart
  <2>2. ASSUME NEW n, n \in ItemsOf(q), n \notin Captured(q[i].items) PROVE n \in ItemsOf(r)
    <3>1. PICK u \in DOMAIN q : n \in Captured(q[u].items)
      BY <2>2, ItemsHeld
    <3>2. u # i
      BY <2>2, <3>1
    <3>3. PICK j \in DOMAIN r : r[j] = q[u]
      BY <1>5, <3>2
    <3>4. QED
      BY <3>1, <3>3, ItemsHeld
  <2>3. QED
    BY <2>1, <2>2
<1>9. \A j \in DOMAIN r : \E u \in DOMAIN q : r[j] = q[u]
  BY <1>3
<1>10. Len(r) <= Len(q)
  BY <1>1
<1>11. QED
  BY <1>1, <1>2, <1>6, <1>7, <1>8, <1>9, <1>10 DEF r

\* A drain loses no item of its batch and adds none.
LEMMA CutItems ==
    ASSUME NEW k \in Kinds, NEW s \in Seq(Item)
    PROVE  /\ Envelopes(k, s) \in Seq(Envelope)
           /\ \A i \in DOMAIN Envelopes(k, s) :
                 Envelopes(k, s)[i].kind = k /\ Fitting(Envelopes(k, s)[i])
           /\ InOrder(s) => Sorted(Envelopes(k, s))
           /\ ItemsOf(Envelopes(k, s)) = Captured(s)
<1> DEFINE h == Envelopes(k, s)
<1>1. CutOf(k, s, Len(s), h) /\ DOMAIN s = 1 .. Len(s)
  BY EnvelopesCut, LenProperties
<1> HIDE DEF h
<1>2. ASSUME NEW n PROVE n \in ItemsOf(h) <=> n \in Captured(s)
  <2>1. ASSUME n \in ItemsOf(h) PROVE n \in Captured(s)
    <3>1. PICK i \in DOMAIN h : n \in Captured(h[i].items)
      BY <2>1, ItemsHeld
    <3>2. PICK p \in DOMAIN h[i].items : n = h[i].items[p] /\ n # Rtt
      BY <3>1 DEF Captured
    <3>3. PICK j \in 1 .. Len(s) : h[i].items[p] = s[j]
      BY <1>1 DEF CutOf
    <3>4. QED
      BY <1>1, <3>2, <3>3 DEF Captured
  <2>2. ASSUME n \in Captured(s) PROVE n \in ItemsOf(h)
    <3>1. PICK j \in 1 .. Len(s) : n = s[j] /\ n # Rtt
      BY <1>1, <2>2 DEF Captured
    <3>2. PICK i \in DOMAIN h : \E p \in DOMAIN h[i].items : h[i].items[p] = s[j]
      BY <1>1 DEF CutOf
    <3>3. n \in Captured(h[i].items)
      BY <3>1, <3>2 DEF Captured
    <3>4. QED
      BY <3>3, ItemsHeld
  <2>3. QED
    BY <2>1, <2>2
<1>3. QED
  BY <1>1, <1>2 DEF CutOf, h

-----------------------------------------------------------------------------
(* Types *)

\* What the items of a batch and of envelopes are.
LEMMA ItemsTyped ==
    /\ \A s \in Seq(Item) : Captured(s) \subseteq Items
    /\ \A h \in Seq(Job) : ItemsOf(h) \subseteq Items
    /\ \A e \in Job : e.items \in Seq(Item)
    /\ Envelope \subseteq Job /\ Beat \in Job
    /\ Captured(Beat.items) = {} /\ Fitting(Beat)
<1>1. ASSUME NEW s \in Seq(Item) PROVE Captured(s) \subseteq Items
  <2>1. \A i \in DOMAIN s : s[i] \in Item
    BY ElementOfSeq, LenProperties
  <2>2. QED
    BY <2>1 DEF Captured, Item
<1>2. \A e \in Job : e.items \in Seq(Item)
  <2>1. \A e \in Envelope : e.items \in Seq(Item)
    BY DEF Envelope, Item
  <2>2. Beat.items \in Seq(Item)
    BY EmptySeq DEF Beat
  <2>3. QED
    BY <2>1, <2>2, Zenon DEF Job
<1>3. ASSUME NEW h \in Seq(Job) PROVE ItemsOf(h) \subseteq Items
  <2>1. \A i \in DOMAIN h : h[i] \in Job
    BY ElementOfSeq, LenProperties
  <2>2. \A i \in DOMAIN h : Captured(h[i].items) \subseteq Items
    BY <1>1, <1>2, <2>1
  <2>3. QED
    BY <2>2, ItemsHeld
<1>4. Envelope \subseteq Job /\ Beat \in Job /\ Captured(Beat.items) = {} /\ Fitting(Beat)
  BY DEF Job, Beat, Captured, Fitting
<1>5. QED
  BY <1>1, <1>2, <1>3, <1>4

\* Batch::add keeps the batches.
LEMMA AddTyped ==
    ASSUME Types, NEW c \in Clients, NEW k \in Kinds, NEW n \in Item, Add(c, k, n)
    PROVE  /\ batch' \in [Clients -> [Kinds -> Seq(Items \cup {Rtt})]]
           /\ \A d \in Clients, j \in Kinds : Len(batch'[d][j]) <= MaxBatch
           /\ aged' \in [Clients -> [Kinds -> BOOLEAN]]
           /\ Displaced(batch[c][k]) \ {Rtt} \subseteq Items
<1>1. /\ batch \in [Clients -> [Kinds -> Seq(Item)]] /\ Len(batch[c][k]) <= MaxBatch
      /\ \A d \in Clients, j \in Kinds : Len(batch[d][j]) <= MaxBatch
      /\ aged \in [Clients -> [Kinds -> BOOLEAN]]
  BY DEF Types, Item
<1>2. batch[c][k] \in Seq(Item)
  BY <1>1
<1>3. /\ Added(batch[c][k], n) \in Seq(Item) /\ Len(Added(batch[c][k], n)) <= MaxBatch
      /\ Displaced(batch[c][k]) \ {Rtt} \subseteq Items
  BY <1>1, <1>2, AddedTyped, ItemsTyped
<1>4. batch' = [batch EXCEPT ![c] = [batch[c] EXCEPT ![k] = Added(batch[c][k], n)]]
  BY <1>1 DEF Add
<1>5. /\ batch' \in [Clients -> [Kinds -> Seq(Item)]]
      /\ \A d \in Clients, j \in Kinds : Len(batch'[d][j]) <= MaxBatch
  BY <1>1, <1>3, <1>4
<1>6. aged' \in [Clients -> [Kinds -> BOOLEAN]]
  BY <1>1 DEF Add
<1>7. QED
  BY <1>3, <1>5, <1>6 DEF Item

\* A drain keeps the batches, the hands and the queues.
LEMMA DrainTyped ==
    ASSUME Types, NEW a \in Actors, NEW c \in Clients, NEW force, Drain(a, c, force)
    PROVE  /\ batch' \in [Clients -> [Kinds -> Seq(Items \cup {Rtt})]]
           /\ \A d \in Clients, j \in Kinds : Len(batch'[d][j]) <= MaxBatch
           /\ aged' \in [Clients -> [Kinds -> BOOLEAN]]
           /\ stage' \in [Actors -> {"off", "event", "metric", "end"}]
           /\ hand' \in [Actors -> Seq(Envelope)]
           /\ queue' \in [Clients -> Seq(Job)]
           /\ \A d \in Clients : Len(queue'[d]) <= MaxQueue
           /\ done' \subseteq Items
<1>1. /\ batch \in [Clients -> [Kinds -> Seq(Item)]]
      /\ \A d \in Clients, j \in Kinds : Len(batch[d][j]) <= MaxBatch
      /\ aged \in [Clients -> [Kinds -> BOOLEAN]]
      /\ stage \in [Actors -> {"off", "event", "metric", "end"}]
      /\ hand \in [Actors -> Seq(Envelope)] /\ queue \in [Clients -> Seq(Job)]
      /\ \A d \in Clients : Len(queue[d]) <= MaxQueue
      /\ done \subseteq Items
  BY DEF Types, Item
<1>2. ASSUME NEW k \in Kinds, DrainBatch(a, c, k, force)
      PROVE  /\ batch' \in [Clients -> [Kinds -> Seq(Item)]]
             /\ \A d \in Clients, j \in Kinds : Len(batch'[d][j]) <= MaxBatch
             /\ aged' \in [Clients -> [Kinds -> BOOLEAN]]
             /\ hand' \in [Actors -> Seq(Envelope)]
  <2>1. CASE Ready(c, k, force)
    <3>1. /\ hand' = [hand EXCEPT ![a] = Envelopes(k, batch[c][k])]
          /\ batch' = [batch EXCEPT ![c] = [batch[c] EXCEPT ![k] = <<>>]]
          /\ aged' = [aged EXCEPT ![c] = [aged[c] EXCEPT ![k] = FALSE]]
      BY <1>1, <1>2, <2>1 DEF DrainBatch
    <3>2. Envelopes(k, batch[c][k]) \in Seq(Envelope)
      BY <1>1, CutItems
    <3>3. <<>> \in Seq(Item) /\ Len(<<>>) <= MaxBatch
      BY Numbers
    <3>4. QED
      BY <1>1, <3>1, <3>2, <3>3
  <2>2. CASE ~ Ready(c, k, force)
    BY <1>1, <1>2, <2>2 DEF DrainBatch
  <2>3. QED
    BY <2>1, <2>2
<1>3. CASE DrainEvents(a, c, force)
  <2>1. "event" \in Kinds
    BY DEF Kinds
  <2>2. UNCHANGED <<queue, done>> /\ stage' \in [Actors -> {"off", "event", "metric", "end"}]
    BY <1>1, <1>3 DEF DrainEvents
  <2>3. DrainBatch(a, c, "event", force) \/ UNCHANGED <<hand, batch, aged>>
    BY <1>3 DEF DrainEvents
  <2>4. QED
    BY <1>1, <1>2, <2>1, <2>2, <2>3 DEF Item
<1>4. CASE DrainMetrics(a, c, force)
  <2>1. "metric" \in Kinds
    BY DEF Kinds
  <2>2. UNCHANGED <<queue, done>> /\ stage' \in [Actors -> {"off", "event", "metric", "end"}]
    BY <1>1, <1>4 DEF DrainMetrics
  <2>3. DrainBatch(a, c, "metric", force)
    BY <1>4 DEF DrainMetrics
  <2>4. QED
    BY <1>1, <1>2, <2>1, <2>2, <2>3 DEF Item
<1>5. CASE EnqueueNext(a, c)
  <2>1. /\ hand[a] \in Seq(Envelope) /\ hand[a] # <<>> /\ queue[c] \in Seq(Job)
        /\ Len(queue[c]) <= MaxQueue
        /\ queue' = [queue EXCEPT ![c] = Enqueued(queue[c], Head(hand[a]))]
        /\ done' = done \cup QueueDropped(queue[c])
        /\ hand' = [hand EXCEPT ![a] = Tail(hand[a])]
        /\ UNCHANGED <<stage, batch, aged>>
    BY <1>1, <1>5 DEF EnqueueNext, batchVars
  <2>2. Head(hand[a]) \in Envelope /\ Tail(hand[a]) \in Seq(Envelope)
    BY <2>1, HandTaken
  <2>3. /\ Enqueued(queue[c], Head(hand[a])) \in Seq(Job)
        /\ Len(Enqueued(queue[c], Head(hand[a]))) <= MaxQueue
        /\ QueueDropped(queue[c]) \subseteq Items
    BY <2>1, <2>2, EnqueuedTyped, ItemsTyped
  <2>4. QED
    BY <1>1, <2>1, <2>2, <2>3 DEF Item
<1>6. QED
  BY <1>3, <1>4, <1>5 DEF Drain

\* An item has a number as long as its call is counted.
LEMMA NextNumber ==
    ASSUME TelemetryInv, NEW t \in Threads, op[t] \in Tracks
    PROVE  items + 1 \in Items /\ items + 1 \in 1 .. MaxCalls /\ items + 1 <= calls
<1> DEFINE S == {u \in Threads : op[u] \in Tracks}
<1>1. IsFiniteSet(S) /\ t \in S
  BY TelemetryAssumption, FS_Subset
<1>2. Cardinality(S) \in Nat /\ Cardinality(S) # 0
  BY <1>1, FS_CardinalityType, FS_EmptySet
<1>3. items + Cardinality(S) <= calls /\ items \in 0 .. MaxCalls /\ calls \in 0 .. MaxCalls
  BY DEF TelemetryInv, Counted, Types
<1> HIDE DEF S
<1>4. QED
  BY <1>2, <1>3, Numbers DEF Items

\* An envelope that goes back to the queue.
LEMMA RetriedTyped ==
    ASSUME NEW e \in Envelope, e.attempt + 1 < MaxAttempts
    PROVE  /\ [e EXCEPT !.attempt = @ + 1] \in Envelope
           /\ [e EXCEPT !.attempt = @ + 1].items = e.items
<1>1. e.attempt \in 0 .. MaxAttempts - 1
  BY DEF Envelope
<1>2. e.attempt + 1 \in 0 .. MaxAttempts - 1
  BY <1>1, Numbers
<1>3. QED
  BY <1>2 DEF Envelope

\* What PreInitStore does with a call.
LEMMA BufferedCases ==
    ASSUME NEW s \in [ tracks : Seq([ n : Items, kind : Kinds ]),
                       consent : {"unset", "grant", "refuse"}, start : BOOLEAN ], NEW n
    PROVE  /\ \A o \in Tracks :
                 Buffered(s, o, n) = IF Len(s.tracks) < MaxTracks
                                       THEN [s EXCEPT !.tracks = Append(@, [n |-> n, kind |-> o])]
                                       ELSE s
           /\ \A o \in Settings :
                 /\ Buffered(s, o, n) \in [ tracks : Seq([ n : Items, kind : Kinds ]),
                                            consent : {"unset", "grant", "refuse"}, start : BOOLEAN ]
                 /\ Buffered(s, o, n).tracks = s.tracks
<1>1. ASSUME NEW o \in Tracks
      PROVE  Buffered(s, o, n) = IF Len(s.tracks) < MaxTracks
                                   THEN [s EXCEPT !.tracks = Append(@, [n |-> n, kind |-> o])]
                                   ELSE s
  <2>1. CASE Len(s.tracks) < MaxTracks
    BY <1>1, <2>1 DEF Buffered, Tracks, Kinds
  <2>2. CASE ~ Len(s.tracks) < MaxTracks
    BY <1>1, <2>2 DEF Buffered, Tracks, Kinds
  <2>3. QED
    BY <2>1, <2>2
<1>2. ASSUME NEW o \in Settings
      PROVE  /\ Buffered(s, o, n) \in [ tracks : Seq([ n : Items, kind : Kinds ]),
                                         consent : {"unset", "grant", "refuse"}, start : BOOLEAN ]
             /\ Buffered(s, o, n).tracks = s.tracks
  <2>1. o \notin Tracks
    BY DEF Settings, Tracks, Kinds
  <2>2. CASE o = "start"
    <3>1. Buffered(s, o, n) = [s EXCEPT !.start = TRUE]
      BY <2>1, <2>2 DEF Buffered
    <3>2. QED
      BY <3>1
  <2>3. CASE o # "start"
    <3>1. Buffered(s, o, n) = [s EXCEPT !.consent = o] /\ o \in {"grant", "refuse"}
      BY <2>1, <2>3 DEF Buffered, Settings
    <3>2. QED
      BY <3>1
  <2>4. QED
    BY <2>2, <2>3
<1>3. QED
  BY <1>1, <1>2

\* Where a thread that returns is.
LEMMA ReturnTyped ==
    ASSUME Types, NEW t \in Threads, Return(t)
    PROVE  /\ pc' \in [Threads -> {"idle", "missed", "snapped", "adding", "draining",
                                   "init", "replay", "publish", "quit", "join"}]
           /\ op' \in [Threads -> Tracks \cup Drains \cup Settings \cup {"none", "init"}]
           /\ ref' \in [Threads -> 0 .. MaxClients]
           /\ stage' \in [Actors -> {"off", "event", "metric", "end"}]
<1>1. 0 \in 0 .. MaxClients
  BY Numbers
<1>2. QED
  BY <1>1 DEF Types, Return

\* The job that is posted.
LEMMA FlightTyped ==
    ASSUME TelemetryInv, NEW c \in Clients, worker[c] = "post"
    PROVE  /\ inFlight[c][1] \in Job /\ inFlight[c] = <<inFlight[c][1]>>
           /\ inFlight[c] # <<>> /\ DOMAIN inFlight[c] = {1}
           /\ ItemsOf(inFlight[c]) = Captured(inFlight[c][1].items)
           /\ ItemsOf(<<inFlight[c][1]>>) = Captured(inFlight[c][1].items)
           /\ ItemsOf(<<inFlight[c][1]>>) \subseteq Items
<1> DEFINE s == inFlight[c]
<1>1. s \in Seq(Job) /\ Len(s) = 1
  BY DEF TelemetryInv, Types, ClientShape
<1> HIDE DEF s
<1>2. DOMAIN s = {1} /\ s[1] \in Job
  <2>1. DOMAIN s = 1 .. 1 /\ 1 \in 1 .. Len(s)
    BY <1>1, LenProperties
  <2>2. QED
    BY <1>1, <2>1, ElementOfSeq
<1>3. s = <<s[1]>> /\ s # <<>>
  <2>1. <<s[1]>> \in Seq(Job) /\ Len(<<s[1]>>) = 1 /\ <<s[1]>>[1] = s[1]
    BY <1>2
  <2>2. \A i \in 1 .. Len(s) : s[i] = <<s[1]>>[i]
    BY <1>1, <2>1
  <2>3. s = <<s[1]>>
    BY <1>1, <2>1, <2>2, SeqEqual
  <2>4. Len(<<>>) = 0
    OBVIOUS
  <2>5. s # <<>>
    BY <1>1, <2>4
  <2>6. QED
    BY <2>3, <2>5
<1>4. ItemsOf(<<s[1]>>) = Captured(s[1].items)
  BY Lone
<1>5. Captured(s[1].items) \subseteq Items
  BY <1>2, ItemsTyped
<1>6. QED
  BY <1>2, <1>3, <1>4, <1>5, Zenon DEF s

\* Every variable keeps its type.
LEMMA TypesStep ==
    ASSUME TelemetryInv, Next
    PROVE  Types'
<1>0. Types /\ ThreadShape /\ InitShape
  BY DEF TelemetryInv
<1> USE <1>0, Numbers
<1> USE DEF Types, vars, apiVars, callVars, clientVars, batchVars, drainVars, workerVars,
            historyVars, flushVars
<1>1. CASE UNCHANGED vars
  BY <1>1
<1>2. ASSUME NEW t \in Threads, NEW o \in Tracks \cup Drains \cup Settings, Call(t, o)
      PROVE  Types'
  BY <1>2 DEF Call
<1>3. ASSUME NEW t \in Threads, InitClient(t)
      PROVE  Types'
  <2>1. PICK c \in Clients : \E auto \in BOOLEAN, granted \in BOOLEAN :
           /\ life' = [life EXCEPT ![c] = "live"] /\ gate' = [gate EXCEPT ![c] = auto]
           /\ consent' = [consent EXCEPT ![c] = granted]
           /\ worker' = [worker EXCEPT ![c] = "drain"]
           /\ stage' = [stage EXCEPT ![c] = "event"] /\ ref' = [ref EXCEPT ![t] = c]
    <3> HIDE DEF Types
    <3>1. QED
      BY <1>3, Zenon DEF InitClient
  <2>2. /\ life' \in [Clients -> {"unborn", "live", "stopping", "gone"}]
        /\ consent' \in [Clients -> BOOLEAN] /\ gate' \in [Clients -> BOOLEAN]
        /\ worker' \in [Clients -> {"none", "drain", "wait", "log", "post", "done"}]
        /\ stage' \in [Actors -> {"off", "event", "metric", "end"}]
        /\ ref' \in [Threads -> 0 .. MaxClients]
    BY <2>1, ActorsApart DEF Clients
  <2>3. Len(store.tracks) \in Nat /\ calls' \in 0 .. MaxCalls
    BY <1>3, Numbers, LenProperties DEF InitClient
  <2>4. /\ pc' = [pc EXCEPT ![t] = "init"] /\ op' = [op EXCEPT ![t] = "init"] /\ replayed' = 0
        /\ UNCHANGED <<gClient, store, batchVars, hand, queue, inFlight, items, done, flushVars>>
    BY <1>3 DEF InitClient
  <2>5. 0 \in 0 .. Len(store.tracks)
    BY <2>3
  <2>6. QED
    BY <2>2, <2>3, <2>4, <2>5
<1>4. ASSUME NEW t \in Threads, Shutdown(t)
      PROVE  Types'
  <2>1. /\ pc' \in [Threads -> {"idle", "missed", "snapped", "adding", "draining", "init",
                               "replay", "publish", "quit", "join"}]
        /\ ref' \in [Threads -> 0 .. MaxClients]
        /\ stage' \in [Actors -> {"off", "event", "metric", "end"}]
    <3>1. CASE /\ ref' = [ref EXCEPT ![t] = gClient] /\ pc' = [pc EXCEPT ![t] = "quit"]
               /\ stage' = [stage EXCEPT ![t] = "event"]
      BY <3>1, ActorsApart
    <3>2. CASE UNCHANGED <<ref, pc, stage>>
      BY <3>2
    <3>3. QED
      BY <1>4, <3>1, <3>2 DEF Shutdown
  <2>2. calls' \in 0 .. MaxCalls /\ gClient' \in 0 .. MaxClients
    BY <1>4 DEF Shutdown
  <2>3. UNCHANGED <<store, replayed, op, clientVars, batchVars, hand, workerVars, items, done,
                    flushVars>>
    BY <1>4 DEF Shutdown
  <2>4. QED
    BY <2>1, <2>2, <2>3
<1>5. ASSUME NEW t \in Threads, Buffer(t)
      PROVE  Types'
  <2>1. /\ op[t] \in Tracks \cup Settings /\ store' = Buffered(store, op[t], items + 1) /\ Return(t)
        /\ UNCHANGED <<gClient, replayed, life, consent, gate, batch, aged, hand, worker, queue,
                       inFlight, calls, owed, result>>
    BY <1>5 DEF Buffer, ThreadShape, OpsAt
  <2>2. CASE op[t] \in Tracks
    <3>1. items + 1 \in Items /\ items + 1 \in 1 .. MaxCalls
      BY <2>2, NextNumber
    <3>2. items' = items + 1 /\ done' \subseteq Items
      BY <1>5, <2>2, <3>1 DEF Buffer
    <3>3. CASE Len(store.tracks) < MaxTracks
      <4> DEFINE new == [n |-> items + 1, kind |-> op[t]]
                 longer == Append(store.tracks, new)
      <4>1. new \in [n : Items, kind : Kinds]
        BY <2>2, <3>1 DEF Tracks
      <4>2. longer \in Seq([n : Items, kind : Kinds]) /\ Len(longer) = Len(store.tracks) + 1
        BY <4>1, AppendProperties
      <4>3. store' = [store EXCEPT !.tracks = longer]
        BY <2>1, <2>2, <3>3, BufferedCases
      <4> HIDE DEF longer
      <4>4. /\ store' \in [tracks : Seq([n : Items, kind : Kinds]),
                           consent : {"unset", "grant", "refuse"}, start : BOOLEAN]
            /\ store'.tracks = longer
        BY <4>3, <4>2
      <4>5. Len(store'.tracks) <= MaxTracks /\ replayed' \in 0 .. Len(store'.tracks)
        BY <2>1, <3>3, <4>2, <4>4, LenProperties, Numbers
      <4>6. QED
        BY <2>1, <3>1, <3>2, <4>4, <4>5, ReturnTyped
    <3>4. CASE ~ Len(store.tracks) < MaxTracks
      <4>1. store' = store
        BY <2>1, <2>2, <3>4, BufferedCases
      <4>2. QED
        BY <2>1, <3>1, <3>2, <4>1, ReturnTyped
    <3>5. QED
      BY <3>3, <3>4
  <2>3. CASE op[t] \in Settings
    <3>1. op[t] \notin Tracks /\ UNCHANGED <<items, done>>
      BY <1>5, <2>3 DEF Buffer, Tracks, Kinds, Settings
    <3>2. /\ store' \in [tracks : Seq([n : Items, kind : Kinds]),
                         consent : {"unset", "grant", "refuse"}, start : BOOLEAN]
          /\ store'.tracks = store.tracks
      BY <2>1, <2>3, BufferedCases
    <3>3. QED
      BY <2>1, <3>1, <3>2, ReturnTyped
  <2>4. QED
    BY <2>1, <2>2, <2>3
<1>6. ASSUME NEW t \in Threads, Retake(t)
      PROVE  Types'
  BY <1>6 DEF Retake
<1>7. ASSUME NEW t \in Threads, TrackPasses(t)
      PROVE  Types'
  BY <1>7 DEF TrackPasses
<1>8. ASSUME NEW t \in Threads, TrackIgnored(t)
      PROVE  Types'
  BY <1>8, ReturnTyped, Born DEF TrackIgnored
<1>9. ASSUME NEW t \in Threads, TrackAdds(t)
      PROVE  Types'
  <2>1. /\ op[t] \in Kinds /\ op[t] \in Tracks /\ ref[t] \in Clients
        /\ items + 1 \in Item /\ items + 1 \in 1 .. MaxCalls
    <3>1. op[t] \in Tracks /\ ref[t] \in Clients
      BY <1>9, Born DEF TrackAdds, ThreadShape, OpsAt
    <3>2. QED
      BY <3>1, NextNumber DEF Tracks, Item
  <2>2. Add(ref[t], op[t], items + 1)
    BY <1>9 DEF TrackAdds
  <2>3. /\ batch' \in [Clients -> [Kinds -> Seq(Items \cup {Rtt})]]
        /\ \A d \in Clients, j \in Kinds : Len(batch'[d][j]) <= MaxBatch
        /\ aged' \in [Clients -> [Kinds -> BOOLEAN]]
        /\ Displaced(batch[ref[t]][op[t]]) \ {Rtt} \subseteq Items
    BY <2>1, <2>2, AddTyped
  <2>4. /\ Return(t) /\ items' = items + 1
        /\ done' = done \cup (Displaced(batch[ref[t]][op[t]]) \ {Rtt})
        /\ UNCHANGED <<apiVars, clientVars, hand, workerVars, calls, flushVars>>
    BY <1>9 DEF TrackAdds
  <2>5. QED
    BY <2>1, <2>3, <2>4, ReturnTyped
<1>10. ASSUME NEW t \in Threads, Choose(t)
       PROVE  Types'
  BY <1>10, ReturnTyped, Born DEF Choose
<1>11. ASSUME NEW t \in Threads, BeginDrain(t)
       PROVE  Types'
  <2>1. ref[t] \in Clients
    BY <1>11, Born DEF BeginDrain
  <2>2. (UNION {Range(batch[ref[t]][k]) : k \in Kinds}) \ {Rtt} \subseteq Items
    <3>1. \A k \in Kinds : batch[ref[t]][k] \in Seq(Item)
      BY <2>1 DEF Item
    <3>2. \A k \in Kinds : Range(batch[ref[t]][k]) \ {Rtt} \subseteq Items
      BY <3>1, ItemsTyped DEF Captured, Range
    <3>3. QED
      BY <3>2
  <2>3. owed' \in [Threads -> SUBSET Items]
    BY <1>11, <2>2 DEF BeginDrain
  <2>4. QED
    BY <1>11, <2>3, ActorsApart DEF BeginDrain
<1>12. ASSUME NEW t \in Threads, CrashIgnored(t)
       PROVE  Types'
  BY <1>12, ReturnTyped, Born DEF CrashIgnored
<1>13. ASSUME NEW t \in Threads, ThreadDrains(t)
       PROVE  Types'
  <2>1. t \in Actors /\ ref[t] \in Clients /\ Drain(t, ref[t], TRUE)
        /\ UNCHANGED <<apiVars, callVars, clientVars, worker, inFlight, calls, items, flushVars>>
    BY <1>13, ActorsApart, Born DEF ThreadDrains
  <2>2. /\ batch' \in [Clients -> [Kinds -> Seq(Items \cup {Rtt})]]
        /\ \A d \in Clients, j \in Kinds : Len(batch'[d][j]) <= MaxBatch
        /\ aged' \in [Clients -> [Kinds -> BOOLEAN]]
        /\ stage' \in [Actors -> {"off", "event", "metric", "end"}]
        /\ hand' \in [Actors -> Seq(Envelope)]
        /\ queue' \in [Clients -> Seq(Job)]
        /\ \A d \in Clients : Len(queue'[d]) <= MaxQueue
        /\ done' \subseteq Items
    BY <2>1, DrainTyped
  <2>3. QED
    BY <2>1, <2>2
<1>14. ASSUME NEW t \in Threads, FlushReturns(t)
       PROVE  Types'
  BY <1>14, ReturnTyped, Born DEF FlushReturns
<1>15. ASSUME NEW t \in Threads, CrashReturns(t)
       PROVE  Types'
  BY <1>15, ReturnTyped, Born DEF CrashReturns
<1>16. ASSUME NEW t \in Threads, ReplayConsent(t)
       PROVE  Types'
  <2>1. ReplayedConsent(ref[t]) \in BOOLEAN
    BY <1>16, Born DEF ReplayConsent, ReplayedConsent
  <2>2. QED
    BY <1>16, <2>1 DEF ReplayConsent
<1>17. ASSUME NEW t \in Threads, ReplayTrack(t)
       PROVE  Types'
  <2>1. /\ ref[t] \in Clients /\ replayed + 1 \in 1 .. Len(store.tracks)
        /\ UNCHANGED <<gClient, store, callVars, clientVars, drainVars, workerVars, calls, items,
                       flushVars>>
        /\ replayed' \in 0 .. Len(store.tracks)
    <3>1. Len(store.tracks) \in Nat
      BY LenProperties
    <3>2. /\ pc[t] = "replay" /\ replayed < Len(store.tracks) /\ replayed' = replayed + 1
          /\ UNCHANGED <<gClient, store, callVars, clientVars, drainVars, workerVars, calls, items,
                         flushVars>>
      BY <1>17 DEF ReplayTrack
    <3>3. ref[t] \in Clients
      BY <3>2, Born
    <3>4. replayed \in Nat
      BY <3>1
    <3>5. QED
      BY <3>1, <3>2, <3>3, <3>4
  <2>2. NextTrack \in [n : Items, kind : Kinds]
    BY <2>1, ElementOfSeq DEF NextTrack
  <2>3. CASE consent[ref[t]]
    <3>1. /\ Add(ref[t], NextTrack.kind, NextTrack.n)
          /\ done' = done \cup (Displaced(batch[ref[t]][NextTrack.kind]) \ {Rtt})
      BY <1>17, <2>3 DEF ReplayTrack
    <3>2. NextTrack.n \in Item /\ NextTrack.kind \in Kinds
      BY <2>2 DEF Item
    <3>3. /\ batch' \in [Clients -> [Kinds -> Seq(Items \cup {Rtt})]]
          /\ \A d \in Clients, j \in Kinds : Len(batch'[d][j]) <= MaxBatch
          /\ aged' \in [Clients -> [Kinds -> BOOLEAN]]
          /\ Displaced(batch[ref[t]][NextTrack.kind]) \ {Rtt} \subseteq Items
      BY <2>1, <3>1, <3>2, AddTyped
    <3>4. QED
      BY <2>1, <3>1, <3>3
  <2>4. CASE ~ consent[ref[t]]
    <3>1. done' = done \cup {NextTrack.n} /\ UNCHANGED batchVars
      BY <1>17, <2>4 DEF ReplayTrack
    <3>2. done' \subseteq Items
      BY <2>2, <3>1
    <3>3. QED
      BY <2>1, <3>1, <3>2
  <2>5. QED
    BY <2>3, <2>4
<1>18. ASSUME NEW t \in Threads, ReplayStart(t)
       PROVE  Types'
  BY <1>18 DEF ReplayStart
<1>19. ASSUME NEW t \in Threads, Publish(t)
       PROVE  Types'
  BY <1>19 DEF Publish, Cleared, EmptyStore
<1>20. ASSUME NEW t \in Threads, QuitStops(t)
       PROVE  Types'
  BY <1>20 DEF QuitStops, Drained
<1>21. ASSUME NEW t \in Threads, QuitJoins(t)
       PROVE  Types'
  <2>1. ref[t] \in Clients
    BY <1>21, Born DEF QuitJoins
  <2>2. /\ ItemsOf(queue[ref[t]]) \subseteq Items
        /\ (UNION {Range(batch[ref[t]][k]) : k \in Kinds}) \ {Rtt} \subseteq Items
        /\ <<>> \in Seq(Job) /\ <<>> \in Seq(Items \cup {Rtt}) /\ Len(<<>>) = 0
    <3>1. queue[ref[t]] \in Seq(Job) /\ \A k \in Kinds : batch[ref[t]][k] \in Seq(Item)
      BY <2>1 DEF Item
    <3>2. \A k \in Kinds : Range(batch[ref[t]][k]) \ {Rtt} \subseteq Items
      BY <3>1, ItemsTyped DEF Captured, Range
    <3>3. QED
      BY <3>1, <3>2, ItemsTyped
  <2>3. QED
    BY <1>21, <2>1, <2>2, Numbers DEF QuitJoins
<1>22. ASSUME NEW c \in Clients, WorkerDrains(c)
       PROVE  Types'
  <2>1. c \in Actors /\ c \in Clients /\ Drain(c, c, FALSE)
        /\ UNCHANGED <<apiVars, callVars, clientVars, worker, inFlight, calls, items, flushVars>>
    BY <1>22, ActorsApart, Born DEF WorkerDrains
  <2>2. /\ batch' \in [Clients -> [Kinds -> Seq(Items \cup {Rtt})]]
        /\ \A d \in Clients, j \in Kinds : Len(batch'[d][j]) <= MaxBatch
        /\ aged' \in [Clients -> [Kinds -> BOOLEAN]]
        /\ stage' \in [Actors -> {"off", "event", "metric", "end"}]
        /\ hand' \in [Actors -> Seq(Envelope)]
        /\ queue' \in [Clients -> Seq(Job)]
        /\ \A d \in Clients : Len(queue'[d]) <= MaxQueue
        /\ done' \subseteq Items
    BY <2>1, DrainTyped
  <2>3. QED
    BY <2>1, <2>2
<1>23. ASSUME NEW c \in Clients, WorkerDrained(c)
       PROVE  Types'
  BY <1>23 DEF WorkerDrained, Drained
<1>24. ASSUME NEW c \in Clients, WorkerFlushesLog(c)
       PROVE  Types'
  BY <1>24 DEF WorkerFlushesLog
<1>25. ASSUME NEW c \in Clients, WorkerTakes(c)
       PROVE  Types'
  <2>1. PICK i \in DOMAIN queue[c] :
           /\ inFlight' = [inFlight EXCEPT ![c] = <<queue[c][i]>>]
           /\ queue' = [queue EXCEPT ![c] = RemoveAt(queue[c], i)]
    BY <1>25 DEF WorkerTakes
  <2>2. queue[c] \in Seq(Job) /\ Len(queue[c]) <= MaxQueue
    OBVIOUS
  <2>3. /\ RemoveAt(queue[c], i) \in Seq(Job) /\ queue[c][i] \in Job
        /\ Len(RemoveAt(queue[c], i)) <= MaxQueue /\ <<queue[c][i]>> \in Seq(Job)
    <3>1. /\ RemoveAt(queue[c], i) \in Seq(Job) /\ queue[c][i] \in Job
          /\ Len(queue[c]) \in Nat /\ Len(RemoveAt(queue[c], i)) <= Len(queue[c])
      BY <2>2, JobTaken
    <3>2. Len(RemoveAt(queue[c], i)) \in Nat
      BY <3>1, LenProperties
    <3>3. QED
      BY <2>2, <3>1, <3>2, Numbers
  <2>4. /\ inFlight' \in [Clients -> Seq(Job)] /\ queue' \in [Clients -> Seq(Job)]
        /\ \A d \in Clients : Len(queue'[d]) <= MaxQueue
    BY <2>1, <2>3
  <2>5. /\ worker' = [worker EXCEPT ![c] = "post"]
        /\ UNCHANGED <<apiVars, callVars, clientVars, batchVars, drainVars, historyVars>>
    BY <1>25 DEF WorkerTakes
  <2>6. QED
    BY <2>4, <2>5
<1>26. ASSUME NEW c \in Clients, WorkerIdles(c)
       PROVE  Types'
  BY <1>26 DEF WorkerIdles, MayGoOn
<1>27. ASSUME NEW c \in Clients, WorkerExits(c)
       PROVE  Types'
  BY <1>27 DEF WorkerExits
<1>28. ASSUME NEW c \in Clients, PostDelivered(c)
       PROVE  Types'
  <2>1. inFlight[c][1] \in Job /\ ItemsOf(<<inFlight[c][1]>>) \subseteq Items
    BY <1>28, FlightTyped DEF PostDelivered
  <2>2. /\ Idle(c) /\ UNCHANGED <<apiVars, callVars, clientVars, hand, queue, calls, items, flushVars>>
    BY <1>28 DEF PostDelivered
  <2>3. /\ batch' \in [Clients -> [Kinds -> Seq(Items \cup {Rtt})]]
        /\ \A d \in Clients, j \in Kinds : Len(batch'[d][j]) <= MaxBatch
        /\ aged' \in [Clients -> [Kinds -> BOOLEAN]] /\ done' \subseteq Items
    <3>1. CASE EmitsRtt(inFlight[c][1]) /\ consent[c]
      <4>1. /\ Add(c, "metric", Rtt) /\ Rtt \in Item /\ "metric" \in Kinds
            /\ done' = done \cup ItemsOf(<<inFlight[c][1]>>)
                            \cup (Displaced(batch[c]["metric"]) \ {Rtt})
        BY <1>28, <3>1 DEF PostDelivered, Item, Kinds
      <4>2. /\ batch' \in [Clients -> [Kinds -> Seq(Items \cup {Rtt})]]
            /\ \A d \in Clients, j \in Kinds : Len(batch'[d][j]) <= MaxBatch
            /\ aged' \in [Clients -> [Kinds -> BOOLEAN]]
            /\ Displaced(batch[c]["metric"]) \ {Rtt} \subseteq Items
        BY <4>1, AddTyped
      <4>3. QED
        BY <2>1, <4>1, <4>2
    <3>2. CASE ~ (EmitsRtt(inFlight[c][1]) /\ consent[c])
      BY <1>28, <2>1, <3>2 DEF PostDelivered
    <3>3. QED
      BY <3>1, <3>2
  <2>4. /\ inFlight' \in [Clients -> Seq(Job)]
        /\ worker' \in [Clients -> {"none", "drain", "wait", "log", "post", "done"}]
        /\ stage' \in [Actors -> {"off", "event", "metric", "end"}]
    BY <2>2, ActorsApart DEF Idle
  <2>5. QED
    BY <2>2, <2>3, <2>4
<1>29. ASSUME NEW c \in Clients, PostDropped(c)
       PROVE  Types'
  <2>1. ItemsOf(inFlight[c]) \subseteq Items
    BY ItemsTyped
  <2>2. /\ Idle(c) /\ done' = done \cup ItemsOf(inFlight[c])
        /\ UNCHANGED <<apiVars, callVars, clientVars, batchVars, hand, queue, calls, items, flushVars>>
    BY <1>29 DEF PostDropped
  <2>3. /\ inFlight' \in [Clients -> Seq(Job)]
        /\ worker' \in [Clients -> {"none", "drain", "wait", "log", "post", "done"}]
        /\ stage' \in [Actors -> {"off", "event", "metric", "end"}]
    BY <2>2, ActorsApart DEF Idle
  <2>4. QED
    BY <2>1, <2>2, <2>3
<1>30. ASSUME NEW c \in Clients, PostRetried(c)
       PROVE  Types'
  <2> DEFINE e == inFlight[c][1]
             again == [e EXCEPT !.attempt = @ + 1]
  <2>1. e \in Envelope /\ e.attempt + 1 < MaxAttempts
    BY <1>30, FlightTyped DEF PostRetried, Job
  <2>2. again \in Envelope
    BY <2>1, RetriedTyped
  <2>3. /\ Idle(c) /\ queue' = [queue EXCEPT ![c] = Enqueued(queue[c], again)]
        /\ done' = done \cup QueueDropped(queue[c])
        /\ UNCHANGED <<apiVars, callVars, clientVars, batchVars, hand, calls, items, flushVars>>
    BY <1>30 DEF PostRetried
  <2> HIDE DEF again
  <2>4. queue[c] \in Seq(Job) /\ Len(queue[c]) <= MaxQueue
    OBVIOUS
  <2>5. /\ Enqueued(queue[c], again) \in Seq(Job) /\ Len(Enqueued(queue[c], again)) <= MaxQueue
        /\ QueueDropped(queue[c]) \subseteq Items
    BY <2>2, <2>4, EnqueuedTyped, ItemsTyped
  <2>6. /\ queue' \in [Clients -> Seq(Job)] /\ done' \subseteq Items
        /\ \A d \in Clients : Len(queue'[d]) <= MaxQueue
    BY <2>3, <2>5
  <2>7. /\ inFlight' \in [Clients -> Seq(Job)]
        /\ worker' \in [Clients -> {"none", "drain", "wait", "log", "post", "done"}]
        /\ stage' \in [Actors -> {"off", "event", "metric", "end"}]
    BY <2>3, ActorsApart DEF Idle
  <2>8. QED
    BY <2>3, <2>6, <2>7
<1>31. ASSUME NEW c \in Clients, NEW k \in Kinds, Age(c, k)
       PROVE  Types'
  BY <1>31 DEF Age
<1>32. ASSUME NEW c \in Clients, HeartbeatSent(c)
       PROVE  Types'
  <2>1. /\ queue' = [queue EXCEPT ![c] = Enqueued(queue[c], Beat)] /\ calls' \in 0 .. MaxCalls
        /\ done' = done \cup QueueDropped(queue[c])
        /\ UNCHANGED <<apiVars, callVars, clientVars, batchVars, drainVars, worker, inFlight,
                       items, flushVars>>
    BY <1>32 DEF HeartbeatSent
  <2>2. queue[c] \in Seq(Job) /\ Len(queue[c]) <= MaxQueue
    OBVIOUS
  <2>3. /\ Enqueued(queue[c], Beat) \in Seq(Job) /\ Len(Enqueued(queue[c], Beat)) <= MaxQueue
        /\ QueueDropped(queue[c]) \subseteq Items
    BY <2>2, EnqueuedTyped, ItemsTyped
  <2>4. /\ queue' \in [Clients -> Seq(Job)] /\ done' \subseteq Items
        /\ \A d \in Clients : Len(queue'[d]) <= MaxQueue
    BY <2>1, <2>3
  <2>5. QED
    BY <2>1, <2>4
<1> HIDE DEF Types
<1>33. QED
  BY <1>1, <1>2, <1>3, <1>4, <1>5, <1>6, <1>7, <1>8, <1>9, <1>10, <1>11, <1>12, <1>13,
     <1>14, <1>15, <1>16, <1>17, <1>18, <1>19, <1>20, <1>21, <1>22, <1>23, <1>24, <1>25,
     <1>26, <1>27, <1>28, <1>29, <1>30, <1>31, <1>32, NextCases

\* A call that is counted accepts its item, or none.
CountedOps == {u \in Threads : op[u] \in Tracks}

\* The number of those calls is a number.
LEMMA OpsCounted ==
    ASSUME TelemetryInv
    PROVE  /\ IsFiniteSet(CountedOps) /\ IsFiniteSet(CountedOps')
           /\ Cardinality(CountedOps) \in Nat /\ Cardinality(CountedOps') \in Nat
           /\ items + Cardinality(CountedOps) <= calls /\ items \in Nat /\ calls \in Nat
           /\ Counted' <=> items' + Cardinality(CountedOps') <= calls'
<1>1. IsFiniteSet(CountedOps) /\ IsFiniteSet(CountedOps')
  BY TelemetryAssumption, FS_Subset DEF CountedOps
<1>2. QED
  BY <1>1, FS_CardinalityType DEF TelemetryInv, Counted, Types, CountedOps

\* No call is made.
LEMMA CountedSame ==
    ASSUME TelemetryInv, \A u \in Threads : op'[u] \in Tracks => op[u] \in Tracks,
           UNCHANGED <<items, calls>>
    PROVE  Counted'
<1>1. CountedOps' \subseteq CountedOps
  BY DEF CountedOps
<1>2. Cardinality(CountedOps') <= Cardinality(CountedOps)
  BY <1>1, OpsCounted, FS_Subset
<1>3. QED
  BY <1>2, OpsCounted

\* A call is made.
LEMMA CountedNew ==
    ASSUME TelemetryInv, NEW t \in Threads,
           \A u \in Threads \ {t} : op'[u] \in Tracks => op[u] \in Tracks,
           UNCHANGED items, calls' = calls + 1
    PROVE  Counted'
<1>1. CountedOps' \subseteq CountedOps \cup {t}
  BY DEF CountedOps
<1>2. /\ IsFiniteSet(CountedOps \cup {t})
      /\ Cardinality(CountedOps \cup {t}) <= Cardinality(CountedOps) + 1
  <2> DEFINE n == Cardinality(CountedOps)
             m == Cardinality(CountedOps \cup {t})
  <2>1. IsFiniteSet(CountedOps) /\ n \in Nat
    BY OpsCounted
  <2>2. CASE t \in CountedOps
    <3>1. CountedOps \cup {t} = CountedOps
      BY <2>2
    <3>2. m = n
      BY <3>1
    <3> HIDE DEF n, m
    <3>3. m <= n + 1
      BY <2>1, <3>2
    <3>4. QED
      BY <2>1, <3>1, <3>3 DEF n, m
  <2>3. CASE t \notin CountedOps
    <3>1. IsFiniteSet(CountedOps \cup {t}) /\ m = n + 1
      BY <2>1, <2>3, FS_AddElement
    <3> HIDE DEF n, m
    <3>2. m <= n + 1
      BY <2>1, <3>1
    <3>3. QED
      BY <3>1, <3>2 DEF n, m
  <2>4. QED
    BY <2>2, <2>3
<1>3. /\ Cardinality(CountedOps') <= Cardinality(CountedOps \cup {t})
      /\ Cardinality(CountedOps \cup {t}) \in Nat
  BY <1>1, <1>2, FS_Subset, FS_CardinalityType
<1>4. QED
  BY <1>2, <1>3, OpsCounted

\* A call ends with its item or without.
LEMMA CountedDone ==
    ASSUME TelemetryInv, NEW t \in Threads,
           \A u \in Threads \ {t} : op'[u] \in Tracks => op[u] \in Tracks,
           op[t] \in Tracks, op'[t] \notin Tracks,
           items' \in {items, items + 1}, UNCHANGED calls
    PROVE  Counted'
<1>1. CountedOps' \subseteq CountedOps \ {t} /\ t \in CountedOps
  BY DEF CountedOps
<1>2. /\ IsFiniteSet(CountedOps \ {t})
      /\ Cardinality(CountedOps \ {t}) = Cardinality(CountedOps) - 1
  BY <1>1, OpsCounted, FS_RemoveElement
<1>3. Cardinality(CountedOps') <= Cardinality(CountedOps) - 1
  BY <1>1, <1>2, FS_Subset
<1>4. QED
  BY <1>3, OpsCounted

\* No more items than calls.
LEMMA CountedStep ==
    ASSUME TelemetryInv, Next
    PROVE  Counted'
<1>0. Types /\ ThreadShape
  BY DEF TelemetryInv
<1> USE ControlTypes
<1> USE DEF vars, apiVars, callVars, clientVars, batchVars, drainVars, workerVars,
            historyVars, flushVars
<1>1. CASE UNCHANGED vars
  <2>1. op' = op /\ UNCHANGED <<items, calls>>
    BY <1>1
  <2>2. QED
    BY <2>1, CountedSame
<1>2. ASSUME NEW t \in Threads, NEW o \in Tracks \cup Drains \cup Settings, Call(t, o)
      PROVE  Counted'
  <2>1. /\ \A u \in Threads \ {t} : op'[u] = op[u]
        /\ UNCHANGED items /\ calls' = calls + 1
    BY <1>2 DEF Call
  <2>2. QED
    BY <2>1, CountedNew
<1>3. ASSUME NEW t \in Threads, InitClient(t)
      PROVE  Counted'
  <2>1. /\ \A u \in Threads \ {t} : op'[u] = op[u]
        /\ UNCHANGED items /\ calls' = calls + 1
    BY <1>3 DEF InitClient
  <2>2. QED
    BY <2>1, CountedNew
<1>4. ASSUME NEW t \in Threads, Shutdown(t)
      PROVE  Counted'
  <2>1. /\ \A u \in Threads \ {t} : op'[u] = op[u]
        /\ UNCHANGED items /\ calls' = calls + 1
    BY <1>4 DEF Shutdown
  <2>2. QED
    BY <2>1, CountedNew
<1>5. ASSUME NEW t \in Threads, Buffer(t)
      PROVE  Counted'
  <2>1. op' = [op EXCEPT ![t] = "none"] /\ UNCHANGED calls
    BY <1>5 DEF Buffer, Return
  <2>2. op'[t] \notin Tracks /\ \A u \in Threads \ {t} : op'[u] = op[u]
    BY <2>1 DEF Tracks, Kinds
  <2>3. CASE op[t] \in Tracks
    <3>1. items' = items + 1
      BY <1>5, <2>3 DEF Buffer
    <3>2. QED
      BY <2>1, <2>2, <2>3, <3>1, CountedDone
  <2>4. CASE op[t] \notin Tracks
    <3>1. UNCHANGED items
      BY <1>5, <2>4 DEF Buffer
    <3>2. \A u \in Threads : op'[u] \in Tracks => op[u] \in Tracks
      BY <2>2
    <3>3. QED
      BY <2>1, <3>1, <3>2, CountedSame
  <2>5. QED
    BY <2>3, <2>4
<1>6. ASSUME NEW t \in Threads, TrackAdds(t)
      PROVE  Counted'
  <2>1. /\ op' = [op EXCEPT ![t] = "none"] /\ items' = items + 1 /\ UNCHANGED calls
        /\ op[t] \in Tracks
    BY <1>6 DEF TrackAdds, Return, ThreadShape, OpsAt
  <2>2. op'[t] \notin Tracks /\ \A u \in Threads \ {t} : op'[u] = op[u]
    BY <2>1 DEF Tracks, Kinds
  <2>3. QED
    BY <2>1, <2>2, CountedDone
<1>7. ASSUME NEW t \in Threads,
             \/ TrackIgnored(t) \/ Choose(t) \/ CrashIgnored(t) \/ FlushReturns(t)
             \/ CrashReturns(t)
      PROVE  Counted'
  <2>1. op' = [op EXCEPT ![t] = "none"] /\ UNCHANGED <<items, calls>>
    BY <1>7 DEF Return, TrackIgnored, Choose, CrashIgnored, FlushReturns, CrashReturns
  <2>2. \A u \in Threads : op'[u] \in Tracks => op[u] \in Tracks
    BY <2>1 DEF Tracks, Kinds
  <2>3. QED
    BY <2>1, <2>2, CountedSame
<1>8. ASSUME NEW t \in Threads, Publish(t)
      PROVE  Counted'
  <2>1. op' = [op EXCEPT ![t] = "none"] /\ UNCHANGED <<items, calls>>
    BY <1>8 DEF Publish
  <2>2. \A u \in Threads : op'[u] \in Tracks => op[u] \in Tracks
    BY <2>1 DEF Tracks, Kinds
  <2>3. QED
    BY <2>1, <2>2, CountedSame
<1>9. ASSUME NEW t \in Threads,
             \/ Retake(t) \/ TrackPasses(t) \/ BeginDrain(t) \/ ThreadDrains(t)
             \/ ReplayConsent(t) \/ ReplayTrack(t) \/ ReplayStart(t) \/ QuitStops(t)
             \/ QuitJoins(t)
      PROVE  Counted'
  <2>1. op' = op /\ UNCHANGED <<items, calls>>
    BY <1>9 DEF Retake, TrackPasses, BeginDrain, ThreadDrains, ReplayConsent, ReplayTrack, ReplayStart, QuitStops, QuitJoins
  <2>2. QED
    BY <2>1, CountedSame
<1>10. ASSUME NEW c \in Clients,
              \/ WorkerDrains(c) \/ WorkerDrained(c) \/ WorkerFlushesLog(c)
              \/ WorkerTakes(c) \/ WorkerIdles(c) \/ WorkerExits(c)
       PROVE  Counted'
  <2>1. op' = op /\ UNCHANGED <<items, calls>>
    BY <1>10 DEF WorkerDrains, WorkerDrained, WorkerFlushesLog, WorkerTakes, WorkerIdles, WorkerExits
  <2>2. QED
    BY <2>1, CountedSame
<1>11. ASSUME NEW c \in Clients,
              \/ PostDelivered(c) \/ PostDropped(c) \/ PostRetried(c)
       PROVE  Counted'
  <2>1. op' = op /\ UNCHANGED <<items, calls>>
    BY <1>11 DEF PostDelivered, PostDropped, PostRetried
  <2>2. QED
    BY <2>1, CountedSame
<1>12. ASSUME NEW c \in Clients, NEW k \in Kinds, Age(c, k)
       PROVE  Counted'
  <2>1. op' = op /\ UNCHANGED <<items, calls>>
    BY <1>12 DEF Age
  <2>2. QED
    BY <2>1, CountedSame
<1>13. ASSUME NEW c \in Clients, HeartbeatSent(c)
       PROVE  Counted'
  <2>1. op' = op /\ UNCHANGED items /\ calls' = calls + 1
    BY <1>13 DEF HeartbeatSent
  <2>2. CountedOps' = CountedOps
    BY <2>1 DEF CountedOps
  <2>3. QED
    BY <2>1, <2>2, OpsCounted
<1>14. QED
  BY <1>1, <1>2, <1>3, <1>4, <1>5, <1>6, <1>7, <1>8, <1>9, <1>10, <1>11, <1>12, <1>13, NextCases

\* A drain makes envelopes of the right size.
LEMMA DrainFit ==
    ASSUME Types, AllFit, NEW a \in Actors, NEW c \in Clients, NEW force, Drain(a, c, force)
    PROVE  /\ \A b \in Actors : \A i \in DOMAIN hand'[b] : Fitting(hand'[b][i])
           /\ \A d \in Clients : \A i \in DOMAIN queue'[d] : Fitting(queue'[d][i])
<1>1. /\ batch \in [Clients -> [Kinds -> Seq(Item)]]
      /\ hand \in [Actors -> Seq(Envelope)] /\ queue \in [Clients -> Seq(Job)]
      /\ \A b \in Actors : \A i \in DOMAIN hand[b] : Fitting(hand[b][i])
      /\ \A d \in Clients : \A i \in DOMAIN queue[d] : Fitting(queue[d][i])
  BY DEF Types, AllFit, Item
<1>2. ASSUME NEW k \in Kinds, DrainBatch(a, c, k, force)
      PROVE  \A b \in Actors : \A i \in DOMAIN hand'[b] : Fitting(hand'[b][i])
  <2>1. CASE Ready(c, k, force)
    <3>1. hand' = [hand EXCEPT ![a] = Envelopes(k, batch[c][k])]
      BY <1>2, <2>1 DEF DrainBatch
    <3>2. \A i \in DOMAIN Envelopes(k, batch[c][k]) : Fitting(Envelopes(k, batch[c][k])[i])
      BY <1>1, CutItems
    <3>3. QED
      BY <1>1, <3>1, <3>2
  <2>2. CASE ~ Ready(c, k, force)
    BY <1>1, <1>2, <2>2 DEF DrainBatch
  <2>3. QED
    BY <2>1, <2>2
<1>3. CASE DrainEvents(a, c, force) \/ DrainMetrics(a, c, force)
  <2>1. UNCHANGED queue /\ "event" \in Kinds /\ "metric" \in Kinds
    BY <1>3 DEF DrainEvents, DrainMetrics, Kinds
  <2>2. DrainBatch(a, c, "event", force) \/ DrainBatch(a, c, "metric", force) \/ UNCHANGED hand
    BY <1>3 DEF DrainEvents, DrainMetrics
  <2>3. QED
    BY <1>1, <1>2, <2>1, <2>2
<1>4. CASE EnqueueNext(a, c)
  <2>1. /\ hand[a] \in Seq(Envelope) /\ hand[a] # <<>> /\ queue[c] \in Seq(Job)
        /\ queue' = [queue EXCEPT ![c] = Enqueued(queue[c], Head(hand[a]))]
        /\ hand' = [hand EXCEPT ![a] = Tail(hand[a])]
    BY <1>1, <1>4 DEF EnqueueNext
  <2>2. /\ Head(hand[a]) \in Envelope /\ Fitting(Head(hand[a]))
        /\ \A i \in DOMAIN Tail(hand[a]) : Fitting(Tail(hand[a])[i])
    <3>1. /\ Head(hand[a]) = hand[a][1] /\ 1 \in DOMAIN hand[a] /\ hand[a][1] \in Envelope
          /\ \A i \in DOMAIN Tail(hand[a]) :
                i + 1 \in DOMAIN hand[a] /\ Tail(hand[a])[i] = hand[a][i + 1]
      BY <2>1, HandTaken
    <3>2. QED
      BY <1>1, <3>1
  <2>3. \A i \in DOMAIN Enqueued(queue[c], Head(hand[a])) :
           Fitting(Enqueued(queue[c], Head(hand[a]))[i])
    <3>1. \A i \in DOMAIN Enqueued(queue[c], Head(hand[a])) :
             \/ Enqueued(queue[c], Head(hand[a]))[i] = Head(hand[a])
             \/ \E j \in DOMAIN queue[c] : Enqueued(queue[c], Head(hand[a]))[i] = queue[c][j]
      BY <2>1, <2>2, EnqueuedTyped, ItemsTyped
    <3>2. QED
      BY <1>1, <2>2, <3>1
  <2>4. QED
    BY <1>1, <2>1, <2>2, <2>3
<1>5. QED
  BY <1>3, <1>4 DEF Drain

\* Every envelope has the right size.
LEMMA FitStep ==
    ASSUME TelemetryInv, Next
    PROVE  AllFit'
<1>0. Types /\ AllFit
  BY DEF TelemetryInv
<1> USE ControlTypes
<1> USE DEF AllFit, vars, apiVars, callVars, clientVars, batchVars, drainVars, workerVars,
            historyVars, flushVars
<1>1. CASE UNCHANGED vars
  BY <1>0, <1>1
<1>2. ASSUME NEW t \in Threads, NEW o \in Tracks \cup Drains \cup Settings, Call(t, o)
      PROVE  AllFit'
  <2>1. UNCHANGED <<hand, queue, inFlight>>
    BY <1>2 DEF Call
  <2>2. QED
    BY <1>0, <2>1
<1>3. ASSUME NEW t \in Threads,
             \/ InitClient(t) \/ Shutdown(t)
      PROVE  AllFit'
  <2>1. UNCHANGED <<hand, queue, inFlight>>
    BY <1>3 DEF InitClient, Shutdown
  <2>2. QED
    BY <1>0, <2>1
<1>4. ASSUME NEW t \in Threads,
             \/ Buffer(t) \/ Retake(t) \/ TrackPasses(t) \/ TrackIgnored(t) \/ TrackAdds(t)
             \/ Choose(t)
      PROVE  AllFit'
  <2>1. UNCHANGED <<hand, queue, inFlight>>
    BY <1>4 DEF Buffer, Retake, TrackPasses, TrackIgnored, TrackAdds, Choose
  <2>2. QED
    BY <1>0, <2>1
<1>5. ASSUME NEW t \in Threads,
             \/ BeginDrain(t) \/ CrashIgnored(t) \/ FlushReturns(t) \/ CrashReturns(t)
      PROVE  AllFit'
  <2>1. UNCHANGED <<hand, queue, inFlight>>
    BY <1>5 DEF BeginDrain, CrashIgnored, FlushReturns, CrashReturns
  <2>2. QED
    BY <1>0, <2>1
<1>6. ASSUME NEW t \in Threads, ThreadDrains(t)
      PROVE  AllFit'
  <2>1. t \in Actors /\ ref[t] \in Clients /\ Drain(t, ref[t], TRUE) /\ UNCHANGED inFlight
    BY <1>6, ActorsApart, Born DEF ThreadDrains
  <2>2. /\ \A b \in Actors : \A i \in DOMAIN hand'[b] : Fitting(hand'[b][i])
        /\ \A d \in Clients : \A i \in DOMAIN queue'[d] : Fitting(queue'[d][i])
    BY <1>0, <2>1, DrainFit
  <2>3. QED
    BY <1>0, <2>1, <2>2
<1>7. ASSUME NEW t \in Threads,
             \/ ReplayConsent(t) \/ ReplayTrack(t) \/ ReplayStart(t) \/ Publish(t)
             \/ QuitStops(t)
      PROVE  AllFit'
  <2>1. UNCHANGED <<hand, queue, inFlight>>
    BY <1>7 DEF ReplayConsent, ReplayTrack, ReplayStart, Publish, QuitStops
  <2>2. QED
    BY <1>0, <2>1
<1>8. ASSUME NEW t \in Threads, QuitJoins(t)
      PROVE  AllFit'
  <2>1. UNCHANGED <<hand, inFlight>> /\ queue' = [queue EXCEPT ![ref[t]] = <<>>]
    BY <1>8 DEF QuitJoins
  <2>2. DOMAIN <<>> = {}
    OBVIOUS
  <2>3. QED
    BY <1>0, <2>1, <2>2
<1>9. ASSUME NEW c \in Clients, WorkerDrains(c)
      PROVE  AllFit'
  <2>1. c \in Actors /\ c \in Clients /\ Drain(c, c, FALSE) /\ UNCHANGED inFlight
    BY <1>9, ActorsApart, Born DEF WorkerDrains
  <2>2. /\ \A b \in Actors : \A i \in DOMAIN hand'[b] : Fitting(hand'[b][i])
        /\ \A d \in Clients : \A i \in DOMAIN queue'[d] : Fitting(queue'[d][i])
    BY <1>0, <2>1, DrainFit
  <2>3. QED
    BY <1>0, <2>1, <2>2
<1>10. ASSUME NEW c \in Clients,
              \/ WorkerDrained(c) \/ WorkerFlushesLog(c) \/ WorkerIdles(c) \/ WorkerExits(c)
       PROVE  AllFit'
  <2>1. UNCHANGED <<hand, queue, inFlight>>
    BY <1>10 DEF WorkerDrained, WorkerFlushesLog, WorkerIdles, WorkerExits
  <2>2. QED
    BY <1>0, <2>1
<1>11. ASSUME NEW c \in Clients, WorkerTakes(c)
       PROVE  AllFit'
  <2>1. PICK i \in DOMAIN queue[c] :
           /\ inFlight' = [inFlight EXCEPT ![c] = <<queue[c][i]>>]
           /\ queue' = [queue EXCEPT ![c] = RemoveAt(queue[c], i)]
    BY <1>11 DEF WorkerTakes
  <2>2. \A j \in DOMAIN RemoveAt(queue[c], i) : Fitting(RemoveAt(queue[c], i)[j])
    <3>1. queue[c] \in Seq(Job)
      BY <1>0 DEF Types
    <3>2. \A j \in DOMAIN RemoveAt(queue[c], i) :
             \E u \in DOMAIN queue[c] : RemoveAt(queue[c], i)[j] = queue[c][u]
      BY <3>1, JobTaken
    <3>3. QED
      BY <1>0, <3>2
  <2>3. DOMAIN <<queue[c][i]>> = {1} /\ <<queue[c][i]>>[1] = queue[c][i] /\ UNCHANGED hand
    BY <1>11 DEF WorkerTakes
  <2>4. QED
    BY <1>0, <2>1, <2>2, <2>3
<1>12. ASSUME NEW c \in Clients,
              \/ PostDelivered(c) \/ PostDropped(c)
       PROVE  AllFit'
  <2>1. UNCHANGED <<hand, queue>> /\ inFlight' = [inFlight EXCEPT ![c] = <<>>]
    BY <1>12 DEF PostDelivered, PostDropped, Idle
  <2>2. DOMAIN <<>> = {}
    OBVIOUS
  <2>3. QED
    BY <1>0, <2>1, <2>2
<1>13. ASSUME NEW c \in Clients, PostRetried(c)
       PROVE  AllFit'
  <2> DEFINE e == inFlight[c][1]
             again == [e EXCEPT !.attempt = @ + 1]
  <2>1. e \in Envelope /\ e.attempt + 1 < MaxAttempts /\ 1 \in DOMAIN inFlight[c]
    BY <1>13, FlightTyped DEF PostRetried, Job
  <2>2. again \in Envelope /\ again.items = e.items
    BY <2>1, RetriedTyped
  <2>3. /\ queue' = [queue EXCEPT ![c] = Enqueued(queue[c], again)]
        /\ inFlight' = [inFlight EXCEPT ![c] = <<>>] /\ UNCHANGED hand
    BY <1>13 DEF PostRetried, Idle
  <2>4. Fitting(again)
    BY <1>0, <1>13, <2>1, <2>2 DEF Fitting, PostRetried
  <2> HIDE DEF again, e
  <2>5. \A i \in DOMAIN Enqueued(queue[c], again) : Fitting(Enqueued(queue[c], again)[i])
    <3>1. queue[c] \in Seq(Job)
      BY <1>0 DEF Types
    <3>2. \A i \in DOMAIN Enqueued(queue[c], again) :
             \/ Enqueued(queue[c], again)[i] = again
             \/ \E j \in DOMAIN queue[c] : Enqueued(queue[c], again)[i] = queue[c][j]
      BY <2>2, <3>1, EnqueuedTyped, ItemsTyped
    <3>3. QED
      BY <1>0, <2>4, <3>2
  <2>6. DOMAIN <<>> = {}
    OBVIOUS
  <2>7. QED
    BY <1>0, <2>3, <2>5, <2>6
<1>14. ASSUME NEW c \in Clients, NEW k \in Kinds, Age(c, k)
       PROVE  AllFit'
  <2>1. UNCHANGED <<hand, queue, inFlight>>
    BY <1>14 DEF Age
  <2>2. QED
    BY <1>0, <2>1
<1>15. ASSUME NEW c \in Clients, HeartbeatSent(c)
       PROVE  AllFit'
  <2>1. /\ queue' = [queue EXCEPT ![c] = Enqueued(queue[c], Beat)]
        /\ UNCHANGED <<hand, inFlight>>
    BY <1>15 DEF HeartbeatSent
  <2>2. \A i \in DOMAIN Enqueued(queue[c], Beat) : Fitting(Enqueued(queue[c], Beat)[i])
    <3>1. queue[c] \in Seq(Job) /\ Fitting(Beat) /\ Beat \in Job
      BY <1>0, ItemsTyped DEF Types
    <3>2. \A i \in DOMAIN Enqueued(queue[c], Beat) :
             \/ Enqueued(queue[c], Beat)[i] = Beat
             \/ \E j \in DOMAIN queue[c] : Enqueued(queue[c], Beat)[i] = queue[c][j]
      BY <3>1, EnqueuedTyped
    <3>3. QED
      BY <1>0, <3>1, <3>2
  <2>3. QED
    BY <1>0, <2>1, <2>2
<1> HIDE DEF AllFit
<1>16. QED
  BY <1>1, <1>2, <1>3, <1>4, <1>5, <1>6, <1>7, <1>8, <1>9, <1>10, <1>11, <1>12, <1>13,
     <1>14, <1>15, NextCases

-----------------------------------------------------------------------------
(* Items move *)

\* What the spots are, and what each holds before and after a step.
LEMMA SpotsAre ==
    /\ \A l \in Spots :
          \/ l = StoreSpot \/ l = DoneSpot
          \/ \E c \in Clients, k \in Kinds : l = BatchSpot(c, k)
          \/ \E a \in Actors : l = HandSpot(a)
          \/ \E c \in Clients : l = QueueSpot(c)
          \/ \E c \in Clients : l = PostSpot(c)
    /\ StoreSpot \in Spots /\ DoneSpot \in Spots
    /\ \A c \in Clients, k \in Kinds : BatchSpot(c, k) \in Spots
    /\ \A a \in Actors : HandSpot(a) \in Spots
    /\ \A c \in Clients : QueueSpot(c) \in Spots /\ PostSpot(c) \in Spots
BY DEF Spots, StoreSpot, DoneSpot, BatchSpot, HandSpot, QueueSpot, PostSpot

\* Two spots are different.
LEMMA SpotsApart ==
    /\ StoreSpot # DoneSpot
    /\ \A c, k : BatchSpot(c, k) \notin {StoreSpot, DoneSpot}
    /\ \A a : HandSpot(a) \notin {StoreSpot, DoneSpot}
    /\ \A c : QueueSpot(c) \notin {StoreSpot, DoneSpot} /\ PostSpot(c) \notin {StoreSpot, DoneSpot}
    /\ \A a, c, k : HandSpot(a) # BatchSpot(c, k)
    /\ \A a, c, k : QueueSpot(a) # BatchSpot(c, k) /\ PostSpot(a) # BatchSpot(c, k)
    /\ \A a, c : HandSpot(a) # QueueSpot(c) /\ HandSpot(a) # PostSpot(c) /\ QueueSpot(a) # PostSpot(c)
    /\ \A c, k, d, j : BatchSpot(c, k) = BatchSpot(d, j) => c = d /\ k = j
    /\ \A a, b : HandSpot(a) = HandSpot(b) => a = b
    /\ \A c, d : QueueSpot(c) = QueueSpot(d) => c = d
    /\ \A c, d : PostSpot(c) = PostSpot(d) => c = d
BY DEF StoreSpot, DoneSpot, BatchSpot, HandSpot, QueueSpot, PostSpot

\* What each spot holds ...
LEMMA HeldAt ==
    /\ Held(StoreSpot) = ToReplay /\ Held(DoneSpot) = done
    /\ \A c, k : Held(BatchSpot(c, k)) = Captured(batch[c][k])
    /\ \A a : Held(HandSpot(a)) = ItemsOf(hand[a])
    /\ \A c : Held(QueueSpot(c)) = ItemsOf(queue[c]) /\ Held(PostSpot(c)) = ItemsOf(inFlight[c])
BY DEF Held, StoreSpot, DoneSpot, BatchSpot, HandSpot, QueueSpot, PostSpot

\* ... and what it holds after a step.
LEMMA HeldAfter ==
    /\ Held(StoreSpot)' = ToReplay' /\ Held(DoneSpot)' = done'
    /\ \A c, k : Held(BatchSpot(c, k))' = Captured(batch'[c][k])
    /\ \A a : Held(HandSpot(a))' = ItemsOf(hand'[a])
    /\ \A c : Held(QueueSpot(c))' = ItemsOf(queue'[c]) /\ Held(PostSpot(c))' = ItemsOf(inFlight'[c])
BY DEF Held, StoreSpot, DoneSpot, BatchSpot, HandSpot, QueueSpot, PostSpot

\* A step in which the items X go to the spot `to`, and the items Y are answered or dropped.
\* They come from the spots F, or are new.
Transfer(X, Y, F, to) ==
    /\ to \in Spots /\ F \subseteq Spots /\ items' \in Nat /\ items <= items'
    /\ X \cap Y = {} /\ X \cup Y \subseteq 1 .. items'
    /\ \A n \in X \cup Y : n > items \/ \E l \in F : n \in Held(l)
    /\ \A n \in items + 1 .. items' : n \in X \cup Y
    /\ \A l \in Spots : \A n \in Held(l) : n \in Held(l)' \/ n \in X \cup Y
    /\ \A l \in Spots : \A n \in Held(l)' :
          \/ n \in Held(l) /\ (l \in F => n \notin X \cup Y)
          \/ l = to /\ n \in X
          \/ l = DoneSpot /\ n \in Y
    /\ X \subseteq Held(to)' /\ Y \subseteq done'

\* A transfer neither loses nor doubles an item.
LEMMA TransferHolds ==
    ASSUME TelemetryInv, NEW X, NEW Y, NEW F, NEW to, Transfer(X, Y, F, to)
    PROVE  HeldOnce'
<1>1. HeldOnce /\ items \in Nat
  BY DEF TelemetryInv, Types
<1>2. /\ to \in Spots /\ F \subseteq Spots /\ items' \in Nat /\ items <= items' /\ X \cap Y = {}
      /\ \A n \in X \cup Y : n \in 1 .. items' /\ (n > items \/ \E l \in F : n \in Held(l))
      /\ \A n \in items + 1 .. items' : n \in X \cup Y
      /\ X \subseteq Held(to)' /\ Y \subseteq done'
  BY DEF Transfer
<1>3. /\ \A l \in Spots : \A n \in Held(l) : n \in Held(l)' \/ n \in X \cup Y
      /\ \A l \in Spots : \A n \in Held(l)' :
            \/ n \in Held(l) /\ (l \in F => n \notin X \cup Y)
            \/ l = to /\ n \in X
            \/ l = DoneSpot /\ n \in Y
  BY DEF Transfer
<1>4. /\ \A n \in 1 .. items : \E l \in Spots : n \in Held(l)
      /\ \A l \in Spots : \A n \in Held(l) :
            n \in 1 .. items /\ \A m \in Spots : n \in Held(m) => m = l
  BY <1>1 DEF HeldOnce
<1>5. ASSUME NEW n \in X \cup Y, NEW l \in Spots, n \in Held(l) PROVE l \in F
  <2>1. n \in 1 .. items
    BY <1>4, <1>5
  <2>2. PICK m \in F : n \in Held(m)
    BY <1>1, <1>2, <2>1
  <2>3. QED
    BY <1>2, <1>4, <1>5, <2>2
<1>6. ASSUME NEW n \in 1 .. items' PROVE \E l \in Spots : n \in Held(l)'
  <2>1. CASE n \in X
    BY <1>2, <2>1
  <2>2. CASE n \in Y
    <3>1. n \in Held(DoneSpot)' /\ DoneSpot \in Spots
      BY <1>2, <2>2, HeldAfter, SpotsAre
    <3>2. QED
      BY <3>1
  <2>3. CASE n \notin X \cup Y
    <3>1. n \in 1 .. items
      BY <1>1, <1>2, <2>3
    <3>2. PICK l \in Spots : n \in Held(l)
      BY <1>4, <3>1
    <3>3. QED
      BY <1>3, <2>3, <3>2
  <2>4. QED
    BY <2>1, <2>2, <2>3
<1>7. ASSUME NEW l \in Spots, NEW n, n \in Held(l)'
      PROVE  \/ n \in Held(l) /\ n \notin X \cup Y
             \/ l = to /\ n \in X
             \/ l = DoneSpot /\ n \in Y
  BY <1>3, <1>5, <1>7
<1>8. ASSUME NEW l \in Spots, NEW n, n \in Held(l)'
      PROVE  n \in 1 .. items' /\ \A m \in Spots : n \in Held(m)' => m = l
  <2>1. n \in 1 .. items'
    BY <1>1, <1>2, <1>4, <1>7, <1>8
  <2>2. ASSUME NEW m \in Spots, n \in Held(m)' PROVE m = l
    BY <1>2, <1>4, <1>7, <1>8, <2>2
  <2>3. QED
    BY <2>1, <2>2
<1>9. QED
  BY <1>6, <1>8 DEF HeldOnce

\* A flush still finds what it owes when what it has to see sent moves on within reach.
LEMMA TransferOwed ==
    ASSUME TelemetryInv, NEW X, NEW Y, NEW F, NEW to, Transfer(X, Y, F, to),
           NEW t \in Threads, pc[t] = "draining", op[t] = "flush", owed'[t] = owed[t],
           \A l \in Spots : Due(l, t) => Due(l, t)' \/ Held(l) \subseteq X \cup Y \/ Held(l) = {},
           X = {} \/ Due(to, t)' \/ \A l \in F : ~ Due(l, t)
    PROVE  \A n \in owed'[t] : \E l \in Spots : Due(l, t)' /\ n \in Held(l)'
<1>1. SUFFICES ASSUME NEW n \in owed[t] PROVE \E l \in Spots : Due(l, t)' /\ n \in Held(l)'
  OBVIOUS
<1>2. HeldOnce /\ OwedInv /\ items \in Nat
  BY DEF TelemetryInv, Types
<1>3. PICK l \in Spots : Due(l, t) /\ n \in Held(l)
  BY <1>2 DEF OwedInv
<1>4. DoneSpot \in Spots /\ Due(DoneSpot, t)' /\ Held(DoneSpot)' = done'
  BY SpotsAre, HeldAfter DEF Due
<1>5. CASE n \in Y
  <2>1. n \in done'
    BY <1>5 DEF Transfer
  <2>2. QED
    BY <1>4, <2>1
<1>6. CASE n \in X
  <2>1. n \in 1 .. items
    BY <1>2, <1>3 DEF HeldOnce
  <2>2. PICK m \in F : n \in Held(m)
    BY <1>2, <1>6, <2>1 DEF Transfer
  <2>3. m = l /\ to \in Spots /\ n \in Held(to)'
    BY <1>2, <1>3, <1>6, <2>2 DEF HeldOnce, Transfer
  <2>4. QED
    BY <1>3, <1>6, <2>2, <2>3
<1>7. CASE n \notin X \cup Y
  <2>1. n \in Held(l)'
    BY <1>3, <1>7 DEF Transfer
  <2>2. QED
    BY <1>3, <1>7, <2>1
<1>8. QED
  BY <1>5, <1>6, <1>7

\* What is to be replayed stays behind what its client has, unless a newcomer joins that.
LEMMA TransferReplay ==
    ASSUME TelemetryInv, NEW X, NEW Y, NEW F, NEW to, Transfer(X, Y, F, to),
           NEW t \in Threads, pc[t] \in {"init", "replay"}, ToReplay' \subseteq ToReplay,
           NEW c, c = ref[t],
           \A l \in Spots : OfClient(l, c)' => OfClient(l, c) \/ Held(l) = {},
           \/ X = {} \/ ~ OfClient(to, c)'
           \/ items' = items /\ \A l \in F : OfClient(l, c) \/ Held(l) = {}
    PROVE  \A n \in ToReplay' : \A l \in Spots : OfClient(l, c)' => \A m \in Held(l)' : m < n
<1>1. SUFFICES ASSUME NEW n \in ToReplay', NEW l \in Spots, OfClient(l, c)', NEW m \in Held(l)'
               PROVE  m < n
  OBVIOUS
<1>2. HeldOnce /\ ReplayOrder /\ items \in Nat
  BY DEF TelemetryInv, Types
<1>3. ASSUME NEW u \in Spots, OfClient(u, c) \/ Held(u) = {}, m \in Held(u) PROVE m < n
  BY <1>2, <1>3 DEF ReplayOrder
<1>4. l # DoneSpot
  BY <1>1, SpotsApart DEF OfClient
<1>5. CASE m \in Held(l)
  BY <1>1, <1>3, <1>5
<1>6. CASE l = to /\ m \in X
  <2>1. items' = items /\ \A u \in F : OfClient(u, c) \/ Held(u) = {}
    BY <1>1, <1>6
  <2>2. m \in 1 .. items /\ F \subseteq Spots
    BY <1>6, <2>1 DEF Transfer
  <2>3. PICK u \in F : m \in Held(u)
    BY <1>2, <1>6, <2>2 DEF Transfer
  <2>4. QED
    BY <1>3, <2>1, <2>2, <2>3
<1>7. QED
  BY <1>4, <1>5, <1>6 DEF Transfer

\* What a spot holds that a step does not touch.
LEMMA Untouched ==
    ASSUME NEW S,
           StoreSpot \in S \/ ToReplay' = ToReplay,
           \A c \in Clients, k \in Kinds : BatchSpot(c, k) \in S \/ batch'[c][k] = batch[c][k],
           \A a \in Actors : HandSpot(a) \in S \/ hand'[a] = hand[a],
           \A c \in Clients : QueueSpot(c) \in S \/ queue'[c] = queue[c],
           \A c \in Clients : PostSpot(c) \in S \/ inFlight'[c] = inFlight[c]
    PROVE  \A l \in Spots : l \in S \/ l = DoneSpot \/ Held(l)' = Held(l)
<1>1. SUFFICES ASSUME NEW l \in Spots, l \notin S, l # DoneSpot PROVE Held(l)' = Held(l)
  OBVIOUS
<1>2. CASE l = StoreSpot
  BY <1>1, <1>2, HeldAt, HeldAfter
<1>3. ASSUME NEW c \in Clients, NEW k \in Kinds, l = BatchSpot(c, k) PROVE Held(l)' = Held(l)
  BY <1>1, <1>3, HeldAt, HeldAfter
<1>4. ASSUME NEW a \in Actors, l = HandSpot(a) PROVE Held(l)' = Held(l)
  BY <1>1, <1>4, HeldAt, HeldAfter
<1>5. ASSUME NEW c \in Clients, l = QueueSpot(c) \/ l = PostSpot(c) PROVE Held(l)' = Held(l)
  BY <1>1, <1>5, HeldAt, HeldAfter
<1>6. QED
  BY <1>1, <1>2, <1>3, <1>4, <1>5, SpotsAre

\* What makes a step a transfer.
LEMMA Moves ==
    ASSUME TelemetryInv, NEW X, NEW Y, NEW F, NEW to,
           to \in Spots \ {DoneSpot}, F \subseteq Spots \ {DoneSpot},
           items' \in Nat, items <= items', X \cap Y = {}, done' = done \cup Y,
           \A n \in X \cup Y : n \in items + 1 .. items' \/ \E l \in F : n \in Held(l),
           \A n \in items + 1 .. items' : n \in X \cup Y,
           \A l \in F : l = to \/ Held(l)' = Held(l) \ (X \cup Y),
           Held(to)' = (Held(to) \ Y) \cup X,
           \A l \in Spots : l \in F \cup {to} \/ l = DoneSpot \/ Held(l)' = Held(l)
    PROVE  Transfer(X, Y, F, to)
<1>1. HeldOnce /\ items \in Nat
  BY DEF TelemetryInv, Types
<1>2. /\ to \in Spots /\ F \subseteq Spots /\ items' \in Nat /\ items <= items' /\ X \cap Y = {}
      /\ \A n \in items + 1 .. items' : n \in X \cup Y
      /\ X \subseteq Held(to)' /\ Y \subseteq done'
  OBVIOUS
<1>3. \A n \in X \cup Y : n \in 1 .. items' /\ (n > items \/ \E l \in F : n \in Held(l))
  <2>1. SUFFICES ASSUME NEW n \in X \cup Y
                 PROVE  n \in 1 .. items' /\ (n > items \/ \E l \in F : n \in Held(l))
    OBVIOUS
  <2>2. CASE n \in items + 1 .. items'
    BY <1>1, <2>2
  <2>3. CASE \E l \in F : n \in Held(l)
    <3>1. n \in 1 .. items
      BY <1>1, <1>2, <2>3 DEF HeldOnce
    <3>2. n \in 1 .. items'
      BY <1>1, <3>1
    <3>3. QED
      BY <2>3, <3>2
  <2>4. QED
    BY <2>2, <2>3
<1>4. Held(DoneSpot)' = Held(DoneSpot) \cup Y
  BY HeldAt, HeldAfter
<1>5. ASSUME NEW l \in Spots
      PROVE  /\ \A n \in Held(l) : n \in Held(l)' \/ n \in X \cup Y
             /\ \A n \in Held(l)' : \/ n \in Held(l) /\ (l \in F => n \notin X \cup Y)
                                    \/ l = to /\ n \in X
                                    \/ l = DoneSpot /\ n \in Y
  <2>1. CASE l = DoneSpot
    BY <1>4, <2>1
  <2>2. CASE l = to
    BY <2>2
  <2>3. CASE l \in F /\ l # to
    BY <2>3
  <2>4. CASE l \notin F \cup {to} /\ l # DoneSpot
    BY <2>4
  <2>5. QED
    BY <2>1, <2>2, <2>3, <2>4
<1>6. QED
  BY <1>2, <1>3, <1>5 DEF Transfer

\* A step that moves no item.
LEMMA Quiet ==
    ASSUME TelemetryInv, UNCHANGED <<batch, hand, queue, inFlight, done, items>>, ToReplay' = ToReplay
    PROVE  Transfer({}, {}, {}, StoreSpot)
<1>1. items \in Nat
  BY DEF TelemetryInv, Types
<1>2. \A l \in Spots : l = DoneSpot \/ Held(l)' = Held(l)
  <2> DEFINE S == {}
  <2> HIDE DEF S
  <2>1. \A l \in Spots : l \in S \/ l = DoneSpot \/ Held(l)' = Held(l)
    BY Untouched
  <2>2. QED
    BY <2>1 DEF S
<1>3. Held(StoreSpot)' = (Held(StoreSpot) \ {}) \cup {}
  BY HeldAt, HeldAfter
<1>4. \A n \in items + 1 .. items' : FALSE
  BY <1>1
<1>5. QED
  BY <1>1, <1>2, <1>3, <1>4, SpotsAre, SpotsApart, Moves

\* What a batch holds, and what Batch::add makes of it.
LEMMA AddHolds ==
    ASSUME TelemetryInv, NEW c \in Clients, NEW k \in Kinds, NEW n \in Item, Add(c, k, n)
    PROVE  /\ Held(BatchSpot(c, k))' =
                 (Held(BatchSpot(c, k)) \ (Displaced(batch[c][k]) \ {Rtt})) \cup ({n} \ {Rtt})
           /\ Displaced(batch[c][k]) \ {Rtt} \subseteq Held(BatchSpot(c, k))
           /\ \A d \in Clients, j \in Kinds :
                 BatchSpot(d, j) \in {BatchSpot(c, k)} \/ batch'[d][j] = batch[d][j]
<1>1. batch[c][k] \in Seq(Item) /\ InOrder(batch[c][k])
  BY DEF TelemetryInv, Types, CaptureOrder, Item
<1>2. \A d \in Clients : \A j \in Kinds :
         batch'[d][j] = IF d = c /\ j = k THEN Added(batch[c][k], n) ELSE batch[d][j]
  BY AddFrame
<1>3. Captured(Added(batch[c][k], n)) =
         (Captured(batch[c][k]) \ Displaced(batch[c][k])) \cup ({n} \ {Rtt})
  BY <1>1, AddedItems
<1>4. Displaced(batch[c][k]) \ {Rtt} \subseteq Captured(batch[c][k])
  BY <1>1, AddedTyped
<1>5. Rtt \notin Captured(batch[c][k])
  BY DEF Captured
<1>6. /\ Held(BatchSpot(c, k))' = Captured(batch'[c][k])
      /\ Held(BatchSpot(c, k)) = Captured(batch[c][k])
  BY HeldAt, HeldAfter
<1>7. batch'[c][k] = Added(batch[c][k], n)
  BY <1>2
<1>8. QED
  BY <1>2, <1>3, <1>4, <1>5, <1>6, <1>7

\* An item that is held has a number.
LEMMA Numbered ==
    ASSUME TelemetryInv
    PROVE  /\ items \in Nat /\ \A l \in Spots : items + 1 \notin Held(l)
           /\ \A l \in Spots : Held(l) \subseteq 1 .. items
           /\ \A l, m \in Spots : l # m => Held(l) \cap Held(m) = {}
<1>1. items \in Nat /\ HeldOnce
  BY DEF TelemetryInv, Types
<1>2. \A l \in Spots : \A n \in Held(l) :
         n \in 1 .. items /\ \A m \in Spots : n \in Held(m) => m = l
  BY <1>1 DEF HeldOnce
<1>3. items + 1 \notin 1 .. items
  BY <1>1
<1>4. QED
  BY <1>1, <1>2, <1>3

-----------------------------------------------------------------------------
(* Each action as a transfer *)

\* What is to be replayed changes only with the store.
LEMMA ReplaySame ==
    ASSUME store'.tracks = store.tracks, replayed' = replayed
    PROVE  ToReplay' = ToReplay
BY DEF ToReplay

\* A call without a client goes to the store, or is dropped at its limit.
LEMMA BufferMoves ==
    ASSUME TelemetryInv, NEW t \in Threads, Buffer(t)
    PROVE  \E X, Y : Transfer(X, Y, {}, StoreSpot)
<1>1. /\ store \in [ tracks : Seq([ n : Items, kind : Kinds ]),
                     consent : {"unset", "grant", "refuse"}, start : BOOLEAN ]
      /\ replayed \in 0 .. Len(store.tracks) /\ items \in Nat
      /\ op[t] \in Tracks \cup Settings
  <2>1. ThreadShape /\ Types /\ pc[t] = "missed"
    BY DEF TelemetryInv, Buffer
  <2>2. op[t] \in Tracks \cup Settings
    BY <2>1 DEF ThreadShape, OpsAt
  <2>3. QED
    BY <2>1, <2>2 DEF Types
<1>2. /\ UNCHANGED <<batch, hand, queue, inFlight, replayed>>
      /\ store' = Buffered(store, op[t], items + 1)
  BY DEF Buffer, batchVars, workerVars
<1>3. CASE op[t] \notin Tracks
  <2>1. store'.tracks = store.tracks
    BY <1>1, <1>2, <1>3, BufferedCases
  <2>2. UNCHANGED <<items, done>>
    BY <1>3 DEF Buffer
  <2>3. Transfer({}, {}, {}, StoreSpot)
    BY <1>2, <2>1, <2>2, ReplaySame, Quiet
  <2>4. QED
    BY <2>3
<1>4. CASE op[t] \in Tracks
  <2>1. /\ items' = items + 1
        /\ done' = IF store' = store THEN done \cup {items + 1} ELSE done
    BY <1>4 DEF Buffer
  <2>2. \A n : n \in items + 1 .. items' <=> n = items + 1
    BY <1>1, <2>1
  <2>3. \A l \in Spots : l \in {} \cup {StoreSpot} \/ l = DoneSpot \/ Held(l)' = Held(l)
    <3> DEFINE S == {StoreSpot}
    <3> HIDE DEF S
    <3>1. \A l \in Spots : l \in S \/ l = DoneSpot \/ Held(l)' = Held(l)
      BY <1>2, Untouched DEF S
    <3>2. QED
      BY <3>1 DEF S
  <2>4. items + 1 \notin ToReplay
    BY Numbered, SpotsAre, HeldAt
  <2>5. CASE ~ Len(store.tracks) < MaxTracks
    <3>1. store' = store
      BY <1>1, <1>2, <1>4, <2>5, BufferedCases
    <3>2. Held(StoreSpot)' = (Held(StoreSpot) \ {items + 1}) \cup {}
      BY <1>2, <2>4, <3>1, HeldAt, HeldAfter, ReplaySame
    <3>3. done' = done \cup {items + 1}
      BY <2>1, <3>1
    <3>4. Transfer({}, {items + 1}, {}, StoreSpot)
      BY <1>1, <2>1, <2>2, <2>3, <3>2, <3>3, SpotsAre, SpotsApart, Moves
    <3>5. QED
      BY <3>4
  <2>6. CASE Len(store.tracks) < MaxTracks
    <3> DEFINE r == store.tracks
               x == [n |-> items + 1, kind |-> op[t]]
    <3>1. store' = [store EXCEPT !.tracks = Append(r, x)]
      BY <1>1, <1>2, <1>4, <2>6, BufferedCases
    <3>2. store'.tracks = Append(r, x) /\ r \in Seq([ n : Items, kind : Kinds ])
      BY <1>1, <3>1
    <3>3. x \in [ n : Items, kind : Kinds ] /\ x.n = items + 1
      BY <1>4, NextNumber DEF Tracks
    <3> HIDE DEF r, x
    <3>4. /\ Len(Append(r, x)) = Len(r) + 1 /\ Len(r) \in Nat
          /\ \A j \in 1 .. Len(r) : Append(r, x)[j] = r[j]
          /\ Append(r, x)[Len(r) + 1] = x
      BY <3>2, <3>3, AppendProperties, LenProperties
    <3>5. store' # store /\ replayed' = replayed /\ replayed \in 0 .. Len(r)
      BY <1>1, <1>2, <3>2, <3>4 DEF r
    <3>6. /\ ToReplay = {r[j].n : j \in (replayed + 1) .. Len(r)}
          /\ ToReplay' = {Append(r, x)[j].n : j \in (replayed + 1) .. Len(r) + 1}
      BY <3>2, <3>4, <3>5 DEF ToReplay, r
    <3>7. \A j : j \in (replayed + 1) .. Len(r) + 1 <=>
                    j \in (replayed + 1) .. Len(r) \/ j = Len(r) + 1
      BY <3>4, <3>5
    <3>8. \A j \in (replayed + 1) .. Len(r) : j \in 1 .. Len(r)
      BY <3>4, <3>5
    <3>9. ToReplay' = ToReplay \cup {items + 1}
      BY <3>3, <3>4, <3>6, <3>7, <3>8
    <3>10. Held(StoreSpot)' = (Held(StoreSpot) \ {}) \cup {items + 1} /\ done' = done \cup {}
      BY <2>1, <3>5, <3>9, HeldAt, HeldAfter
    <3>11. Transfer({items + 1}, {}, {}, StoreSpot)
      BY <1>1, <2>1, <2>2, <2>3, <3>10, SpotsAre, SpotsApart, Moves
    <3>12. QED
      BY <3>11
  <2>7. QED
    BY <2>5, <2>6
<1>5. QED
  BY <1>3, <1>4

\* track_event and track_metric add to the batch.
LEMMA TrackMoves ==
    ASSUME TelemetryInv, NEW t \in Threads, TrackAdds(t),
           NEW c \in Clients, c = ref[t], NEW k \in Kinds, k = op[t]
    PROVE  Transfer({items + 1}, Displaced(batch[c][k]) \ {Rtt}, {BatchSpot(c, k)}, BatchSpot(c, k))
<1> DEFINE l0 == BatchSpot(c, k)
           Y == Displaced(batch[c][k]) \ {Rtt}
<1>1. items + 1 \in Item /\ items + 1 # Rtt
  <2>1. items + 1 \in 1 .. MaxCalls /\ items + 1 \in Items
    BY NextNumber DEF Tracks
  <2>2. QED
    BY <2>1, Numbers DEF Item
<1>2. /\ Add(c, k, items + 1) /\ items' = items + 1 /\ done' = done \cup Y
      /\ UNCHANGED <<hand, queue, inFlight, store, replayed>>
  BY DEF TrackAdds, apiVars, workerVars
<1>3. /\ Held(l0)' = (Held(l0) \ Y) \cup ({items + 1} \ {Rtt}) /\ Y \subseteq Held(l0)
      /\ \A d \in Clients, j \in Kinds : BatchSpot(d, j) \in {l0} \/ batch'[d][j] = batch[d][j]
  BY <1>1, <1>2, AddHolds
<1>4. l0 \in Spots \ {DoneSpot}
  BY <1>1, SpotsAre, SpotsApart
<1>5. items \in Nat /\ items + 1 \notin Y /\ \A n : n \in items + 1 .. items' <=> n = items + 1
  BY <1>2, <1>3, <1>4, Numbered
<1> HIDE DEF l0, Y
<1>6. \A l \in Spots : l \in {l0} \/ l = DoneSpot \/ Held(l)' = Held(l)
  <2> DEFINE S == {l0}
  <2>1. \A d \in Clients, j \in Kinds : BatchSpot(d, j) \in S \/ batch'[d][j] = batch[d][j]
    BY <1>3
  <2> HIDE DEF S
  <2>2. \A l \in Spots : l \in S \/ l = DoneSpot \/ Held(l)' = Held(l)
    BY <1>2, <2>1, ReplaySame, Untouched
  <2>3. QED
    BY <2>2 DEF S
<1>7. Transfer({items + 1}, Y, {l0}, l0)
  <2> DEFINE X == {items + 1}
             F == {l0}
  <2>1. /\ F \subseteq Spots \ {DoneSpot} /\ items' \in Nat /\ items <= items' /\ X \cap Y = {}
        /\ \A n \in X \cup Y : n \in items + 1 .. items' \/ \E l \in F : n \in Held(l)
        /\ \A n \in items + 1 .. items' : n \in X \cup Y
    BY <1>2, <1>3, <1>4, <1>5
  <2>2. /\ \A l \in F : l = l0
        /\ Held(l0)' = (Held(l0) \ Y) \cup X
        /\ \A l \in Spots : l \in F \cup {l0} \/ l = DoneSpot \/ Held(l)' = Held(l)
    BY <1>1, <1>3, <1>6
  <2> HIDE DEF X, F
  <2>3. Transfer(X, Y, F, l0)
    BY <1>2, <1>4, <2>1, <2>2, Moves
  <2>4. QED
    BY <2>3 DEF X, F
<1>8. QED
  BY <1>1, <1>7 DEF l0, Y

\* A buffered track is replayed: the oldest of those that are left.
LEMMA ReplayTaken ==
    ASSUME TelemetryInv, replayed < Len(store.tracks), UNCHANGED store, replayed' = replayed + 1
    PROVE  /\ NextTrack.n \in ToReplay /\ NextTrack.n \in Items /\ NextTrack.kind \in Kinds
           /\ ToReplay' = ToReplay \ {NextTrack.n}
           /\ \A m \in ToReplay' : NextTrack.n < m
<1> DEFINE r == store.tracks
           i == replayed + 1
<1>1. r \in Seq([ n : Items, kind : Kinds ]) /\ replayed \in 0 .. Len(r) /\ StoreOrder
  BY DEF TelemetryInv, Types
<1>2. Len(r) \in Nat /\ DOMAIN r = 1 .. Len(r) /\ i \in 1 .. Len(r) /\ i \in Nat
  BY <1>1, LenProperties
<1>3. NextTrack = r[i] /\ r[i] \in [ n : Items, kind : Kinds ]
  BY <1>1, <1>2, ElementOfSeq DEF NextTrack
<1>4. /\ ToReplay = {r[j].n : j \in i .. Len(r)}
      /\ ToReplay' = {r[j].n : j \in i + 1 .. Len(r)}
  BY DEF ToReplay
<1>5. \A j \in i + 1 .. Len(r) : j \in 1 .. Len(r) /\ i < j
  BY <1>2
<1>6. \A j \in i + 1 .. Len(r) : r[i].n < r[j].n
  BY <1>1, <1>2, <1>5 DEF StoreOrder
<1>7. \A j : j \in i .. Len(r) <=> j = i \/ j \in i + 1 .. Len(r)
  BY <1>2
<1>8. \A j \in 1 .. Len(r) : r[j].n \in Items
  <2>1. \A j \in 1 .. Len(r) : r[j] \in [ n : Items, kind : Kinds ]
    BY <1>1, ElementOfSeq
  <2>2. QED
    BY <2>1
<1>9. \A j \in i + 1 .. Len(r) : r[j].n # r[i].n
  <2>1. \A a, b \in Items : a < b => a # b
    BY Numbers DEF Items
  <2>2. QED
    BY <1>2, <1>5, <1>6, <1>8, <2>1
<1> HIDE DEF r, i
<1>10. QED
  BY <1>3, <1>4, <1>6, <1>7, <1>9

\* Each buffered track goes through track_event or track_metric.
LEMMA ReplayMoves ==
    ASSUME TelemetryInv, NEW t \in Threads, ReplayTrack(t), NEW c \in Clients, c = ref[t],
           NEW k \in Kinds, k = NextTrack.kind
    PROVE  \/ /\ Transfer({NextTrack.n}, Displaced(batch[c][k]) \ {Rtt},
                          {StoreSpot, BatchSpot(c, k)}, BatchSpot(c, k))
              /\ Add(c, k, NextTrack.n)
           \/ Transfer({}, {NextTrack.n}, {StoreSpot}, StoreSpot) /\ UNCHANGED batch
<1> DEFINE n0 == NextTrack.n
           l0 == BatchSpot(c, k)
           Y == Displaced(batch[c][k]) \ {Rtt}
<1>1. /\ n0 \in ToReplay /\ n0 \in Items /\ n0 \in Item /\ n0 # Rtt
      /\ ToReplay' = ToReplay \ {n0}
  <2>1. replayed < Len(store.tracks) /\ UNCHANGED store /\ replayed' = replayed + 1
    BY DEF ReplayTrack
  <2>2. QED
    BY <2>1, ReplayTaken, Numbers DEF Item, Items
<1>2. /\ UNCHANGED <<hand, queue, inFlight, items>> /\ items \in Nat
      /\ IF consent[c] THEN Add(c, k, n0) /\ done' = done \cup Y
                       ELSE done' = done \cup {n0} /\ UNCHANGED batch
  BY Numbered DEF ReplayTrack, drainVars, workerVars, batchVars
<1>3. /\ Held(StoreSpot)' = Held(StoreSpot) \ {n0} /\ n0 \in Held(StoreSpot)
      /\ StoreSpot \in Spots \ {DoneSpot} /\ l0 \in Spots \ {DoneSpot} /\ l0 # StoreSpot
  BY <1>1, HeldAt, HeldAfter, SpotsAre, SpotsApart
<1> HIDE DEF n0, Y
<1>4. CASE consent[c]
  <2> DEFINE X == {n0}
             F == {StoreSpot, l0}
  <2>1. /\ Held(l0)' = (Held(l0) \ Y) \cup ({n0} \ {Rtt}) /\ Y \subseteq Held(l0)
        /\ \A d \in Clients, j \in Kinds : BatchSpot(d, j) \in {l0} \/ batch'[d][j] = batch[d][j]
    BY <1>1, <1>2, <1>4, AddHolds DEF Y
  <2>2. n0 \notin Y /\ Held(StoreSpot) \cap Y = {}
    BY <1>3, <2>1, Numbered
  <2> HIDE DEF l0
  <2>3. \A l \in Spots : l \in F \cup {l0} \/ l = DoneSpot \/ Held(l)' = Held(l)
    <3>1. StoreSpot \in F /\ l0 \in F
      OBVIOUS
    <3>2. \A d \in Clients, j \in Kinds : BatchSpot(d, j) \in F \/ batch'[d][j] = batch[d][j]
      BY <2>1
    <3> HIDE DEF F
    <3>3. \A l \in Spots : l \in F \/ l = DoneSpot \/ Held(l)' = Held(l)
      BY <1>2, <3>1, <3>2, Untouched
    <3>4. QED
      BY <3>3
  <2>4. /\ F \subseteq Spots \ {DoneSpot} /\ items' \in Nat /\ items <= items' /\ X \cap Y = {}
        /\ \A n \in X \cup Y : n \in items + 1 .. items' \/ \E l \in F : n \in Held(l)
        /\ \A n \in items + 1 .. items' : n \in X \cup Y
    BY <1>2, <1>3, <2>1, <2>2
  <2>5. /\ \A l \in F : l = l0 \/ Held(l)' = Held(l) \ (X \cup Y)
        /\ Held(l0)' = (Held(l0) \ Y) \cup X
    BY <1>1, <1>3, <2>1, <2>2
  <2> HIDE DEF X, F
  <2>6. Transfer(X, Y, F, l0)
    BY <1>2, <1>3, <1>4, <2>3, <2>4, <2>5, Moves
  <2>7. QED
    BY <1>2, <1>4, <2>6 DEF X, F, Y, l0, n0
<1>5. CASE ~ consent[c]
  <2> DEFINE Z == {n0}
             F == {StoreSpot}
  <2>1. \A l \in Spots : l \in F \cup {StoreSpot} \/ l = DoneSpot \/ Held(l)' = Held(l)
    <3>1. StoreSpot \in F
      OBVIOUS
    <3> HIDE DEF F
    <3>2. \A l \in Spots : l \in F \/ l = DoneSpot \/ Held(l)' = Held(l)
      BY <1>2, <1>5, <3>1, Untouched
    <3>3. QED
      BY <3>2
  <2>2. /\ F \subseteq Spots \ {DoneSpot} /\ items' \in Nat /\ items <= items' /\ {} \cap Z = {}
        /\ \A n \in {} \cup Z : n \in items + 1 .. items' \/ \E l \in F : n \in Held(l)
        /\ \A n \in items + 1 .. items' : n \in {} \cup Z
        /\ \A l \in F : l = StoreSpot
        /\ Held(StoreSpot)' = (Held(StoreSpot) \ Z) \cup {}
    BY <1>2, <1>3
  <2>3. done' = done \cup Z
    BY <1>2, <1>5
  <2> HIDE DEF Z, F
  <2>4. Transfer({}, Z, F, StoreSpot)
    BY <1>3, <2>1, <2>2, <2>3, Moves
  <2>5. QED
    BY <1>2, <1>5, <2>4 DEF Z, F, n0
<1>6. QED
  BY <1>4, <1>5

\* A batch is cut into the hand of an actor, which is empty.
LEMMA CutMoves ==
    ASSUME TelemetryInv, NEW a \in Actors, NEW c \in Clients, NEW k \in Kinds, NEW force \in BOOLEAN,
           DrainBatch(a, c, k, force), UNCHANGED <<queue, inFlight, done, items, store, replayed>>
    PROVE  \E X : /\ Transfer(X, {}, {BatchSpot(c, k)}, HandSpot(a))
                  /\ force => Held(BatchSpot(c, k)) \subseteq X
<1> DEFINE l0 == BatchSpot(c, k)
           l1 == HandSpot(a)
           F == {l0}
<1>1. /\ batch \in [Clients -> [Kinds -> Seq(Item)]] /\ hand \in [Actors -> Seq(Envelope)]
      /\ items \in Nat
  BY DEF TelemetryInv, Types, Item
<1>2. /\ l0 \in Spots \ {DoneSpot} /\ l1 \in Spots \ {DoneSpot} /\ l0 # l1
      /\ Held(l0) = Captured(batch[c][k]) /\ Held(l0)' = Captured(batch'[c][k])
      /\ Held(l1)' = ItemsOf(hand'[a]) /\ Held(l1) = {}
  <2>1. hand[a] = <<>> /\ Held(l1) = ItemsOf(hand[a])
    BY HeldAt DEF DrainBatch
  <2>2. QED
    BY <2>1, HeldAt, HeldAfter, SpotsAre, SpotsApart, Lone
<1>3. Captured(<<>>) = {}
  BY DEF Captured
<1>4. CASE Ready(c, k, force)
  <2> DEFINE X == Captured(batch[c][k])
  <2>1. /\ hand' = [hand EXCEPT ![a] = Envelopes(k, batch[c][k])]
        /\ batch' = [batch EXCEPT ![c][k] = <<>>]
    BY <1>4 DEF DrainBatch
  <2>2. /\ batch'[c][k] = <<>>
        /\ \A d \in Clients, j \in Kinds : <<d, j>> = <<c, k>> \/ batch'[d][j] = batch[d][j]
        /\ \A b \in Actors : b = a \/ hand'[b] = hand[b]
        /\ hand'[a] = Envelopes(k, batch[c][k])
    BY <1>1, <2>1
  <2>3. Held(l1)' = X /\ Held(l0)' = {}
    BY <1>1, <1>2, <1>3, <2>2, CutItems
  <2> DEFINE S == {l0, l1}
  <2>4. /\ \A d \in Clients, j \in Kinds : BatchSpot(d, j) \in S \/ batch'[d][j] = batch[d][j]
        /\ \A b \in Actors : HandSpot(b) \in S \/ hand'[b] = hand[b]
    BY <2>2
  <2> HIDE DEF S, l0, l1, X
  <2>5. \A l \in Spots : l \in S \/ l = DoneSpot \/ Held(l)' = Held(l)
    BY <2>4, ReplaySame, Untouched
  <2>6. /\ F \subseteq Spots \ {DoneSpot} /\ items' \in Nat /\ items <= items' /\ X \cap {} = {}
        /\ done' = done \cup {}
        /\ \A n \in X \cup {} : n \in items + 1 .. items' \/ \E l \in F : n \in Held(l)
        /\ \A n \in items + 1 .. items' : n \in X \cup {}
    BY <1>1, <1>2 DEF X
  <2>7. /\ \A l \in F : l = l1 \/ Held(l)' = Held(l) \ (X \cup {})
        /\ Held(l1)' = (Held(l1) \ {}) \cup X
        /\ \A l \in Spots : l \in F \cup {l1} \/ l = DoneSpot \/ Held(l)' = Held(l)
    BY <1>2, <2>3, <2>5 DEF X, S
  <2> HIDE DEF F
  <2>8. Transfer(X, {}, F, l1)
    BY <1>2, <2>6, <2>7, Moves
  <2>9. Held(l0) \subseteq X
    BY <1>2 DEF X
  <2>10. QED
    BY <2>8, <2>9 DEF F, l0, l1
<1>5. CASE ~ Ready(c, k, force)
  <2>1. UNCHANGED <<hand, batch>>
    BY <1>5 DEF DrainBatch
  <2> DEFINE S == {}
  <2> HIDE DEF S
  <2>2. \A l \in Spots : l \in S \/ l = DoneSpot \/ Held(l)' = Held(l)
    BY <2>1, ReplaySame, Untouched
  <2>3. \A l \in Spots : l = DoneSpot \/ Held(l)' = Held(l)
    BY <2>2 DEF S
  <2> HIDE DEF l0, l1
  <2>4. /\ F \subseteq Spots \ {DoneSpot} /\ items' \in Nat /\ items <= items'
        /\ done' = done \cup {}
        /\ \A n \in items + 1 .. items' : FALSE
        /\ \A l \in F : l = l1 \/ Held(l)' = Held(l) \ ({} \cup {})
        /\ Held(l1)' = (Held(l1) \ {}) \cup {}
    BY <1>1, <1>2, <2>3
  <2> HIDE DEF F
  <2>5. Transfer({}, {}, F, l1)
    BY <1>2, <2>3, <2>4, Moves
  <2>6. force => Held(l0) \subseteq {}
    BY <1>2, <1>3, <1>5 DEF Ready
  <2>7. QED
    BY <2>5, <2>6 DEF F, l0, l1
<1>6. QED
  BY <1>4, <1>5

\* An envelope comes to a queue from the spot m.
LEMMA EnqueueHolds ==
    ASSUME TelemetryInv, NEW c \in Clients, NEW e \in Job, NEW m \in Spots, m # QueueSpot(c),
           Captured(e.items) \subseteq Held(m),
           queue' = [queue EXCEPT ![c] = Enqueued(queue[c], e)]
    PROVE  /\ Held(QueueSpot(c))' =
                 (Held(QueueSpot(c)) \ QueueDropped(queue[c])) \cup Captured(e.items)
           /\ QueueDropped(queue[c]) \subseteq Held(QueueSpot(c))
           /\ Held(m) \cap Held(QueueSpot(c)) = {}
           /\ \A d \in Clients : QueueSpot(d) \in {QueueSpot(c)} \/ queue'[d] = queue[d]
           /\ QueueApart'
<1>1. queue \in [Clients -> Seq(Job)] /\ QueueApart
  BY DEF TelemetryInv, Types
<1>2. /\ Held(QueueSpot(c)) = ItemsOf(queue[c]) /\ Held(QueueSpot(c))' = ItemsOf(queue'[c])
      /\ Held(m) \cap Held(QueueSpot(c)) = {}
  BY HeldAt, HeldAfter, Numbered, SpotsAre
<1>3. /\ queue[c] \in Seq(Job) /\ queue'[c] = Enqueued(queue[c], e)
      /\ \A d \in Clients : d = c \/ queue'[d] = queue[d]
  BY <1>1
<1>4. /\ ItemsOf(Enqueued(queue[c], e)) =
            (ItemsOf(queue[c]) \ QueueDropped(queue[c])) \cup Captured(e.items)
      /\ Apart(Enqueued(queue[c], e))
      /\ QueueDropped(queue[c]) \subseteq ItemsOf(queue[c])
  <2>1. Apart(queue[c]) /\ Captured(e.items) \cap ItemsOf(queue[c]) = {}
    BY <1>1, <1>2 DEF QueueApart
  <2>2. QED
    BY <1>3, <2>1, EnqueuedItems, EnqueuedTyped
<1>5. QueueApart'
  BY <1>1, <1>3, <1>4 DEF QueueApart
<1>6. QED
  BY <1>2, <1>3, <1>4, <1>5

\* An actor hands its first envelope to the queue.
LEMMA EnqueueMoves ==
    ASSUME TelemetryInv, NEW a \in Actors, NEW c \in Clients, EnqueueNext(a, c),
           UNCHANGED <<inFlight, items, store, replayed>>
    PROVE  /\ Transfer(Captured(hand[a][1].items), QueueDropped(queue[c]),
                       {HandSpot(a), QueueSpot(c)}, QueueSpot(c))
           /\ QueueApart'
<1> DEFINE e == hand[a][1]
           X == Captured(e.items)
           Y == QueueDropped(queue[c])
           l0 == HandSpot(a)
           l1 == QueueSpot(c)
           F == {l0, l1}
<1>1. hand \in [Actors -> Seq(Envelope)] /\ items \in Nat /\ CaptureOrder
  BY DEF TelemetryInv, Types
<1>2. /\ hand[a] \in Seq(Envelope) /\ hand[a] # <<>> /\ Sorted(hand[a])
      /\ queue' = [queue EXCEPT ![c] = Enqueued(queue[c], Head(hand[a]))]
      /\ done' = done \cup Y /\ hand'[a] = Tail(hand[a])
      /\ \A b \in Actors : b = a \/ hand'[b] = hand[b]
      /\ UNCHANGED batch
  BY <1>1 DEF EnqueueNext, batchVars, CaptureOrder, Sorted
<1>3. /\ Head(hand[a]) = e /\ e \in Envelope /\ X \subseteq ItemsOf(hand[a])
      /\ ItemsOf(Tail(hand[a])) = ItemsOf(hand[a]) \ X
  BY <1>2, HandTaken
<1>4. /\ l0 \in Spots \ {DoneSpot} /\ l1 \in Spots \ {DoneSpot} /\ l0 # l1
      /\ Held(l0) = ItemsOf(hand[a]) /\ Held(l0)' = Held(l0) \ X /\ X \subseteq Held(l0)
  BY <1>2, <1>3, HeldAt, HeldAfter, SpotsAre, SpotsApart
<1>5. /\ Held(l1)' = (Held(l1) \ Y) \cup X /\ Y \subseteq Held(l1) /\ Held(l0) \cap Held(l1) = {}
      /\ \A d \in Clients : QueueSpot(d) \in {l1} \/ queue'[d] = queue[d]
      /\ QueueApart'
  <2> HIDE DEF e, l0
  <2>1. queue' = [queue EXCEPT ![c] = Enqueued(queue[c], e)]
    BY <1>2, <1>3
  <2>2. QED
    BY <1>3, <1>4, <2>1, EnqueueHolds, ItemsTyped
<1>6. /\ \A d \in Clients : QueueSpot(d) \in F \/ queue'[d] = queue[d]
      /\ \A b \in Actors : HandSpot(b) \in F \/ hand'[b] = hand[b]
  BY <1>2, <1>5
<1> HIDE DEF e, X, Y, l0, l1
<1>7. /\ F \subseteq Spots \ {DoneSpot} /\ items' \in Nat /\ items <= items' /\ X \cap Y = {}
      /\ \A n \in X \cup Y : n \in items + 1 .. items' \/ \E l \in F : n \in Held(l)
      /\ \A n \in items + 1 .. items' : n \in X \cup Y
  BY <1>1, <1>4, <1>5
<1>8. \A l \in F : l = l1 \/ Held(l)' = Held(l) \ (X \cup Y)
  BY <1>4, <1>5
<1> HIDE DEF F
<1>9. \A l \in Spots : l \in F \/ l = DoneSpot \/ Held(l)' = Held(l)
  BY <1>2, <1>6, ReplaySame, Untouched
<1>10. Transfer(X, Y, F, l1)
  BY <1>2, <1>4, <1>5, <1>7, <1>8, <1>9, Moves
<1>11. QED
  BY <1>5, <1>10 DEF F, X, Y, l0, l1, e

\* The worker takes a job.
LEMMA TakeMoves ==
    ASSUME TelemetryInv, NEW c \in Clients, WorkerTakes(c)
    PROVE  /\ \E X : Transfer(X, {}, {QueueSpot(c)}, PostSpot(c))
           /\ QueueApart'
<1>1. /\ queue \in [Clients -> Seq(Job)] /\ inFlight \in [Clients -> Seq(Job)]
      /\ items \in Nat /\ QueueApart /\ inFlight[c] = <<>>
  BY DEF TelemetryInv, Types, ClientShape, WorkerTakes, MayGoOn
<1>2. PICK i \in DOMAIN queue[c] :
         /\ inFlight' = [inFlight EXCEPT ![c] = <<queue[c][i]>>]
         /\ queue' = [queue EXCEPT ![c] = RemoveAt(queue[c], i)]
  BY DEF WorkerTakes
<1>3. UNCHANGED <<batch, hand, done, items, store, replayed>>
  BY DEF WorkerTakes, apiVars, batchVars, drainVars, historyVars
<1> DEFINE X == Captured(queue[c][i].items)
           l0 == QueueSpot(c)
           l1 == PostSpot(c)
           F == {l0}
           S == {l0, l1}
<1>4. /\ queue[c] \in Seq(Job) /\ Apart(queue[c])
      /\ inFlight'[c] = <<queue[c][i]>> /\ queue'[c] = RemoveAt(queue[c], i)
      /\ \A d \in Clients : d = c \/ (queue'[d] = queue[d] /\ inFlight'[d] = inFlight[d])
  BY <1>1, <1>2 DEF QueueApart
<1>5. /\ Apart(RemoveAt(queue[c], i)) /\ X \subseteq ItemsOf(queue[c])
      /\ ItemsOf(RemoveAt(queue[c], i)) = ItemsOf(queue[c]) \ X
  BY <1>4, JobTaken
<1>6. QueueApart'
  BY <1>1, <1>4, <1>5 DEF QueueApart
<1>7. /\ l0 \in Spots \ {DoneSpot} /\ l1 \in Spots \ {DoneSpot} /\ l0 # l1
      /\ Held(l0) = ItemsOf(queue[c]) /\ Held(l0)' = Held(l0) \ X /\ X \subseteq Held(l0)
      /\ Held(l1) = {} /\ Held(l1)' = X
  BY <1>1, <1>4, <1>5, HeldAt, HeldAfter, SpotsAre, SpotsApart, Lone
<1>8. \A d \in Clients : /\ QueueSpot(d) \in S \/ queue'[d] = queue[d]
                         /\ PostSpot(d) \in S \/ inFlight'[d] = inFlight[d]
  BY <1>4
<1> HIDE DEF X, l0, l1, S
<1>9. \A l \in Spots : l \in S \/ l = DoneSpot \/ Held(l)' = Held(l)
  BY <1>3, <1>8, ReplaySame, Untouched
<1>10. /\ F \subseteq Spots \ {DoneSpot} /\ items' \in Nat /\ items <= items'
       /\ done' = done \cup {}
       /\ \A n \in X \cup {} : n \in items + 1 .. items' \/ \E l \in F : n \in Held(l)
       /\ \A n \in items + 1 .. items' : n \in X \cup {}
  BY <1>1, <1>3, <1>7
<1>11. /\ \A l \in F : l = l1 \/ Held(l)' = Held(l) \ (X \cup {})
       /\ Held(l1)' = (Held(l1) \ {}) \cup X
       /\ \A l \in Spots : l \in F \cup {l1} \/ l = DoneSpot \/ Held(l)' = Held(l)
  BY <1>7, <1>9 DEF S
<1> HIDE DEF F
<1>12. Transfer(X, {}, F, l1)
  BY <1>7, <1>10, <1>11, Moves
<1>13. QED
  BY <1>6, <1>12 DEF F, l0, l1

\* A post that fails for good.
LEMMA DropMoves ==
    ASSUME TelemetryInv, NEW c \in Clients, PostDropped(c)
    PROVE  \E Y : Transfer({}, Y, {PostSpot(c)}, PostSpot(c))
<1> DEFINE Y == ItemsOf(inFlight[c])
           l0 == PostSpot(c)
           F == {l0}
<1>1. inFlight \in [Clients -> Seq(Job)] /\ items \in Nat
  BY DEF TelemetryInv, Types
<1>2. /\ inFlight'[c] = <<>> /\ done' = done \cup Y
      /\ \A d \in Clients : d = c \/ inFlight'[d] = inFlight[d]
      /\ UNCHANGED <<batch, hand, queue, items, store, replayed>>
  BY <1>1 DEF PostDropped, Idle, apiVars, batchVars
<1>3. l0 \in Spots \ {DoneSpot} /\ Held(l0) = Y /\ Held(l0)' = {}
  BY <1>2, HeldAt, HeldAfter, SpotsAre, SpotsApart, Lone
<1>4. \A d \in Clients : PostSpot(d) \in F \/ inFlight'[d] = inFlight[d]
  BY <1>2
<1> HIDE DEF Y, l0
<1>5. /\ F \subseteq Spots \ {DoneSpot} /\ items' \in Nat /\ items <= items'
      /\ \A n \in {} \cup Y : n \in items + 1 .. items' \/ \E l \in F : n \in Held(l)
      /\ \A n \in items + 1 .. items' : n \in {} \cup Y
      /\ \A l \in F : l = l0
      /\ Held(l0)' = (Held(l0) \ Y) \cup {}
  BY <1>1, <1>2, <1>3
<1> HIDE DEF F
<1>6. \A l \in Spots : l \in F \/ l = DoneSpot \/ Held(l)' = Held(l)
  BY <1>2, <1>4, ReplaySame, Untouched
<1>7. Transfer({}, Y, F, l0)
  BY <1>2, <1>3, <1>5, <1>6, Moves
<1>8. QED
  BY <1>7 DEF F, l0

\* A post that fails for now.
LEMMA RetryMoves ==
    ASSUME TelemetryInv, NEW c \in Clients, PostRetried(c)
    PROVE  /\ \E X, Y : Transfer(X, Y, {PostSpot(c), QueueSpot(c)}, QueueSpot(c))
           /\ QueueApart'
<1> DEFINE e == inFlight[c][1]
           again == [e EXCEPT !.attempt = @ + 1]
           X == Captured(again.items)
           Y == QueueDropped(queue[c])
           l0 == PostSpot(c)
           l1 == QueueSpot(c)
           F == {l0, l1}
<1>1. inFlight \in [Clients -> Seq(Job)] /\ items \in Nat
  BY DEF TelemetryInv, Types
<1>2. /\ e \in Envelope /\ e.attempt + 1 < MaxAttempts /\ ItemsOf(inFlight[c]) = Captured(e.items)
  BY FlightTyped DEF PostRetried, Job
<1>3. again \in Envelope /\ again.items = e.items
  BY <1>2, RetriedTyped
<1>4. /\ queue' = [queue EXCEPT ![c] = Enqueued(queue[c], again)] /\ done' = done \cup Y
      /\ inFlight'[c] = <<>> /\ \A d \in Clients : d = c \/ inFlight'[d] = inFlight[d]
      /\ UNCHANGED <<batch, hand, items, store, replayed>>
  BY <1>1 DEF PostRetried, Idle, apiVars, batchVars
<1> HIDE DEF again, e
<1>5. /\ l0 \in Spots \ {DoneSpot} /\ l1 \in Spots \ {DoneSpot} /\ l0 # l1
      /\ Held(l0) = X /\ Held(l0)' = {}
  BY <1>2, <1>3, <1>4, HeldAt, HeldAfter, SpotsAre, SpotsApart, Lone
<1>6. /\ Held(l1)' = (Held(l1) \ Y) \cup X /\ Y \subseteq Held(l1) /\ Held(l0) \cap Held(l1) = {}
      /\ \A d \in Clients : QueueSpot(d) \in {l1} \/ queue'[d] = queue[d]
      /\ QueueApart'
  <2>1. /\ l0 \in Spots /\ l0 # QueueSpot(c) /\ again \in Job
        /\ Captured(again.items) \subseteq Held(l0)
        /\ queue' = [queue EXCEPT ![c] = Enqueued(queue[c], again)]
    BY <1>3, <1>4, <1>5, ItemsTyped, Zenon
  <2> HIDE DEF l0
  <2>2. QED
    BY <2>1, EnqueueHolds, Zenon
<1>7. \A d \in Clients : /\ PostSpot(d) \in F \/ inFlight'[d] = inFlight[d]
                         /\ QueueSpot(d) \in F \/ queue'[d] = queue[d]
  BY <1>4, <1>6
<1> HIDE DEF X, Y, l0, l1
<1>8. /\ F \subseteq Spots \ {DoneSpot} /\ items' \in Nat /\ items <= items' /\ X \cap Y = {}
      /\ \A n \in X \cup Y : n \in items + 1 .. items' \/ \E l \in F : n \in Held(l)
      /\ \A n \in items + 1 .. items' : n \in X \cup Y
      /\ \A l \in F : l = l1 \/ Held(l)' = Held(l) \ (X \cup Y)
  BY <1>1, <1>4, <1>5, <1>6
<1> HIDE DEF F
<1>9. \A l \in Spots : l \in F \/ l = DoneSpot \/ Held(l)' = Held(l)
  BY <1>4, <1>7, ReplaySame, Untouched
<1>10. Transfer(X, Y, F, l1)
  BY <1>4, <1>5, <1>6, <1>8, <1>9, Moves
<1>11. QED
  BY <1>6, <1>10 DEF F, l0, l1

\* A heartbeat comes to the queue: it holds no item, and the oldest job may go.
LEMMA BeatMoves ==
    ASSUME TelemetryInv, NEW c \in Clients, HeartbeatSent(c)
    PROVE  /\ \E Y : Transfer({}, Y, {QueueSpot(c)}, QueueSpot(c))
           /\ QueueApart'
<1> DEFINE Y == QueueDropped(queue[c])
           l0 == QueueSpot(c)
           F == {l0}
<1>1. items \in Nat /\ Beat \in Job /\ Captured(Beat.items) = {}
  BY ItemsTyped DEF TelemetryInv, Types
<1>2. /\ queue' = [queue EXCEPT ![c] = Enqueued(queue[c], Beat)] /\ done' = done \cup Y
      /\ UNCHANGED <<batch, hand, inFlight, items, store, replayed>>
  BY DEF HeartbeatSent, apiVars, batchVars, drainVars
<1>3. PostSpot(c) \in Spots /\ PostSpot(c) # l0 /\ l0 \in Spots \ {DoneSpot}
  BY SpotsAre, SpotsApart
<1>4. /\ Held(l0)' = (Held(l0) \ Y) \cup Captured(Beat.items) /\ Y \subseteq Held(l0)
      /\ \A d \in Clients : QueueSpot(d) \in {l0} \/ queue'[d] = queue[d]
      /\ QueueApart'
  <2> DEFINE m == PostSpot(c)
  <2>1. /\ m \in Spots /\ m # QueueSpot(c) /\ Beat \in Job
        /\ Captured(Beat.items) \subseteq Held(m)
        /\ queue' = [queue EXCEPT ![c] = Enqueued(queue[c], Beat)]
    BY <1>1, <1>2, <1>3
  <2> HIDE DEF m
  <2>2. QED
    BY <2>1, EnqueueHolds, Zenon
<1> HIDE DEF Y, l0
<1>5. /\ F \subseteq Spots \ {DoneSpot} /\ items' \in Nat /\ items <= items'
      /\ \A n \in {} \cup Y : n \in items + 1 .. items' \/ \E l \in F : n \in Held(l)
      /\ \A n \in items + 1 .. items' : n \in {} \cup Y
      /\ \A l \in F : l = l0
      /\ Held(l0)' = (Held(l0) \ Y) \cup {}
      /\ \A d \in Clients : QueueSpot(d) \in F \/ queue'[d] = queue[d]
  BY <1>1, <1>2, <1>3, <1>4
<1> HIDE DEF F
<1>6. \A l \in Spots : l \in F \/ l = DoneSpot \/ Held(l)' = Held(l)
  BY <1>2, <1>5, ReplaySame, Untouched
<1>7. Transfer({}, Y, F, l0)
  BY <1>2, <1>3, <1>5, <1>6, Moves
<1>8. QED
  BY <1>4, <1>7 DEF F, l0

\* What both batches of a client hold.
LEMMA BatchesHold ==
    ASSUME NEW f
    PROVE  \A n : n \in (UNION { Range(f[k]) : k \in Kinds }) \ {Rtt} <=>
                    \E k \in Kinds : n \in Captured(f[k])
<1>1. SUFFICES ASSUME NEW n
               PROVE  n \in (UNION { Range(f[k]) : k \in Kinds }) \ {Rtt} <=>
                        \E k \in Kinds : n \in Captured(f[k])
  OBVIOUS
<1>2. \A k \in Kinds : n \in Captured(f[k]) <=> n \in Range(f[k]) /\ n # Rtt
  BY DEF Captured, Range
<1> DEFINE S == { Range(f[k]) : k \in Kinds }
<1>3. \A x : x \in S <=> \E k \in Kinds : x = Range(f[k])
  OBVIOUS
<1> HIDE DEF S
<1>4. n \in UNION S <=> \E x \in S : n \in x
  OBVIOUS
<1>5. n \in (UNION S) \ {Rtt} <=> \E k \in Kinds : n \in Captured(f[k])
  BY <1>2, <1>3, <1>4
<1>6. QED
  BY <1>5 DEF S

\* A post that is answered, with its round-trip metric.
LEMMA DeliverMoves ==
    ASSUME TelemetryInv, NEW c \in Clients, PostDelivered(c)
    PROVE  \E Y : Transfer({}, Y, {PostSpot(c), BatchSpot(c, "metric")}, BatchSpot(c, "metric"))
<1> DEFINE e == inFlight[c][1]
           records == EmitsRtt(e) /\ consent[c]
           D == IF records THEN Displaced(batch[c]["metric"]) \ {Rtt} ELSE {}
           E == ItemsOf(<<e>>)
           Y == E \cup D
           l0 == PostSpot(c)
           l1 == BatchSpot(c, "metric")
           F == {l0, l1}
<1>1. inFlight \in [Clients -> Seq(Job)] /\ items \in Nat /\ "metric" \in Kinds /\ Rtt \in Item
  BY DEF TelemetryInv, Types, Kinds, Item
<1>2. /\ inFlight'[c] = <<>> /\ done' = (done \cup E) \cup D
      /\ \A d \in Clients : d = c \/ inFlight'[d] = inFlight[d]
      /\ IF records THEN Add(c, "metric", Rtt) ELSE UNCHANGED batch
      /\ UNCHANGED <<hand, queue, items, store, replayed>>
  BY <1>1 DEF PostDelivered, Idle, apiVars, batchVars
<1>3. ItemsOf(inFlight[c]) = E
  BY FlightTyped DEF PostDelivered
<1>4. /\ l0 \in Spots \ {DoneSpot} /\ l1 \in Spots \ {DoneSpot} /\ l0 # l1
      /\ Held(l0) = E /\ Held(l0)' = {}
  BY <1>1, <1>2, <1>3, HeldAt, HeldAfter, SpotsAre, SpotsApart, Lone
<1> HIDE DEF E
<1>5. /\ Held(l1)' = Held(l1) \ D /\ D \subseteq Held(l1)
      /\ \A d \in Clients, j \in Kinds : BatchSpot(d, j) \in {l1} \/ batch'[d][j] = batch[d][j]
  <2>1. CASE records
    <3>1. /\ Held(l1)' = (Held(l1) \ (Displaced(batch[c]["metric"]) \ {Rtt})) \cup ({Rtt} \ {Rtt})
          /\ Displaced(batch[c]["metric"]) \ {Rtt} \subseteq Held(l1)
          /\ \A d \in Clients, j \in Kinds :
                BatchSpot(d, j) \in {l1} \/ batch'[d][j] = batch[d][j]
      BY <1>1, <1>2, <2>1, AddHolds
    <3> HIDE DEF l1
    <3>2. QED
      BY <2>1, <3>1
  <2>2. CASE ~ records
    <3>1. UNCHANGED batch /\ D = {}
      BY <1>2, <2>2
    <3>2. QED
      BY <3>1, HeldAt, HeldAfter
  <2>3. QED
    BY <2>1, <2>2
<1>6. /\ \A d \in Clients : PostSpot(d) \in F \/ inFlight'[d] = inFlight[d]
      /\ \A d \in Clients, j \in Kinds : BatchSpot(d, j) \in F \/ batch'[d][j] = batch[d][j]
  BY <1>2, <1>5
<1>7. Held(l0) \cap Held(l1) = {}
  BY <1>4, Numbered
<1> HIDE DEF D, l0, l1
<1>8. done' = done \cup Y
  BY <1>2
<1>9. /\ F \subseteq Spots \ {DoneSpot} /\ items' \in Nat /\ items <= items'
      /\ \A n \in {} \cup Y : n \in items + 1 .. items' \/ \E l \in F : n \in Held(l)
      /\ \A n \in items + 1 .. items' : n \in {} \cup Y
      /\ \A l \in F : l = l1 \/ Held(l)' = Held(l) \ ({} \cup Y)
      /\ Held(l1)' = (Held(l1) \ Y) \cup {}
  BY <1>1, <1>2, <1>4, <1>5, <1>7
<1> HIDE DEF F, Y
<1>10. \A l \in Spots : l \in F \/ l = DoneSpot \/ Held(l)' = Held(l)
  BY <1>2, <1>6, ReplaySame, Untouched
<1>11. Transfer({}, Y, F, l1)
  BY <1>4, <1>8, <1>9, <1>10, Moves
<1>12. QED
  BY <1>11 DEF F, l0, l1

\* The destructor drops what its queue and its batches hold.
LEMMA JoinMoves ==
    ASSUME TelemetryInv, NEW t \in Threads, QuitJoins(t), NEW c \in Clients, c = ref[t]
    PROVE  /\ \E Y : Transfer({}, Y, {QueueSpot(c), BatchSpot(c, "event"), BatchSpot(c, "metric")},
                              QueueSpot(c))
           /\ QueueApart'
<1> DEFINE A == ItemsOf(queue[c])
           B == (UNION { Range(batch[c][k]) : k \in Kinds }) \ {Rtt}
           Y == A \cup B
           l0 == QueueSpot(c)
           l1 == BatchSpot(c, "event")
           l2 == BatchSpot(c, "metric")
           F == {l0, l1, l2}
<1>1. /\ queue \in [Clients -> Seq(Job)] /\ batch \in [Clients -> [Kinds -> Seq(Item)]]
      /\ items \in Nat /\ "event" \in Kinds /\ "metric" \in Kinds /\ QueueApart
      /\ \A k \in Kinds : k = "event" \/ k = "metric"
  <2>1. "event" \in Kinds /\ "metric" \in Kinds /\ \A k \in Kinds : k = "event" \/ k = "metric"
    BY DEF Kinds
  <2>2. Types /\ QueueApart
    BY DEF TelemetryInv
  <2>3. /\ queue \in [Clients -> Seq(Job)] /\ batch \in [Clients -> [Kinds -> Seq(Item)]]
        /\ items \in Nat
    BY <2>2 DEF Types, Item
  <2>4. QED
    BY <2>1, <2>2, <2>3
<1>2. /\ queue' = [queue EXCEPT ![c] = <<>>] /\ done' = (done \cup A) \cup B
      /\ batch' = [batch EXCEPT ![c] = [k \in Kinds |-> <<>>]]
      /\ UNCHANGED <<hand, inFlight, items, store, replayed>>
  BY DEF QuitJoins, apiVars, drainVars
<1>3. /\ queue'[c] = <<>> /\ \A k \in Kinds : batch'[c][k] = <<>>
      /\ \A d \in Clients : d = c \/ (queue'[d] = queue[d] /\ batch'[d] = batch[d])
  BY <1>1, <1>2
<1>4. /\ l0 \in Spots \ {DoneSpot} /\ l1 \in Spots \ {DoneSpot} /\ l2 \in Spots \ {DoneSpot}
      /\ Held(l0) = A /\ Held(l0)' = {}
      /\ Held(l1) = Captured(batch[c]["event"]) /\ Held(l1)' = {}
      /\ Held(l2) = Captured(batch[c]["metric"]) /\ Held(l2)' = {}
  <2>1. Captured(<<>>) = {}
    BY DEF Captured
  <2>2. l0 \in Spots \ {DoneSpot} /\ l1 \in Spots \ {DoneSpot} /\ l2 \in Spots \ {DoneSpot}
    BY <1>1, SpotsAre, SpotsApart
  <2>3. Held(l0) = A /\ Held(l0)' = {}
    BY <1>3, HeldAt, HeldAfter, Lone
  <2>4. ASSUME NEW k \in Kinds
        PROVE  /\ Held(BatchSpot(c, k)) = Captured(batch[c][k])
               /\ Held(BatchSpot(c, k))' = {}
    BY <1>3, <2>1, HeldAt, HeldAfter
  <2>5. QED
    BY <1>1, <2>2, <2>3, <2>4
<1>5. \A n : n \in B <=> n \in Held(l1) \/ n \in Held(l2)
  <2>1. \A n : n \in B <=> \E k \in Kinds : n \in Captured(batch[c][k])
    BY BatchesHold
  <2> HIDE DEF B
  <2>2. QED
    BY <1>1, <1>4, <2>1
<1>6. /\ \A d \in Clients : QueueSpot(d) \in F \/ queue'[d] = queue[d]
      /\ \A d \in Clients, j \in Kinds : BatchSpot(d, j) \in F \/ batch'[d][j] = batch[d][j]
  BY <1>1, <1>3
<1>7. QueueApart'
  <2>1. Apart(<<>>)
    BY DEF Apart
  <2>2. QED
    BY <1>1, <1>3, <2>1 DEF QueueApart
<1> HIDE DEF A, B, l0, l1, l2
<1>8. done' = done \cup Y
  BY <1>2
<1>9. /\ F \subseteq Spots \ {DoneSpot} /\ items' \in Nat /\ items <= items'
      /\ \A n \in {} \cup Y : n \in items + 1 .. items' \/ \E l \in F : n \in Held(l)
      /\ \A n \in items + 1 .. items' : n \in {} \cup Y
      /\ \A l \in F : l = l0 \/ Held(l)' = Held(l) \ ({} \cup Y)
      /\ Held(l0)' = (Held(l0) \ Y) \cup {}
  BY <1>1, <1>2, <1>4, <1>5
<1> HIDE DEF F, Y
<1>10. \A l \in Spots : l \in F \/ l = DoneSpot \/ Held(l)' = Held(l)
  BY <1>2, <1>6, ReplaySame, Untouched
<1>11. Transfer({}, Y, F, l0)
  BY <1>4, <1>8, <1>9, <1>10, Moves
<1>12. QED
  BY <1>7, <1>11 DEF F, l0, l1, l2

-----------------------------------------------------------------------------
(* What a step does to the threads, for the items *)

\* A step in which no item moves.
Still == UNCHANGED <<batch, hand, queue, inFlight, done, items>> /\ ToReplay' = ToReplay

\* The steps of a thread in which an item may move, those of a worker, and either.
ThreadMoves(t) == Buffer(t) \/ TrackAdds(t) \/ ThreadDrains(t) \/ ReplayTrack(t) \/ QuitJoins(t)
WorkerMoves(c) ==
    \/ WorkerDrains(c) \/ WorkerTakes(c) \/ PostDelivered(c) \/ PostDropped(c) \/ PostRetried(c)
    \/ HeartbeatSent(c)
Moving == (\E t \in Threads : ThreadMoves(t)) \/ (\E c \in Clients : WorkerMoves(c))

\* Every other step moves none.
LEMMA StillSteps ==
    ASSUME TelemetryInv, Next
    PROVE  Still \/ Moving
<1> USE DEF vars, apiVars, callVars, clientVars, batchVars, drainVars, workerVars,
            historyVars, flushVars
<1>1. CASE UNCHANGED vars
  <2>1. UNCHANGED <<batch, hand, queue, inFlight, done, items, store, replayed>>
    BY <1>1
  <2>2. QED
    BY <2>1, ReplaySame DEF Still
<1>2. ASSUME NEW t \in Threads, NEW o \in Tracks \cup Drains \cup Settings, Call(t, o)
      PROVE  Still \/ Moving
  <2>1. UNCHANGED <<batch, hand, queue, inFlight, done, items, store, replayed>>
    BY <1>2 DEF Call
  <2>2. QED
    BY <2>1, ReplaySame DEF Still
<1>3. ASSUME NEW t \in Threads, InitClient(t)
      PROVE  Still \/ Moving
  <2>1. UNCHANGED <<batch, hand, queue, inFlight, done, items, store>> /\ MutexFree /\ replayed' = 0
    BY <1>3 DEF InitClient
  <2>2. replayed' = replayed
    BY <2>1, ControlTypes DEF InitShape
  <2>3. QED
    BY <2>1, <2>2, ReplaySame DEF Still
<1>4. ASSUME NEW t \in Threads, Shutdown(t)
      PROVE  Still \/ Moving
  <2>1. UNCHANGED <<batch, hand, queue, inFlight, done, items, store, replayed>>
    BY <1>4 DEF Shutdown
  <2>2. QED
    BY <2>1, ReplaySame DEF Still
<1>5. ASSUME NEW t \in Threads,
             \/ Retake(t) \/ TrackPasses(t) \/ TrackIgnored(t) \/ Choose(t) \/ BeginDrain(t)
             \/ CrashIgnored(t) \/ FlushReturns(t) \/ CrashReturns(t) \/ ReplayConsent(t)
             \/ ReplayStart(t) \/ QuitStops(t)
      PROVE  Still \/ Moving
  <2>1. UNCHANGED <<batch, hand, queue, inFlight, done, items, store, replayed>>
    BY <1>5 DEF Retake, TrackPasses, TrackIgnored, Choose, BeginDrain, CrashIgnored, FlushReturns, CrashReturns, ReplayConsent, ReplayStart, QuitStops
  <2>2. QED
    BY <2>1, ReplaySame DEF Still
<1>6. ASSUME NEW t \in Threads, Publish(t)
      PROVE  Still \/ Moving
  <2>1. /\ UNCHANGED <<batch, hand, queue, inFlight, done, items>> /\ pc[t] = "publish"
        /\ store' = EmptyStore /\ replayed' = 0
    BY <1>6 DEF Publish, Cleared
  <2>2. replayed = Len(store.tracks)
    BY <2>1, ControlTypes DEF InitShape, Initing
  <2>3. Len(store.tracks) \in Nat
    <3>1. store.tracks \in Seq([ n : Items, kind : Kinds ])
      BY DEF TelemetryInv, Types
    <3>2. QED
      BY <3>1, LenProperties
  <2>4. \A j : j \notin (replayed + 1) .. Len(store.tracks)
    BY <2>2, <2>3
  <2>5. Len(<<>>) = 0 /\ store'.tracks = <<>>
    BY <2>1 DEF EmptyStore
  <2>6. \A j : j \notin (replayed' + 1) .. Len(store'.tracks)
    BY <2>1, <2>5
  <2>7. ToReplay = {} /\ ToReplay' = {}
    BY <2>4, <2>6 DEF ToReplay
  <2>8. QED
    BY <2>1, <2>7 DEF Still
<1>7. ASSUME NEW t \in Threads,
             \/ Buffer(t) \/ TrackAdds(t) \/ ThreadDrains(t) \/ ReplayTrack(t)
             \/ QuitJoins(t)
      PROVE  Still \/ Moving
  BY <1>7 DEF Moving, ThreadMoves
<1>8. ASSUME NEW c \in Clients,
             \/ WorkerDrained(c) \/ WorkerFlushesLog(c) \/ WorkerIdles(c) \/ WorkerExits(c)
      PROVE  Still \/ Moving
  <2>1. UNCHANGED <<batch, hand, queue, inFlight, done, items, store, replayed>>
    BY <1>8 DEF WorkerDrained, WorkerFlushesLog, WorkerIdles, WorkerExits
  <2>2. QED
    BY <2>1, ReplaySame DEF Still
<1>9. ASSUME NEW c \in Clients,
             \/ WorkerDrains(c) \/ WorkerTakes(c) \/ PostDelivered(c) \/ PostDropped(c)
             \/ PostRetried(c) \/ HeartbeatSent(c)
      PROVE  Still \/ Moving
  BY <1>9 DEF Moving, WorkerMoves
<1>10. ASSUME NEW c \in Clients, NEW k \in Kinds, Age(c, k)
       PROVE  Still \/ Moving
  <2>1. UNCHANGED <<batch, hand, queue, inFlight, done, items, store, replayed>>
    BY <1>10 DEF Age
  <2>2. QED
    BY <2>1, ReplaySame DEF Still
<1>11. QED
  BY <1>1, <1>2, <1>3, <1>4, <1>5, <1>6, <1>7, <1>8, <1>9, <1>10, NextCases

\* A thread that holds envelopes keeps its client.
LEMMA HandKept ==
    ASSUME TelemetryInv, Next
    PROVE  \A u \in Threads : ref'[u] = ref[u] \/ hand[u] = <<>>
<1> USE DEF vars, apiVars, callVars, clientVars, batchVars, drainVars, workerVars,
            historyVars, flushVars
<1>1. CASE UNCHANGED vars
  BY <1>1
<1>2. ASSUME NEW t \in Threads, NEW o \in Tracks \cup Drains \cup Settings, Call(t, o)
      PROVE  \A u \in Threads : ref'[u] = ref[u] \/ hand[u] = <<>>
  <2>1. hand[t] = <<>>
    BY <1>2, ControlTypes DEF Call, ThreadShape
  <2>2. \A u \in Threads \ {t} : ref'[u] = ref[u]
    BY <1>2, ControlTypes DEF Call
  <2>3. QED
    BY <2>1, <2>2
<1>3. ASSUME NEW t \in Threads, InitClient(t)
      PROVE  \A u \in Threads : ref'[u] = ref[u] \/ hand[u] = <<>>
  <2>1. hand[t] = <<>>
    BY <1>3, ControlTypes DEF InitClient, ThreadShape
  <2>2. PICK c \in Clients : ref' = [ref EXCEPT ![t] = c]
    BY <1>3 DEF InitClient
  <2>3. QED
    BY <2>1, <2>2
<1>4. ASSUME NEW t \in Threads,
             \/ Shutdown(t) \/ Retake(t) \/ Publish(t) \/ QuitJoins(t)
      PROVE  \A u \in Threads : ref'[u] = ref[u] \/ hand[u] = <<>>
  <2>1. hand[t] = <<>>
    BY <1>4, ControlTypes DEF Shutdown, Retake, Publish, QuitJoins, ThreadShape
  <2>2. \A u \in Threads \ {t} : ref'[u] = ref[u]
    BY <1>4, ControlTypes DEF Shutdown, Retake, Publish, QuitJoins
  <2>3. QED
    BY <2>1, <2>2
<1>5. ASSUME NEW t \in Threads,
             \/ TrackIgnored(t) \/ TrackAdds(t) \/ Choose(t) \/ CrashIgnored(t)
             \/ FlushReturns(t) \/ CrashReturns(t) \/ Buffer(t)
      PROVE  \A u \in Threads : ref'[u] = ref[u] \/ hand[u] = <<>>
  <2>1. hand[t] = <<>>
    BY <1>5, ControlTypes DEF TrackIgnored, TrackAdds, Choose, CrashIgnored, FlushReturns, CrashReturns, Buffer, Drained, ThreadShape
  <2>2. \A u \in Threads \ {t} : ref'[u] = ref[u]
    BY <1>5, ControlTypes DEF TrackIgnored, TrackAdds, Choose, CrashIgnored, FlushReturns, CrashReturns, Buffer, Return
  <2>3. QED
    BY <2>1, <2>2
<1>6. ASSUME NEW t \in Threads,
             \/ TrackPasses(t) \/ BeginDrain(t) \/ ThreadDrains(t) \/ ReplayConsent(t)
             \/ ReplayTrack(t) \/ ReplayStart(t) \/ QuitStops(t)
      PROVE  \A u \in Threads : ref'[u] = ref[u] \/ hand[u] = <<>>
  <2>1. UNCHANGED ref
    BY <1>6 DEF TrackPasses, BeginDrain, ThreadDrains, ReplayConsent, ReplayTrack, ReplayStart, QuitStops
  <2>2. QED
    BY <2>1
<1>7. ASSUME NEW c \in Clients,
             \/ WorkerDrains(c) \/ WorkerDrained(c) \/ WorkerFlushesLog(c) \/ WorkerTakes(c)
             \/ WorkerIdles(c) \/ WorkerExits(c) \/ PostDelivered(c) \/ PostDropped(c)
             \/ PostRetried(c) \/ HeartbeatSent(c)
      PROVE  \A u \in Threads : ref'[u] = ref[u] \/ hand[u] = <<>>
  <2>1. UNCHANGED ref
    BY <1>7 DEF WorkerDrains, WorkerDrained, WorkerFlushesLog, WorkerTakes, WorkerIdles, WorkerExits, PostDelivered, PostDropped, PostRetried, HeartbeatSent
  <2>2. QED
    BY <2>1
<1>8. ASSUME NEW c \in Clients, NEW k \in Kinds, Age(c, k)
      PROVE  \A u \in Threads : ref'[u] = ref[u] \/ hand[u] = <<>>
  <2>1. UNCHANGED ref
    BY <1>8 DEF Age
  <2>2. QED
    BY <2>1
<1>9. QED
  BY <1>1, <1>2, <1>3, <1>4, <1>5, <1>6, <1>7, <1>8, NextCases

\* A thread is in tombstone_flush.
Flushing(u) == pc[u] = "draining" /\ op[u] = "flush"

\* A flush in progress keeps its client and its debt.
FlushGoesOn(u) ==
    /\ Flushing(u) /\ ref'[u] = ref[u] /\ owed'[u] = owed[u]
    /\ gate[ref[u]] => gate'[ref[u]]
    /\ stage'[u] = stage[u] \/ ThreadDrains(u)

\* A flush is begun, or goes on.
LEMMA FlushKept ==
    ASSUME TelemetryInv, Next
    PROVE  \A u \in Threads : Flushing(u)' => FlushGoesOn(u) \/ BeginDrain(u)
<1>0. /\ owed \in [Threads -> SUBSET Items]
      /\ \A u \in Threads : pc[u] = "draining" => ref[u] \in Clients
  BY Born DEF TelemetryInv, Types
<1> USE DEF vars, apiVars, callVars, clientVars, batchVars, drainVars, workerVars,
            historyVars, flushVars
<1>1. CASE UNCHANGED vars
  BY <1>1 DEF Flushing, FlushGoesOn
<1>2. ASSUME NEW t \in Threads, NEW o \in Tracks \cup Drains \cup Settings, Call(t, o)
      PROVE  \A u \in Threads : Flushing(u)' => FlushGoesOn(u) \/ BeginDrain(u)
  <2>1. /\ \A u \in Threads \ {t} :
              pc'[u] = pc[u] /\ op'[u] = op[u] /\ ref'[u] = ref[u] /\ stage'[u] = stage[u]
        /\ pc'[t] # "draining" /\ UNCHANGED owed
        /\ \A c \in Clients : gate[c] => gate'[c]
    BY <1>2, ControlTypes, ActorsApart, Born DEF Call
  <2>2. QED
    BY <2>1, <1>0 DEF Flushing, FlushGoesOn
<1>3. ASSUME NEW t \in Threads, InitClient(t)
      PROVE  \A u \in Threads : Flushing(u)' => FlushGoesOn(u) \/ BeginDrain(u)
  <2>1. PICK c \in Clients :
           /\ life[c] = "unborn" /\ ref' = [ref EXCEPT ![t] = c]
           /\ stage' = [stage EXCEPT ![c] = "event"]
           /\ \E auto \in BOOLEAN : gate' = [gate EXCEPT ![c] = auto]
    BY <1>3, Zenon DEF InitClient
  <2>2. /\ pc' = [pc EXCEPT ![t] = "init"] /\ op' = [op EXCEPT ![t] = "init"] /\ UNCHANGED owed
    BY <1>3 DEF InitClient
  <2>3. /\ \A u \in Threads \ {t} :
              pc'[u] = pc[u] /\ op'[u] = op[u] /\ ref'[u] = ref[u] /\ stage'[u] = stage[u]
        /\ pc'[t] # "draining" /\ \A u \in Threads : ref[u] # c
        /\ \A d \in Clients \ {c} : gate'[d] = gate[d]
    BY <2>1, <2>2, ControlTypes, ActorsApart DEF ClientShape
  <2>4. QED
    BY <2>2, <2>3, <1>0 DEF Flushing, FlushGoesOn
<1>4. ASSUME NEW t \in Threads,
             \/ TrackIgnored(t) \/ TrackAdds(t) \/ CrashIgnored(t) \/ FlushReturns(t)
             \/ CrashReturns(t) \/ Buffer(t)
      PROVE  \A u \in Threads : Flushing(u)' => FlushGoesOn(u) \/ BeginDrain(u)
  <2>1. /\ \A u \in Threads \ {t} :
              pc'[u] = pc[u] /\ op'[u] = op[u] /\ ref'[u] = ref[u] /\ stage'[u] = stage[u]
        /\ pc'[t] # "draining" /\ UNCHANGED owed
        /\ \A c \in Clients : gate[c] => gate'[c]
    BY <1>4, ControlTypes, ActorsApart, Born DEF TrackIgnored, TrackAdds, CrashIgnored, FlushReturns, CrashReturns, Buffer, Return
  <2>2. QED
    BY <2>1, <1>0 DEF Flushing, FlushGoesOn
<1>5. ASSUME NEW t \in Threads, Choose(t)
      PROVE  \A u \in Threads : Flushing(u)' => FlushGoesOn(u) \/ BeginDrain(u)
  <2>1. /\ \A u \in Threads \ {t} :
              pc'[u] = pc[u] /\ op'[u] = op[u] /\ ref'[u] = ref[u] /\ stage'[u] = stage[u]
        /\ pc'[t] # "draining" /\ UNCHANGED owed
        /\ \A c \in Clients : gate[c] => gate'[c]
    BY <1>5, ControlTypes, ActorsApart, Born DEF Choose, Return
  <2>2. QED
    BY <2>1, <1>0 DEF Flushing, FlushGoesOn
<1>6. ASSUME NEW t \in Threads, BeginDrain(t)
      PROVE  \A u \in Threads : Flushing(u)' => FlushGoesOn(u) \/ BeginDrain(u)
  <2>1. /\ \A u \in Threads \ {t} :
              /\ pc'[u] = pc[u] /\ op'[u] = op[u] /\ ref'[u] = ref[u] /\ stage'[u] = stage[u]
              /\ owed'[u] = owed[u]
        /\ UNCHANGED gate
    BY <1>6, <1>0, ControlTypes, ActorsApart DEF BeginDrain
  <2>2. QED
    BY <1>6, <2>1 DEF Flushing, FlushGoesOn
<1>7. ASSUME NEW t \in Threads, ThreadDrains(t)
      PROVE  \A u \in Threads : Flushing(u)' => FlushGoesOn(u) \/ BeginDrain(u)
  <2>1. UNCHANGED <<pc, op, ref, owed, gate>>
    BY <1>7 DEF ThreadDrains
  <2>2. t \in Actors /\ ref[t] \in Clients /\ Drain(t, ref[t], TRUE)
    BY <1>7, ActorsApart, Born DEF ThreadDrains
  <2>3. \A u \in Threads \ {t} : stage'[u] = stage[u]
    BY <2>2, ActorsApart, DrainFrame DEF DrainTouches
  <2>4. QED
    BY <1>7, <2>1, <2>3 DEF Flushing, FlushGoesOn
<1>8. ASSUME NEW t \in Threads, Shutdown(t)
      PROVE  \A u \in Threads : Flushing(u)' => FlushGoesOn(u) \/ BeginDrain(u)
  <2>1. /\ \A u \in Threads \ {t} :
              pc'[u] = pc[u] /\ op'[u] = op[u] /\ ref'[u] = ref[u] /\ stage'[u] = stage[u]
        /\ pc'[t] # "draining" /\ UNCHANGED owed
        /\ \A c \in Clients : gate[c] => gate'[c]
    BY <1>8, ControlTypes, ActorsApart, Born DEF Shutdown
  <2>2. QED
    BY <2>1, <1>0 DEF Flushing, FlushGoesOn
<1>9. ASSUME NEW t \in Threads,
             \/ Retake(t) \/ TrackPasses(t) \/ ReplayConsent(t) \/ Publish(t)
      PROVE  \A u \in Threads : Flushing(u)' => FlushGoesOn(u) \/ BeginDrain(u)
  <2>1. /\ \A u \in Threads \ {t} :
              pc'[u] = pc[u] /\ op'[u] = op[u] /\ ref'[u] = ref[u] /\ stage'[u] = stage[u]
        /\ pc'[t] # "draining" /\ UNCHANGED owed
        /\ \A c \in Clients : gate[c] => gate'[c]
    BY <1>9, ControlTypes, ActorsApart, Born DEF Retake, TrackPasses, ReplayConsent, Publish
  <2>2. QED
    BY <2>1, <1>0 DEF Flushing, FlushGoesOn
<1>10. ASSUME NEW t \in Threads, QuitStops(t)
       PROVE  \A u \in Threads : Flushing(u)' => FlushGoesOn(u) \/ BeginDrain(u)
  <2>1. /\ \A u \in Threads \ {t} :
              pc'[u] = pc[u] /\ op'[u] = op[u] /\ ref'[u] = ref[u] /\ stage'[u] = stage[u]
        /\ pc'[t] # "draining" /\ UNCHANGED owed
        /\ \A c \in Clients : gate[c] => gate'[c]
    BY <1>10, ControlTypes, ActorsApart, Born DEF QuitStops
  <2>2. QED
    BY <2>1, <1>0 DEF Flushing, FlushGoesOn
<1>11. ASSUME NEW t \in Threads, QuitJoins(t)
       PROVE  \A u \in Threads : Flushing(u)' => FlushGoesOn(u) \/ BeginDrain(u)
  <2>1. /\ \A u \in Threads \ {t} :
              pc'[u] = pc[u] /\ op'[u] = op[u] /\ ref'[u] = ref[u] /\ stage'[u] = stage[u]
        /\ pc'[t] # "draining" /\ UNCHANGED owed
        /\ \A c \in Clients : gate[c] => gate'[c]
    BY <1>11, ControlTypes, ActorsApart, Born DEF QuitJoins
  <2>2. QED
    BY <2>1, <1>0 DEF Flushing, FlushGoesOn
<1>12. ASSUME NEW t \in Threads, ReplayTrack(t)
       PROVE  \A u \in Threads : Flushing(u)' => FlushGoesOn(u) \/ BeginDrain(u)
  <2>1. /\ \A u \in Threads \ {t} :
              pc'[u] = pc[u] /\ op'[u] = op[u] /\ ref'[u] = ref[u] /\ stage'[u] = stage[u]
        /\ pc'[t] # "draining" /\ UNCHANGED owed
        /\ \A c \in Clients : gate[c] => gate'[c]
    BY <1>12, ControlTypes, ActorsApart, Born DEF ReplayTrack
  <2>2. QED
    BY <2>1, <1>0 DEF Flushing, FlushGoesOn
<1>13. ASSUME NEW t \in Threads, ReplayStart(t)
       PROVE  \A u \in Threads : Flushing(u)' => FlushGoesOn(u) \/ BeginDrain(u)
  <2>1. /\ \A u \in Threads \ {t} :
              pc'[u] = pc[u] /\ op'[u] = op[u] /\ ref'[u] = ref[u] /\ stage'[u] = stage[u]
        /\ pc'[t] # "draining" /\ UNCHANGED owed
        /\ \A c \in Clients : gate[c] => gate'[c]
    BY <1>13, ControlTypes, ActorsApart, Born DEF ReplayStart
  <2>2. QED
    BY <2>1, <1>0 DEF Flushing, FlushGoesOn
<1>14. ASSUME NEW c \in Clients, WorkerDrains(c)
       PROVE  \A u \in Threads : Flushing(u)' => FlushGoesOn(u) \/ BeginDrain(u)
  <2>1. UNCHANGED <<pc, op, ref, owed, gate>>
    BY <1>14 DEF WorkerDrains
  <2>2. c \in Actors /\ Drain(c, c, FALSE)
    BY <1>14, ActorsApart DEF WorkerDrains
  <2>3. \A u \in Threads : stage'[u] = stage[u]
    BY <2>2, ActorsApart, DrainFrame DEF DrainTouches
  <2>4. QED
    BY <2>1, <2>3 DEF Flushing, FlushGoesOn
<1>15. ASSUME NEW c \in Clients,
              \/ WorkerDrained(c) \/ WorkerFlushesLog(c) \/ WorkerTakes(c) \/ WorkerIdles(c)
              \/ WorkerExits(c) \/ PostDelivered(c) \/ PostDropped(c) \/ PostRetried(c)
              \/ HeartbeatSent(c)
       PROVE  \A u \in Threads : Flushing(u)' => FlushGoesOn(u) \/ BeginDrain(u)
  <2>1. UNCHANGED <<pc, op, ref, owed, gate>>
    BY <1>15 DEF Idle, WorkerDrained, WorkerFlushesLog, WorkerTakes, WorkerIdles, WorkerExits, PostDelivered, PostDropped, PostRetried, HeartbeatSent
  <2>2. \A u \in Threads : stage'[u] = stage[u]
    BY <1>15, ControlTypes, ActorsApart DEF Idle, WorkerDrained, WorkerFlushesLog, WorkerTakes, WorkerIdles, WorkerExits, PostDelivered, PostDropped, PostRetried, HeartbeatSent
  <2>3. QED
    BY <2>1, <2>2 DEF Flushing, FlushGoesOn
<1>16. ASSUME NEW c \in Clients, NEW k \in Kinds, Age(c, k)
       PROVE  \A u \in Threads : Flushing(u)' => FlushGoesOn(u) \/ BeginDrain(u)
  <2>1. UNCHANGED <<pc, op, ref, owed, gate, stage>>
    BY <1>16 DEF Age
  <2>2. QED
    BY <2>1 DEF Flushing, FlushGoesOn
<1>17. QED
  BY <1>1, <1>2, <1>3, <1>4, <1>5, <1>6, <1>7, <1>8, <1>9, <1>10, <1>11, <1>12, <1>13,
     <1>14, <1>15, <1>16, NextCases

-----------------------------------------------------------------------------
(* Each item is held once, in every step *)

\* The drain of an actor is a transfer.
LEMMA DrainMoves ==
    ASSUME TelemetryInv, NEW a \in Actors, NEW c \in Clients, NEW force \in BOOLEAN,
           Drain(a, c, force), UNCHANGED <<inFlight, items, store, replayed>>
    PROVE  /\ \/ Still /\ stage'[a] = "end" /\ DrainEvents(a, c, force) /\ ~ gate[c]
              \/ \E k \in Kinds : \E X :
                    /\ Transfer(X, {}, {BatchSpot(c, k)}, HandSpot(a))
                    /\ force => Held(BatchSpot(c, k)) \subseteq X
                    /\ stage[a] = k /\ stage'[a] = (IF k = "event" THEN "metric" ELSE "end")
              \/ \E X, Y : /\ Transfer(X, Y, {HandSpot(a), QueueSpot(c)}, QueueSpot(c))
                           /\ stage'[a] = stage[a]
           /\ QueueApart'
<1>1. QueueApart /\ "event" \in Kinds /\ "metric" \in Kinds /\ DOMAIN stage = Actors
  BY ControlTypes DEF TelemetryInv, Kinds
<1>2. CASE DrainEvents(a, c, force) /\ ~ gate[c]
  <2>1. UNCHANGED <<hand, batch, queue, done>> /\ stage'[a] = "end"
    BY <1>1, <1>2 DEF DrainEvents, MayDrain
  <2>2. Still
    BY <2>1, ReplaySame DEF Still
  <2>3. QueueApart'
    BY <1>1, <2>1 DEF QueueApart
  <2>4. QED
    BY <1>2, <2>1, <2>2, <2>3
<1>3. CASE \/ DrainEvents(a, c, force) /\ gate[c]
           \/ DrainMetrics(a, c, force)
  <2>1. PICK k \in Kinds : /\ DrainBatch(a, c, k, force) /\ UNCHANGED <<queue, done>>
                           /\ stage[a] = k /\ stage'[a] = (IF k = "event" THEN "metric" ELSE "end")
    BY <1>1, <1>3 DEF DrainEvents, DrainMetrics, MayDrain
  <2>2. PICK X : /\ Transfer(X, {}, {BatchSpot(c, k)}, HandSpot(a))
                 /\ force => Held(BatchSpot(c, k)) \subseteq X
    BY <2>1, CutMoves
  <2>3. QueueApart'
    BY <1>1, <2>1 DEF QueueApart
  <2>4. QED
    BY <2>1, <2>2, <2>3
<1>4. CASE EnqueueNext(a, c)
  <2>1. /\ Transfer(Captured(hand[a][1].items), QueueDropped(queue[c]),
                    {HandSpot(a), QueueSpot(c)}, QueueSpot(c))
        /\ QueueApart'
    BY <1>4, EnqueueMoves
  <2>2. stage'[a] = stage[a]
    BY <1>4 DEF EnqueueNext
  <2>3. QED
    BY <2>1, <2>2
<1>5. QED
  BY <1>2, <1>3, <1>4 DEF Drain

\* Each item stays in one place, and in one envelope of a queue.
LEMMA HeldStep ==
    ASSUME TelemetryInv, Next
    PROVE  HeldOnce' /\ QueueApart'
<1>0. QueueApart
  BY DEF TelemetryInv
<1>1. CASE Still
  <2>1. Transfer({}, {}, {}, StoreSpot)
    BY <1>1, Quiet DEF Still
  <2>2. QueueApart'
    BY <1>0, <1>1 DEF QueueApart, Still
  <2>3. QED
    BY <2>1, <2>2, TransferHolds
<1>2. ASSUME NEW t \in Threads, Buffer(t)
      PROVE  HeldOnce' /\ QueueApart'
  <2>1. UNCHANGED queue
    BY <1>2 DEF Buffer, workerVars
  <2>2. PICK X, Y : Transfer(X, Y, {}, StoreSpot)
    BY <1>2, BufferMoves
  <2>3. QED
    BY <1>0, <2>1, <2>2, TransferHolds DEF QueueApart
<1>3. ASSUME NEW t \in Threads, TrackAdds(t)
      PROVE  HeldOnce' /\ QueueApart'
  <2>1. ref[t] \in Clients /\ op[t] \in Kinds /\ UNCHANGED queue
    BY <1>3, Born, ControlTypes DEF TrackAdds, ThreadShape, OpsAt, Tracks, workerVars
  <2>2. PICK c \in Clients : c = ref[t]
    BY <2>1
  <2>3. PICK k \in Kinds : k = op[t]
    BY <2>1
  <2>4. Transfer({items + 1}, Displaced(batch[c][k]) \ {Rtt}, {BatchSpot(c, k)}, BatchSpot(c, k))
    BY <1>3, <2>2, <2>3, TrackMoves
  <2>5. QED
    BY <1>0, <2>1, <2>4, TransferHolds DEF QueueApart
<1>4. ASSUME NEW t \in Threads, ReplayTrack(t)
      PROVE  HeldOnce' /\ QueueApart'
  <2>1. /\ ref[t] \in Clients /\ UNCHANGED <<queue, store>> /\ replayed < Len(store.tracks)
        /\ replayed' = replayed + 1
    BY <1>4, Born DEF ReplayTrack, workerVars
  <2>2. PICK c \in Clients : c = ref[t]
    BY <2>1
  <2>3. PICK k \in Kinds : k = NextTrack.kind
    BY <2>1, ReplayTaken
  <2>4. \/ Transfer({NextTrack.n}, Displaced(batch[c][k]) \ {Rtt},
                    {StoreSpot, BatchSpot(c, k)}, BatchSpot(c, k))
        \/ Transfer({}, {NextTrack.n}, {StoreSpot}, StoreSpot)
    BY <1>4, <2>2, <2>3, ReplayMoves
  <2>5. QED
    BY <1>0, <2>1, <2>4, TransferHolds DEF QueueApart
<1>5. ASSUME NEW a \in Actors, NEW c \in Clients, NEW force \in BOOLEAN,
             Drain(a, c, force), UNCHANGED <<inFlight, items, store, replayed>>
      PROVE  HeldOnce' /\ QueueApart'
  <2>1. QueueApart'
    BY <1>5, DrainMoves
  <2>2. Still \/ \E X, Y, F, to : Transfer(X, Y, F, to)
    BY <1>5, DrainMoves
  <2>3. QED
    BY <1>1, <2>1, <2>2, TransferHolds
<1>6. ASSUME NEW t \in Threads, ThreadDrains(t)
      PROVE  HeldOnce' /\ QueueApart'
  <2>1. /\ t \in Actors /\ ref[t] \in Clients /\ Drain(t, ref[t], TRUE)
        /\ UNCHANGED <<inFlight, items, store, replayed>>
    BY <1>6, ActorsApart, Born DEF ThreadDrains, apiVars
  <2>2. QED
    BY <1>5, <2>1
<1>7. ASSUME NEW c \in Clients, WorkerDrains(c)
      PROVE  HeldOnce' /\ QueueApart'
  <2>1. /\ c \in Actors /\ Drain(c, c, FALSE) /\ UNCHANGED <<inFlight, items, store, replayed>>
    BY <1>7, ActorsApart DEF WorkerDrains, apiVars
  <2>2. QED
    BY <1>5, <2>1
<1>8. ASSUME NEW t \in Threads, QuitJoins(t)
      PROVE  HeldOnce' /\ QueueApart'
  <2>1. PICK c \in Clients : c = ref[t]
    BY <1>8, Born DEF QuitJoins
  <2>2. /\ QueueApart'
        /\ \E Y : Transfer({}, Y, {QueueSpot(c), BatchSpot(c, "event"), BatchSpot(c, "metric")},
                           QueueSpot(c))
    BY <1>8, <2>1, JoinMoves
  <2>3. QED
    BY <2>2, TransferHolds
<1>9. ASSUME NEW c \in Clients, WorkerTakes(c)
      PROVE  HeldOnce' /\ QueueApart'
  BY <1>9, TakeMoves, TransferHolds
<1>10. ASSUME NEW c \in Clients, PostRetried(c)
       PROVE  HeldOnce' /\ QueueApart'
  BY <1>10, RetryMoves, TransferHolds
<1>11. ASSUME NEW c \in Clients, PostDelivered(c) \/ PostDropped(c)
       PROVE  HeldOnce' /\ QueueApart'
  <2>1. UNCHANGED queue
    BY <1>11 DEF PostDelivered, PostDropped
  <2>2. \E X, Y, F, to : Transfer(X, Y, F, to)
    BY <1>11, DeliverMoves, DropMoves
  <2>3. QED
    BY <1>0, <2>1, <2>2, TransferHolds DEF QueueApart
<1>12. ASSUME NEW c \in Clients, HeartbeatSent(c)
       PROVE  HeldOnce' /\ QueueApart'
  BY <1>12, BeatMoves, TransferHolds
<1>13. QED
  BY <1>1, <1>2, <1>3, <1>4, <1>6, <1>7, <1>8, <1>9, <1>10, <1>11, <1>12, StillSteps
     DEF Moving, ThreadMoves, WorkerMoves

-----------------------------------------------------------------------------
(* What a flush owes, in every step *)

\* What is due before a step is due after it, and where, while the flush does not drain.
LEMMA DueKept ==
    ASSUME TelemetryInv, Next, NEW t \in Threads, NEW c \in Clients, c = ref[t], c = ref'[t],
           stage'[t] = stage[t]
    PROVE  /\ \A l \in Spots : Due(l, t) => Due(l, t)' \/ Held(l) = {}
           /\ \A k \in Kinds : Due(BatchSpot(c, k), t) => Due(BatchSpot(c, k), t)'
           /\ \A d \in Clients : Due(QueueSpot(d), t) \/ Due(PostSpot(d), t) => d = c
           /\ \A d \in Clients : \A k \in Kinds : Due(BatchSpot(d, k), t) => d = c
           /\ \A a \in Actors : Due(HandSpot(a), t) => ClientOf(a) = c
           /\ \A a \in Actors : ClientOf(a)' = c => Due(HandSpot(a), t)'
           /\ Due(QueueSpot(c), t)' /\ Due(PostSpot(c), t)' /\ ~ Due(StoreSpot, t)
<1>1. ASSUME NEW a \in Actors, ClientOf(a) = c PROVE ClientOf(a)' = c \/ Held(HandSpot(a)) = {}
  <2>1. CASE a \in Threads
    <3>1. CASE ref'[a] = ref[a]
      BY <1>1, <2>1, <3>1 DEF ClientOf
    <3>2. CASE hand[a] = <<>>
      BY <3>2, HeldAt, Lone
    <3>3. QED
      BY <2>1, <3>1, <3>2, HandKept
  <2>2. CASE a \notin Threads
    BY <1>1, <2>2 DEF ClientOf
  <2>3. QED
    BY <2>1, <2>2
<1>2. ASSUME NEW l \in Spots, Due(l, t) PROVE Due(l, t)' \/ Held(l) = {}
  BY <1>1, <1>2 DEF Due
<1>3. ASSUME NEW k \in Kinds, Due(BatchSpot(c, k), t) PROVE Due(BatchSpot(c, k), t)'
  BY <1>3, SpotsApart DEF Due
<1>4. ASSUME NEW d \in Clients, Due(QueueSpot(d), t) \/ Due(PostSpot(d), t) PROVE d = c
  BY <1>4, SpotsApart DEF Due
<1>5. ASSUME NEW d \in Clients, NEW k \in Kinds, Due(BatchSpot(d, k), t) PROVE d = c
  BY <1>5, SpotsApart DEF Due
<1>6. ASSUME NEW a \in Actors, Due(HandSpot(a), t) PROVE ClientOf(a) = c
  BY <1>6, SpotsApart DEF Due
<1>7. ASSUME NEW a \in Actors, ClientOf(a)' = c PROVE Due(HandSpot(a), t)'
  BY <1>7 DEF Due
<1>8. Due(QueueSpot(c), t)' /\ Due(PostSpot(c), t)' /\ ~ Due(StoreSpot, t)
  BY SpotsApart DEF Due
<1>9. QED
  BY <1>2, <1>3, <1>4, <1>5, <1>6, <1>7, <1>8

\* A flush still finds what it owes.
LEMMA OwedStep ==
    ASSUME TelemetryInv, Next
    PROVE  OwedInv'
<1>1. SUFFICES ASSUME NEW t \in Threads, Flushing(t)'
               PROVE  /\ \A n \in owed'[t] : \E l \in Spots : Due(l, t)' /\ n \in Held(l)'
                      /\ owed'[t] # {} => gate'[ref'[t]]
  BY DEF OwedInv, Flushing
<1>2. OwedInv
  BY DEF TelemetryInv
<1>3. CASE BeginDrain(t)
  <2>1. /\ pc[t] = "snapped" /\ UNCHANGED <<ref, gate, batch, hand, queue, inFlight, done>>
        /\ stage'[t] = "event" /\ UNCHANGED <<store, replayed>>
        /\ owed'[t] = IF op[t] = "flush" /\ gate[ref[t]]
                        THEN (UNION { Range(batch[ref[t]][k]) : k \in Kinds }) \ {Rtt}
                        ELSE {}
    <3>1. owed \in [Threads -> SUBSET Items] /\ DOMAIN stage = Actors
      BY ControlTypes DEF TelemetryInv, Types
    <3>2. QED
      BY <1>3, <3>1, ActorsApart DEF BeginDrain, apiVars, clientVars, batchVars, workerVars
  <2>2. PICK c \in Clients : c = ref[t]
    BY <2>1, Born
  <2>3. ASSUME NEW n \in owed'[t] PROVE \E l \in Spots : Due(l, t)' /\ n \in Held(l)'
    <3>1. n \in (UNION { Range(batch[c][k]) : k \in Kinds }) \ {Rtt}
      BY <2>1, <2>2
    <3>2. PICK k \in Kinds : n \in Captured(batch[c][k])
      BY <3>1, BatchesHold
    <3>3. /\ BatchSpot(c, k) \in Spots /\ n \in Held(BatchSpot(c, k))'
          /\ Due(BatchSpot(c, k), t)'
      BY <2>1, <2>2, <3>2, HeldAfter, SpotsAre DEF Due, Kinds
    <3>4. QED
      BY <3>3
  <2>4. QED
    BY <2>1, <2>3
<1>4. CASE FlushGoesOn(t)
  <2>1. /\ pc[t] = "draining" /\ op[t] = "flush" /\ ref'[t] = ref[t] /\ owed'[t] = owed[t]
        /\ gate[ref[t]] => gate'[ref[t]]
        /\ stage'[t] = stage[t] \/ ThreadDrains(t)
    BY <1>4 DEF FlushGoesOn, Flushing
  <2>2. owed'[t] # {} => gate[ref[t]] /\ gate'[ref'[t]]
    BY <1>2, <2>1 DEF OwedInv
  <2>3. PICK c \in Clients : c = ref[t] /\ c = ref'[t]
    BY <2>1, Born
  <2> DEFINE Goal == \A n \in owed'[t] : \E l \in Spots : Due(l, t)' /\ n \in Held(l)'
  <2>4. ASSUME NEW X, NEW Y, NEW F, NEW to, Transfer(X, Y, F, to),
               \A l \in Spots : Due(l, t) => Due(l, t)' \/ Held(l) \subseteq X \cup Y \/ Held(l) = {},
               X = {} \/ Due(to, t)' \/ \A l \in F : ~ Due(l, t)
        PROVE  Goal
    BY <2>1, <2>4, TransferOwed
  <2>5. ASSUME ThreadDrains(t) PROVE Goal
    <3>1. /\ t \in Actors /\ Drain(t, c, TRUE) /\ UNCHANGED <<inFlight, items, store, replayed>>
          /\ \A a \in Actors : ClientOf(a)' = ClientOf(a)
          /\ ClientOf(t) = c /\ ClientOf(t)' = c /\ UNCHANGED ref
      BY <2>3, <2>5, ActorsApart DEF ThreadDrains, apiVars, callVars, ClientOf
    <3>2. ASSUME Still, ~ gate[c] PROVE Goal
      BY <2>2, <2>3, <3>2
    <3>3. ASSUME NEW k \in Kinds, NEW X, Transfer(X, {}, {BatchSpot(c, k)}, HandSpot(t)),
                 Held(BatchSpot(c, k)) \subseteq X, stage[t] = k,
                 stage'[t] = (IF k = "event" THEN "metric" ELSE "end")
          PROVE  Goal
      <4>1. Due(HandSpot(t), t)'
        BY <2>3, <3>1 DEF Due
      <4>2. ASSUME NEW l \in Spots, Due(l, t) PROVE Due(l, t)' \/ l = BatchSpot(c, k)
        BY <2>3, <3>1, <3>3, <4>2 DEF Due, Kinds
      <4>3. QED
        BY <2>4, <3>3, <4>1, <4>2
    <3>4. ASSUME NEW X, NEW Y, Transfer(X, Y, {HandSpot(t), QueueSpot(c)}, QueueSpot(c)),
                 stage'[t] = stage[t]
          PROVE  Goal
      <4>1. /\ \A l \in Spots : Due(l, t) => Due(l, t)' \/ Held(l) = {}
            /\ Due(QueueSpot(c), t)'
        BY <2>3, <3>4, DueKept
      <4>2. QED
        BY <2>4, <3>4, <4>1
    <3>5. \/ Still /\ ~ gate[c]
          \/ \E k \in Kinds : \E X :
                /\ Transfer(X, {}, {BatchSpot(c, k)}, HandSpot(t))
                /\ Held(BatchSpot(c, k)) \subseteq X
                /\ stage[t] = k /\ stage'[t] = (IF k = "event" THEN "metric" ELSE "end")
          \/ \E X, Y : /\ Transfer(X, Y, {HandSpot(t), QueueSpot(c)}, QueueSpot(c))
                       /\ stage'[t] = stage[t]
      BY <3>1, DrainMoves
    <3> HIDE DEF Goal
    <3>6. QED
      BY <3>2, <3>3, <3>4, <3>5
  <2>6. ASSUME ~ ThreadDrains(t) PROVE Goal
    <3>1. /\ \A l \in Spots : Due(l, t) => Due(l, t)' \/ Held(l) = {}
          /\ \A k \in Kinds : Due(BatchSpot(c, k), t) => Due(BatchSpot(c, k), t)'
          /\ \A d \in Clients : Due(QueueSpot(d), t) \/ Due(PostSpot(d), t) => d = c
          /\ \A d \in Clients : \A k \in Kinds : Due(BatchSpot(d, k), t) => d = c
          /\ \A a \in Actors : Due(HandSpot(a), t) => ClientOf(a) = c
          /\ \A a \in Actors : ClientOf(a)' = c => Due(HandSpot(a), t)'
          /\ Due(QueueSpot(c), t)' /\ Due(PostSpot(c), t)' /\ ~ Due(StoreSpot, t)
      BY <2>1, <2>3, <2>6, DueKept
    <3>2. ASSUME NEW X, NEW Y, NEW F, NEW to, Transfer(X, Y, F, to),
                 X = {} \/ Due(to, t)' \/ \A l \in F : ~ Due(l, t)
          PROVE  Goal
      BY <2>4, <3>1, <3>2
    <3> HIDE DEF Goal
    <3>3. ASSUME Still PROVE Goal
      <4>1. Transfer({}, {}, {}, StoreSpot)
        BY <3>3, Quiet DEF Still
      <4>2. QED
        BY <3>2, <4>1
    <3>4. ASSUME NEW u \in Threads, Buffer(u) PROVE Goal
      <4>1. PICK X, Y : Transfer(X, Y, {}, StoreSpot)
        BY <3>4, BufferMoves
      <4>2. \A l \in {} : ~ Due(l, t)
        OBVIOUS
      <4>3. QED
        BY <3>2, <4>1, <4>2
    <3>5. ASSUME NEW u \in Threads, TrackAdds(u) PROVE Goal
      <4>1. ref[u] \in Clients /\ op[u] \in Kinds
        BY <3>5, Born, ControlTypes DEF TrackAdds, ThreadShape, OpsAt, Tracks
      <4>2. PICK d \in Clients : d = ref[u]
        BY <4>1
      <4>3. PICK k \in Kinds : k = op[u]
        BY <4>1
      <4>4. Transfer({items + 1}, Displaced(batch[d][k]) \ {Rtt}, {BatchSpot(d, k)}, BatchSpot(d, k))
        BY <3>5, <4>2, <4>3, TrackMoves
      <4>5. Due(BatchSpot(d, k), t)' \/ ~ Due(BatchSpot(d, k), t)
        BY <3>1
      <4>6. QED
        BY <3>2, <4>4, <4>5
    <3>6. ASSUME NEW u \in Threads, ReplayTrack(u) PROVE Goal
      <4>1. /\ ref[u] \in Clients /\ UNCHANGED store /\ replayed < Len(store.tracks)
            /\ replayed' = replayed + 1
        BY <3>6, Born DEF ReplayTrack
      <4>2. PICK d \in Clients : d = ref[u]
        BY <4>1
      <4>3. PICK k \in Kinds : k = NextTrack.kind
        BY <4>1, ReplayTaken
      <4>4. \/ Transfer({NextTrack.n}, Displaced(batch[d][k]) \ {Rtt},
                        {StoreSpot, BatchSpot(d, k)}, BatchSpot(d, k))
            \/ Transfer({}, {NextTrack.n}, {StoreSpot}, StoreSpot)
        BY <3>6, <4>2, <4>3, ReplayMoves
      <4>5. Due(BatchSpot(d, k), t)' \/ ~ Due(BatchSpot(d, k), t)
        BY <3>1
      <4>6. QED
        BY <3>1, <3>2, <4>4, <4>5
    <3>7. ASSUME NEW a \in Actors, NEW d \in Clients, NEW force \in BOOLEAN, ClientOf(a) = d,
                 Drain(a, d, force), UNCHANGED <<inFlight, items, store, replayed, ref>>
          PROVE  Goal
      <4>1. ClientOf(a)' = d
        BY <3>7 DEF ClientOf
      <4>2. ASSUME NEW k \in Kinds, NEW X, Transfer(X, {}, {BatchSpot(d, k)}, HandSpot(a))
            PROVE  Goal
        <5>1. Due(HandSpot(a), t)' \/ ~ Due(BatchSpot(d, k), t)
          BY <3>1, <4>1
        <5>2. QED
          BY <3>2, <4>2, <5>1
      <4>3. ASSUME NEW X, NEW Y, Transfer(X, Y, {HandSpot(a), QueueSpot(d)}, QueueSpot(d))
            PROVE  Goal
        <5>1. \/ Due(QueueSpot(d), t)'
              \/ ~ Due(HandSpot(a), t) /\ ~ Due(QueueSpot(d), t)
          BY <3>1, <3>7
        <5>2. QED
          BY <3>2, <4>3, <5>1
      <4>4. \/ Still
            \/ \E k \in Kinds : \E X : Transfer(X, {}, {BatchSpot(d, k)}, HandSpot(a))
            \/ \E X, Y : Transfer(X, Y, {HandSpot(a), QueueSpot(d)}, QueueSpot(d))
        BY <3>7, DrainMoves
      <4>5. QED
        BY <3>3, <4>2, <4>3, <4>4
    <3>8. ASSUME NEW u \in Threads, ThreadDrains(u) PROVE Goal
      <4>1. /\ u \in Actors /\ ref[u] \in Clients /\ Drain(u, ref[u], TRUE) /\ ClientOf(u) = ref[u]
            /\ UNCHANGED <<inFlight, items, store, replayed, ref>>
        BY <3>8, ActorsApart, Born DEF ThreadDrains, apiVars, callVars
      <4>2. PICK d \in Clients : d = ref[u]
        BY <4>1
      <4>3. QED
        BY <3>7, <4>1, <4>2
    <3>9. ASSUME NEW d \in Clients, WorkerDrains(d) PROVE Goal
      <4>1. /\ d \in Actors /\ Drain(d, d, FALSE) /\ ClientOf(d) = d
            /\ UNCHANGED <<inFlight, items, store, replayed, ref>>
        BY <3>9, ActorsApart DEF WorkerDrains, apiVars, callVars
      <4>2. QED
        BY <3>7, <4>1
    <3>10. ASSUME NEW u \in Threads, QuitJoins(u) PROVE Goal
      <4>1. PICK d \in Clients : d = ref[u]
        BY <3>10, Born DEF QuitJoins
      <4>2. \E Y, F, to : Transfer({}, Y, F, to)
        BY <3>10, <4>1, JoinMoves
      <4>3. QED
        BY <3>2, <4>2
    <3>11. ASSUME NEW d \in Clients, WorkerTakes(d) PROVE Goal
      <4>1. PICK X : Transfer(X, {}, {QueueSpot(d)}, PostSpot(d))
        BY <3>11, TakeMoves
      <4>2. Due(PostSpot(d), t)' \/ ~ Due(QueueSpot(d), t)
        BY <3>1
      <4>3. QED
        BY <3>2, <4>1, <4>2
    <3>12. ASSUME NEW d \in Clients, PostRetried(d) PROVE Goal
      <4>1. PICK X, Y : Transfer(X, Y, {PostSpot(d), QueueSpot(d)}, QueueSpot(d))
        BY <3>12, RetryMoves
      <4>2. Due(QueueSpot(d), t)' \/ (~ Due(QueueSpot(d), t) /\ ~ Due(PostSpot(d), t))
        BY <3>1
      <4>3. QED
        BY <3>2, <4>1, <4>2
    <3>13. ASSUME NEW d \in Clients, PostDelivered(d) \/ PostDropped(d) \/ HeartbeatSent(d) PROVE Goal
      <4>1. \E Y, F, to : Transfer({}, Y, F, to)
        BY <3>13, DeliverMoves, DropMoves, BeatMoves
      <4>2. QED
        BY <3>2, <4>1
    <3>14. ASSUME NEW u \in Threads, ThreadMoves(u) PROVE Goal
      BY <3>4, <3>5, <3>6, <3>8, <3>10, <3>14 DEF ThreadMoves
    <3>15. ASSUME NEW d \in Clients, WorkerMoves(d) PROVE Goal
      BY <3>9, <3>11, <3>12, <3>13, <3>15 DEF WorkerMoves
    <3>16. Still \/ Moving
      BY StillSteps
    <3>17. QED
      BY <3>3, <3>14, <3>15, <3>16 DEF Moving
  <2>7. Goal
    BY <2>5, <2>6
  <2>8. QED
    BY <2>2, <2>7
<1>5. QED
  BY <1>1, <1>3, <1>4, FlushKept

\* tombstone_init begins, or goes on with its client.
LEMMA InitKept ==
    ASSUME TelemetryInv, Next
    PROVE  \A u \in Threads : pc'[u] \in {"init", "replay"} =>
              InitClient(u) \/ (pc[u] \in {"init", "replay"} /\ ref'[u] = ref[u])
<1> DEFINE Kept == \A u \in Threads : pc'[u] \in {"init", "replay"} =>
                        InitClient(u) \/ (pc[u] \in {"init", "replay"} /\ ref'[u] = ref[u])
<1> USE DEF vars, apiVars, callVars, clientVars, batchVars, drainVars, workerVars,
            historyVars, flushVars
<1>1. CASE UNCHANGED vars
  BY <1>1
<1>2. ASSUME NEW t \in Threads, NEW o \in Tracks \cup Drains \cup Settings, Call(t, o)
      PROVE  \A u \in Threads : pc'[u] \in {"init", "replay"} =>
              InitClient(u) \/ (pc[u] \in {"init", "replay"} /\ ref'[u] = ref[u])
  <2>1. /\ \A u \in Threads \ {t} : pc'[u] = pc[u] /\ ref'[u] = ref[u]
        /\ pc'[t] \notin {"init", "replay"}
    BY <1>2, ControlTypes DEF Call
  <2>2. QED
    BY <2>1
<1>3. ASSUME NEW t \in Threads, InitClient(t)
      PROVE  \A u \in Threads : pc'[u] \in {"init", "replay"} =>
              InitClient(u) \/ (pc[u] \in {"init", "replay"} /\ ref'[u] = ref[u])
  <2>1. PICK c \in Clients : ref' = [ref EXCEPT ![t] = c]
    BY <1>3, Zenon DEF InitClient
  <2>2. pc' = [pc EXCEPT ![t] = "init"]
    BY <1>3 DEF InitClient
  <2>3. QED
    BY <1>3, <2>1, <2>2
<1>4. ASSUME NEW t \in Threads,
             \/ Buffer(t) \/ TrackIgnored(t) \/ TrackAdds(t) \/ Choose(t) \/ CrashIgnored(t)
             \/ FlushReturns(t) \/ CrashReturns(t)
      PROVE  \A u \in Threads : pc'[u] \in {"init", "replay"} =>
              InitClient(u) \/ (pc[u] \in {"init", "replay"} /\ ref'[u] = ref[u])
  <2>1. /\ \A u \in Threads \ {t} : pc'[u] = pc[u] /\ ref'[u] = ref[u]
        /\ pc'[t] \notin {"init", "replay"}
    BY <1>4, ControlTypes DEF Buffer, TrackIgnored, TrackAdds, Choose, CrashIgnored, FlushReturns, CrashReturns, Return
  <2>2. QED
    BY <2>1
<1>5. ASSUME NEW t \in Threads,
             \/ Shutdown(t) \/ Retake(t) \/ TrackPasses(t) \/ BeginDrain(t)
             \/ ReplayStart(t) \/ Publish(t) \/ QuitStops(t) \/ QuitJoins(t)
      PROVE  \A u \in Threads : pc'[u] \in {"init", "replay"} =>
              InitClient(u) \/ (pc[u] \in {"init", "replay"} /\ ref'[u] = ref[u])
  <2>1. /\ \A u \in Threads \ {t} : pc'[u] = pc[u] /\ ref'[u] = ref[u]
        /\ pc'[t] \notin {"init", "replay"}
    BY <1>5, ControlTypes DEF Shutdown, Retake, TrackPasses, BeginDrain, ReplayStart, Publish, QuitStops, QuitJoins
  <2>2. QED
    BY <2>1
<1>6. ASSUME NEW t \in Threads, ReplayConsent(t)
      PROVE  \A u \in Threads : pc'[u] \in {"init", "replay"} =>
              InitClient(u) \/ (pc[u] \in {"init", "replay"} /\ ref'[u] = ref[u])
  <2>1. pc' = [pc EXCEPT ![t] = "replay"] /\ pc[t] = "init" /\ UNCHANGED ref
    BY <1>6 DEF ReplayConsent
  <2>2. QED
    BY <2>1, ControlTypes
<1>7. ASSUME NEW t \in Threads,
             \/ ThreadDrains(t) \/ ReplayTrack(t)
      PROVE  \A u \in Threads : pc'[u] \in {"init", "replay"} =>
              InitClient(u) \/ (pc[u] \in {"init", "replay"} /\ ref'[u] = ref[u])
  <2>1. UNCHANGED <<pc, ref>>
    BY <1>7 DEF ThreadDrains, ReplayTrack
  <2>2. QED
    BY <2>1
<1>8. ASSUME NEW c \in Clients,
             \/ WorkerDrains(c) \/ WorkerDrained(c) \/ WorkerFlushesLog(c) \/ WorkerTakes(c)
             \/ WorkerIdles(c) \/ WorkerExits(c) \/ PostDelivered(c) \/ PostDropped(c)
             \/ PostRetried(c) \/ HeartbeatSent(c)
      PROVE  \A u \in Threads : pc'[u] \in {"init", "replay"} =>
              InitClient(u) \/ (pc[u] \in {"init", "replay"} /\ ref'[u] = ref[u])
  <2>1. UNCHANGED <<pc, ref>>
    BY <1>8 DEF WorkerDrains, WorkerDrained, WorkerFlushesLog, WorkerTakes, WorkerIdles, WorkerExits, PostDelivered, PostDropped, PostRetried, HeartbeatSent
  <2>2. QED
    BY <2>1
<1>9. ASSUME NEW c \in Clients, NEW k \in Kinds, Age(c, k)
      PROVE  \A u \in Threads : pc'[u] \in {"init", "replay"} =>
              InitClient(u) \/ (pc[u] \in {"init", "replay"} /\ ref'[u] = ref[u])
  <2>1. UNCHANGED <<pc, ref>>
    BY <1>9 DEF Age
  <2>2. QED
    BY <2>1
<1>10. QED
  BY <1>1, <1>2, <1>3, <1>4, <1>5, <1>6, <1>7, <1>8, <1>9, NextCases

-----------------------------------------------------------------------------
(* The order of the store and of the replay, in every step *)

\* The store changes with a call before init, and with the publication.
LEMMA StoreStep ==
    ASSUME TelemetryInv, Next
    PROVE  StoreOrder'
<1>1. StoreOrder /\ store.tracks \in Seq([ n : Items, kind : Kinds ])
  BY DEF TelemetryInv, Types
<1>2. CASE store'.tracks = store.tracks
  BY <1>1, <1>2 DEF StoreOrder
<1>3. CASE store'.tracks = <<>>
  BY <1>3 DEF StoreOrder
<1>4. ASSUME NEW t \in Threads, Buffer(t), op[t] \in Tracks, Len(store.tracks) < MaxTracks
      PROVE  StoreOrder'
  <2> DEFINE r == store.tracks
             x == [n |-> items + 1, kind |-> op[t]]
  <2>1. store' = [store EXCEPT !.tracks = Append(r, x)] /\ MutexFree
    <3>1. store' = Buffered(store, op[t], items + 1) /\ MutexFree
      BY <1>4 DEF Buffer
    <3>2. store \in [ tracks : Seq([ n : Items, kind : Kinds ]),
                      consent : {"unset", "grant", "refuse"}, start : BOOLEAN ]
      BY DEF TelemetryInv, Types
    <3>3. QED
      BY <1>4, <3>1, <3>2, BufferedCases
  <2>2. store'.tracks = Append(r, x)
    <3>1. store \in [ tracks : Seq([ n : Items, kind : Kinds ]),
                      consent : {"unset", "grant", "refuse"}, start : BOOLEAN ]
      BY DEF TelemetryInv, Types
    <3>2. QED
      BY <2>1, <3>1
  <2>3. x \in [ n : Items, kind : Kinds ] /\ x.n = items + 1 /\ items \in Nat
    BY <1>4, NextNumber, Numbered DEF Tracks
  <2>4. replayed = 0
    BY <2>1, ControlTypes DEF InitShape
  <2> HIDE DEF x
  <2>5. /\ Len(r) \in Nat /\ Len(Append(r, x)) = Len(r) + 1
        /\ \A j \in 1 .. Len(r) : Append(r, x)[j] = r[j]
        /\ Append(r, x)[Len(r) + 1] = x
        /\ DOMAIN r = 1 .. Len(r) /\ DOMAIN Append(r, x) = 1 .. Len(r) + 1
    <3>1. Append(r, x) \in Seq([ n : Items, kind : Kinds ])
      BY <1>1, <2>3, AppendProperties
    <3>2. QED
      BY <1>1, <2>3, <3>1, AppendProperties, LenProperties
  <2>6. \A j \in 1 .. Len(r) : r[j].n < items + 1
    <3>1. ASSUME NEW j \in 1 .. Len(r) PROVE r[j].n < items + 1
      <4>1. r[j].n \in ToReplay
        <5>1. j \in (replayed + 1) .. Len(store.tracks)
          BY <2>4, <2>5, <3>1
        <5>2. QED
          BY <5>1 DEF ToReplay
      <4>2. r[j].n \in 1 .. items
        BY <4>1, Numbered, SpotsAre, HeldAt
      <4> HIDE DEF r
      <4>3. QED
        BY <2>3, <4>2
    <3>2. QED
      BY <3>1
  <2>7. \A i, j \in DOMAIN r : i < j => r[i].n < r[j].n
    BY <1>1 DEF StoreOrder
  <2> HIDE DEF r
  <2>8. ASSUME NEW i \in 1 .. Len(r) + 1, NEW j \in 1 .. Len(r) + 1, i < j
        PROVE  Append(r, x)[i].n < Append(r, x)[j].n
    <3>1. i \in 1 .. Len(r)
      BY <2>5, <2>8
    <3>2. CASE j \in 1 .. Len(r)
      BY <2>5, <2>7, <2>8, <3>1, <3>2
    <3>3. CASE j = Len(r) + 1
      BY <2>3, <2>5, <2>6, <3>1, <3>3
    <3>4. QED
      BY <2>5, <3>2, <3>3
  <2>9. QED
    BY <2>2, <2>5, <2>8 DEF StoreOrder
<1>5. ASSUME NEW t \in Threads, Buffer(t)
      PROVE  StoreOrder'
  <2>1. /\ store' = Buffered(store, op[t], items + 1)
        /\ store \in [ tracks : Seq([ n : Items, kind : Kinds ]),
                       consent : {"unset", "grant", "refuse"}, start : BOOLEAN ]
    BY <1>5 DEF Buffer, TelemetryInv, Types
  <2>2. op[t] \in Tracks \cup Settings
    BY <1>5, ControlTypes DEF Buffer, ThreadShape, OpsAt
  <2>3. CASE op[t] \in Tracks /\ ~ Len(store.tracks) < MaxTracks
    BY <1>2, <2>1, <2>3, BufferedCases
  <2>4. CASE op[t] \in Settings
    BY <1>2, <2>1, <2>4, BufferedCases
  <2>5. QED
    BY <1>4, <1>5, <2>2, <2>3, <2>4
<1>6. UNCHANGED store \/ (\E t \in Threads : Buffer(t)) \/ store'.tracks = <<>>
  <2>1. ASSUME NEW t \in Threads, Publish(t) PROVE store'.tracks = <<>>
    BY <2>1 DEF Publish, Cleared, EmptyStore
  <2>2. CASE UNCHANGED vars
    BY <2>2 DEF vars, apiVars
  <2>3. ASSUME NEW t \in Threads, NEW o, Call(t, o) PROVE UNCHANGED store
    BY <2>3 DEF Call, apiVars
  <2>4. ASSUME NEW t \in Threads,
               \/ InitClient(t) \/ Shutdown(t) \/ Retake(t) \/ TrackPasses(t) \/ TrackIgnored(t)
               \/ TrackAdds(t) \/ Choose(t) \/ BeginDrain(t) \/ CrashIgnored(t) \/ ThreadDrains(t)
               \/ FlushReturns(t) \/ CrashReturns(t) \/ ReplayConsent(t) \/ ReplayTrack(t)
               \/ ReplayStart(t) \/ QuitStops(t) \/ QuitJoins(t)
        PROVE  UNCHANGED store
    BY <2>4 DEF InitClient, Shutdown, Retake, TrackPasses, TrackIgnored, TrackAdds, Choose,
       BeginDrain, CrashIgnored, ThreadDrains, FlushReturns, CrashReturns, ReplayConsent,
       ReplayTrack, ReplayStart, QuitStops, QuitJoins, apiVars
  <2>5. ASSUME NEW c \in Clients,
               \/ WorkerDrains(c) \/ WorkerDrained(c) \/ WorkerFlushesLog(c) \/ WorkerTakes(c)
               \/ WorkerIdles(c) \/ WorkerExits(c) \/ PostDelivered(c) \/ PostDropped(c)
               \/ PostRetried(c) \/ HeartbeatSent(c)
        PROVE  UNCHANGED store
    BY <2>5 DEF WorkerDrains, WorkerDrained, WorkerFlushesLog, WorkerTakes, WorkerIdles,
       WorkerExits, PostDelivered, PostDropped, PostRetried, HeartbeatSent, apiVars
  <2>6. ASSUME NEW c \in Clients, NEW k \in Kinds, Age(c, k) PROVE UNCHANGED store
    BY <2>6 DEF Age, apiVars
  <2>7. QED
    BY <2>1, <2>2, <2>3, <2>4, <2>5, <2>6, NextCases
<1>7. QED
  BY <1>2, <1>3, <1>5, <1>6

\* What is to be replayed stays behind what the new client has.
LEMMA ReplayStep ==
    ASSUME TelemetryInv, Next
    PROVE  ReplayOrder'
<1>1. SUFFICES ASSUME NEW t \in Threads, pc'[t] \in {"init", "replay"}, NEW c, c = ref'[t]
               PROVE  \A n \in ToReplay' : \A l \in Spots :
                         OfClient(l, c)' => \A m \in Held(l)' : m < n
  BY DEF ReplayOrder
<1> DEFINE Goal == \A n \in ToReplay' : \A l \in Spots : OfClient(l, c)' => \A m \in Held(l)' : m < n
<1>2. CASE InitClient(t)
  <2>1. c \in Clients /\ life[c] = "unborn"
    <3>1. PICK d \in Clients : life[d] = "unborn" /\ ref' = [ref EXCEPT ![t] = d]
      BY <1>2, Zenon DEF InitClient
    <3>2. QED
      BY <1>1, <3>1, ControlTypes
  <2>2. UNCHANGED <<batch, hand>> /\ pc[t] = "idle" /\ \A u \in Threads \ {t} : ref'[u] = ref[u]
    <3>1. UNCHANGED <<batch, hand>> /\ pc[t] = "idle"
      BY <1>2 DEF InitClient, batchVars
    <3>2. PICK d \in Clients : ref' = [ref EXCEPT ![t] = d]
      BY <1>2, Zenon DEF InitClient
    <3>3. QED
      BY <3>1, <3>2, ControlTypes
  <2>3. /\ \A k \in Kinds : batch[c][k] = <<>>
        /\ hand[c] = <<>> /\ hand[t] = <<>> /\ \A u \in Threads : ref[u] # c
    BY <2>1, <2>2, ControlTypes DEF ClientShape, ThreadShape
  <2>4. ASSUME NEW a \in Actors, ClientOf(a)' = c PROVE hand[a] = <<>>
    BY <2>2, <2>3, <2>4 DEF ClientOf
  <2>5. Captured(<<>>) = {}
    BY DEF Captured
  <2>6. ASSUME NEW l, OfClient(l, c)' PROVE Held(l)' = {}
    <3>1. CASE \E k \in Kinds : l = BatchSpot(c, k)
      BY <2>2, <2>3, <2>5, <3>1, HeldAfter
    <3>2. CASE \E a \in Actors : ClientOf(a)' = c /\ l = HandSpot(a)
      BY <2>2, <2>4, <3>2, HeldAfter, Lone
    <3>3. QED
      BY <2>6, <3>1, <3>2 DEF OfClient
  <2>7. QED
    BY <2>6
<1>3. ASSUME pc[t] \in {"init", "replay"}, ref'[t] = ref[t] PROVE Goal
  <2>1. c = ref[t] /\ c \in Clients /\ ~ MutexFree
    BY <1>1, <1>3, Born DEF MutexFree
  <2>2. \A u \in Threads \ {t} : pc[u] \notin Initing /\ ref[u] # c
    BY <1>3, <2>1, ControlTypes DEF InitShape, Initing
  <2>3. \A l \in Spots : OfClient(l, c)' => OfClient(l, c) \/ Held(l) = {}
    <3>1. ASSUME NEW a \in Actors, ClientOf(a)' = c PROVE ClientOf(a) = c \/ hand[a] = <<>>
      <4>1. CASE a \in Threads
        BY <3>1, <4>1, HandKept DEF ClientOf
      <4>2. CASE a \notin Threads
        BY <3>1, <4>2 DEF ClientOf
      <4>3. QED
        BY <4>1, <4>2
    <3>2. ASSUME NEW l \in Spots, OfClient(l, c)' PROVE OfClient(l, c) \/ Held(l) = {}
      <4>1. CASE \E k \in Kinds : l = BatchSpot(c, k)
        BY <4>1 DEF OfClient
      <4>2. ASSUME NEW a \in Actors, ClientOf(a)' = c, l = HandSpot(a)
            PROVE  OfClient(l, c) \/ Held(l) = {}
        BY <3>1, <4>2, HeldAt, Lone DEF OfClient
      <4>3. QED
        BY <3>2, <4>1, <4>2 DEF OfClient
    <3>3. QED
      BY <3>2
  <2>4. /\ \A d, k : OfClient(BatchSpot(d, k), c)' => d = c
        /\ \A k \in Kinds : OfClient(BatchSpot(c, k), c)
        /\ \A a : OfClient(HandSpot(a), c)' => ClientOf(a)' = c
        /\ \A d : ~ OfClient(QueueSpot(d), c)' /\ ~ OfClient(PostSpot(d), c)'
    BY SpotsApart DEF OfClient
  <2>5. ASSUME NEW X, NEW Y, NEW F, NEW to, Transfer(X, Y, F, to), ToReplay' \subseteq ToReplay,
               \/ X = {} \/ ~ OfClient(to, c)'
               \/ items' = items /\ \A l \in F : OfClient(l, c) \/ Held(l) = {}
        PROVE  Goal
    BY <1>3, <2>1, <2>3, <2>5, TransferReplay
  <2>6. ASSUME Still PROVE Goal
    <3>1. Transfer({}, {}, {}, StoreSpot) /\ ToReplay' = ToReplay
      BY <2>6, Quiet DEF Still
    <3> HIDE DEF Goal
    <3>2. QED
      BY <2>5, <3>1
  <2>7. ASSUME NEW u \in Threads, Buffer(u) PROVE Goal
    BY <2>1, <2>7 DEF Buffer
  <2>8. ASSUME NEW u \in Threads, TrackAdds(u) PROVE Goal
    <3>1. ref[u] \in Clients /\ op[u] \in Kinds /\ u # t /\ UNCHANGED <<store, replayed>>
      BY <1>3, <2>8, Born, ControlTypes DEF TrackAdds, ThreadShape, OpsAt, Tracks, apiVars
    <3>2. PICK d \in Clients : d = ref[u]
      BY <3>1
    <3>3. PICK k \in Kinds : k = op[u]
      BY <3>1
    <3>4. Transfer({items + 1}, Displaced(batch[d][k]) \ {Rtt}, {BatchSpot(d, k)}, BatchSpot(d, k))
      BY <2>8, <3>2, <3>3, TrackMoves
    <3>5. d # c /\ ToReplay' = ToReplay
      BY <2>2, <3>1, <3>2, ReplaySame
    <3> HIDE DEF Goal
    <3>6. QED
      BY <2>4, <2>5, <3>4, <3>5
  <2>9. ASSUME NEW a \in Actors, NEW d \in Clients, NEW force \in BOOLEAN, ClientOf(a) = d,
               Drain(a, d, force), UNCHANGED <<inFlight, items, store, replayed, ref>>
        PROVE  Goal
    <3>1. ToReplay' = ToReplay /\ ClientOf(a)' = d
      BY <2>9, ReplaySame DEF ClientOf
    <3>2. \/ Still
          \/ \E k \in Kinds : \E X : Transfer(X, {}, {BatchSpot(d, k)}, HandSpot(a))
          \/ \E X, Y : Transfer(X, Y, {HandSpot(a), QueueSpot(d)}, QueueSpot(d))
      BY <2>9, DrainMoves
    <3> HIDE DEF Goal
    <3>3. ASSUME NEW k \in Kinds, NEW X, Transfer(X, {}, {BatchSpot(d, k)}, HandSpot(a)) PROVE Goal
      BY <2>4, <2>5, <2>9, <3>1, <3>3
    <3>4. ASSUME NEW X, NEW Y, Transfer(X, Y, {HandSpot(a), QueueSpot(d)}, QueueSpot(d)) PROVE Goal
      BY <2>4, <2>5, <3>1, <3>4
    <3>5. QED
      BY <2>6, <3>2, <3>3, <3>4
  <2>10. ASSUME NEW u \in Threads, ThreadDrains(u) PROVE Goal
    <3>1. /\ u \in Actors /\ ref[u] \in Clients /\ Drain(u, ref[u], TRUE) /\ ClientOf(u) = ref[u]
          /\ UNCHANGED <<inFlight, items, store, replayed, ref>>
      BY <2>10, ActorsApart, Born DEF ThreadDrains, apiVars, callVars
    <3>2. PICK d \in Clients : d = ref[u]
      BY <3>1
    <3> HIDE DEF Goal
    <3>3. QED
      BY <2>9, <3>1, <3>2
  <2>11. ASSUME NEW d \in Clients, WorkerDrains(d) PROVE Goal
    <3>1. /\ d \in Actors /\ Drain(d, d, FALSE) /\ ClientOf(d) = d
          /\ UNCHANGED <<inFlight, items, store, replayed, ref>>
      BY <2>11, ActorsApart DEF WorkerDrains, apiVars, callVars
    <3> HIDE DEF Goal
    <3>2. QED
      BY <2>9, <3>1
  <2>12. ASSUME NEW u \in Threads, ReplayTrack(u) PROVE Goal
    <3>1. /\ u = t /\ UNCHANGED <<store, items>> /\ replayed < Len(store.tracks)
          /\ replayed' = replayed + 1
      BY <2>2, <2>12 DEF ReplayTrack, Initing
    <3>2. ToReplay' \subseteq ToReplay /\ \A m \in ToReplay' : NextTrack.n < m
      BY <3>1, ReplayTaken
    <3>3. PICK k \in Kinds : k = NextTrack.kind
      BY <3>1, ReplayTaken
    <3>4. \/ Transfer({NextTrack.n}, Displaced(batch[c][k]) \ {Rtt},
                      {StoreSpot, BatchSpot(c, k)}, BatchSpot(c, k))
          \/ Transfer({}, {NextTrack.n}, {StoreSpot}, StoreSpot)
      BY <2>1, <2>12, <3>1, <3>3, ReplayMoves
    <3>5. CASE Transfer({}, {NextTrack.n}, {StoreSpot}, StoreSpot)
      BY <2>5, <3>2, <3>5
    <3>6. ASSUME Transfer({NextTrack.n}, Displaced(batch[c][k]) \ {Rtt},
                          {StoreSpot, BatchSpot(c, k)}, BatchSpot(c, k)),
                 NEW n \in ToReplay', NEW l \in Spots, OfClient(l, c)', NEW m \in Held(l)'
          PROVE  m < n
      <4>1. l # DoneSpot
        BY <3>6, SpotsApart DEF OfClient
      <4>2. m \in Held(l) \/ m = NextTrack.n
        BY <3>6, <4>1 DEF Transfer
      <4>3. CASE m = NextTrack.n
        BY <3>2, <3>6, <4>3
      <4>4. CASE m \in Held(l)
        <5>1. OfClient(l, c) /\ n \in ToReplay /\ ReplayOrder
          BY <2>3, <3>2, <3>6, <4>4 DEF TelemetryInv
        <5>2. QED
          BY <1>3, <2>1, <4>4, <5>1 DEF ReplayOrder
      <4>5. QED
        BY <4>2, <4>3, <4>4
    <3>7. QED
      BY <3>4, <3>5, <3>6
  <2>13. ASSUME NEW u \in Threads, QuitJoins(u) PROVE Goal
    <3>1. PICK d \in Clients : d = ref[u]
      BY <2>13, Born DEF QuitJoins
    <3>2. ToReplay' = ToReplay /\ \E Y, F, to : Transfer({}, Y, F, to)
      BY <2>13, <3>1, JoinMoves, ReplaySame DEF QuitJoins, apiVars
    <3> HIDE DEF Goal
    <3>3. QED
      BY <2>5, <3>2
  <2>14. ASSUME NEW d \in Clients, WorkerTakes(d) PROVE Goal
    <3>1. ToReplay' = ToReplay /\ \E X, F : Transfer(X, {}, F, PostSpot(d))
      BY <2>14, TakeMoves, ReplaySame DEF WorkerTakes, apiVars
    <3> HIDE DEF Goal
    <3>2. QED
      BY <2>4, <2>5, <3>1
  <2>15. ASSUME NEW d \in Clients, PostRetried(d) PROVE Goal
    <3>1. ToReplay' = ToReplay /\ \E X, Y, F : Transfer(X, Y, F, QueueSpot(d))
      BY <2>15, RetryMoves, ReplaySame DEF PostRetried, apiVars
    <3> HIDE DEF Goal
    <3>2. QED
      BY <2>4, <2>5, <3>1
  <2>16. ASSUME NEW d \in Clients, PostDelivered(d) \/ PostDropped(d) \/ HeartbeatSent(d) PROVE Goal
    <3>1. ToReplay' = ToReplay /\ \E Y, F, to : Transfer({}, Y, F, to)
      BY <2>16, DeliverMoves, DropMoves, BeatMoves, ReplaySame
         DEF PostDelivered, PostDropped, HeartbeatSent, apiVars
    <3> HIDE DEF Goal
    <3>2. QED
      BY <2>5, <3>1
  <2> HIDE DEF Goal
  <2>17. ASSUME NEW u \in Threads, ThreadMoves(u) PROVE Goal
    BY <2>7, <2>8, <2>10, <2>12, <2>13, <2>17 DEF ThreadMoves
  <2>18. ASSUME NEW d \in Clients, WorkerMoves(d) PROVE Goal
    BY <2>11, <2>14, <2>15, <2>16, <2>18 DEF WorkerMoves
  <2>19. Still \/ Moving
    BY StillSteps
  <2>20. QED
    BY <2>6, <2>17, <2>18, <2>19 DEF Moving
<1>4. QED
  BY <1>1, <1>2, <1>3, InitKept

-----------------------------------------------------------------------------
(* The order of the captures, in every step *)

\* One sequence precedes another when the items it captures do.
LEMMA PrecedesItems ==
    ASSUME NEW s, NEW r
    PROVE  Precedes(s, r) <=> \A x \in Captured(s), y \in Captured(r) : x < y
<1>1. ASSUME Precedes(s, r), NEW x \in Captured(s), NEW y \in Captured(r) PROVE x < y
  <2>1. PICK i \in DOMAIN s : x = s[i] /\ x # Rtt
    BY DEF Captured
  <2>2. PICK j \in DOMAIN r : y = r[j] /\ y # Rtt
    BY DEF Captured
  <2>3. QED
    BY <1>1, <2>1, <2>2 DEF Precedes
<1>2. ASSUME \A x \in Captured(s), y \in Captured(r) : x < y PROVE Precedes(s, r)
  <2>1. ASSUME NEW i \in DOMAIN s, NEW j \in DOMAIN r, Rtt \notin {s[i], r[j]} PROVE s[i] < r[j]
    <3>1. s[i] \in Captured(s) /\ r[j] \in Captured(r)
      BY <2>1 DEF Captured
    <3>2. QED
      BY <1>2, <3>1
  <2>2. QED
    BY <2>1 DEF Precedes
<1>3. QED
  BY <1>1, <1>2

\* CaptureOrder, in three parts.
LEMMA OrderParts ==
    /\ CaptureOrder <=>
          /\ \A c \in Clients : \A k \in Kinds : InOrder(batch[c][k])
          /\ \A a \in Actors : Sorted(hand[a])
          /\ \A a \in Actors : \A i \in DOMAIN hand[a] :
                Precedes(hand[a][i].items, batch[ClientOf(a)][hand[a][i].kind])
    /\ CaptureOrder' <=>
          /\ \A c \in Clients : \A k \in Kinds : InOrder(batch'[c][k])
          /\ \A a \in Actors : Sorted(hand'[a])
          /\ \A a \in Actors : \A i \in DOMAIN hand'[a] :
                Precedes(hand'[a][i].items, batch'[ClientOf(a)'][hand'[a][i].kind])
BY DEF CaptureOrder, Sorted

\* The hands stay, and a batch keeps its order and what is before it.
LEMMA OrderKept ==
    ASSUME TelemetryInv, Next, UNCHANGED hand,
           \A c \in Clients : \A k \in Kinds :
              \/ batch'[c][k] = batch[c][k] \/ batch'[c][k] = <<>>
              \/ /\ InOrder(batch'[c][k])
                 /\ \A a \in Actors : ClientOf(a) = c =>
                       \A i \in DOMAIN hand[a] :
                          hand[a][i].kind = k => Precedes(hand[a][i].items, batch'[c][k])
    PROVE  CaptureOrder'
<1>1. CaptureOrder /\ hand \in [Actors -> Seq(Envelope)]
  BY DEF TelemetryInv, Types
<1>2. InOrder(<<>>) /\ \A s : Precedes(s, <<>>)
  BY DEF InOrder, Precedes
<1>3. \A c \in Clients : \A k \in Kinds : InOrder(batch'[c][k])
  BY <1>1, <1>2, OrderParts
<1>4. ASSUME NEW a \in Actors, NEW i \in DOMAIN hand[a]
      PROVE  Precedes(hand[a][i].items, batch'[ClientOf(a)'][hand[a][i].kind])
  <2>1. hand[a] # <<>>
    <3>1. DOMAIN <<>> = {}
      OBVIOUS
    <3>2. QED
      BY <1>4, <3>1
  <2>2. ClientOf(a)' = ClientOf(a) /\ ClientOf(a) \in Clients
    <3>1. CASE a \in Threads
      <4>1. pc[a] \notin {"idle", "missed"} /\ ref'[a] = ref[a]
        BY <2>1, <3>1, HandKept, ControlTypes DEF ThreadShape
      <4>2. QED
        BY <3>1, <4>1, Born DEF ClientOf
    <3>2. CASE a \notin Threads
      BY <3>2 DEF ClientOf, Actors
    <3>3. QED
      BY <3>1, <3>2
  <2>3. hand[a][i] \in Envelope /\ hand[a][i].kind \in Kinds
    <3>1. hand[a][i] \in Envelope
      BY <1>1, <1>4, ElementOfSeq, LenProperties
    <3>2. QED
      BY <3>1 DEF Envelope
  <2>4. Precedes(hand[a][i].items, batch[ClientOf(a)][hand[a][i].kind])
    BY <1>1, <1>4, OrderParts
  <2>5. QED
    BY <1>2, <1>4, <2>2, <2>3, <2>4
<1>5. QED
  BY <1>1, <1>3, <1>4, OrderParts

\* An item is added behind all that its client has.
LEMMA AddOrder ==
    ASSUME TelemetryInv, Next, UNCHANGED hand, NEW c \in Clients, NEW k \in Kinds, NEW n \in Item,
           Add(c, k, n),
           \/ n = Rtt
           \/ /\ \A m \in Held(BatchSpot(c, k)) : m < n
              /\ \A a \in Actors : ClientOf(a) = c => \A m \in Held(HandSpot(a)) : m < n
    PROVE  CaptureOrder'
<1>1. /\ \A d \in Clients : \A j \in Kinds :
            batch'[d][j] = IF d = c /\ j = k THEN Added(batch[c][k], n) ELSE batch[d][j]
      /\ batch[c][k] \in Seq(Item) /\ CaptureOrder
  BY AddFrame DEF TelemetryInv, Types, Item
<1>2. InOrder(batch[c][k])
  BY <1>1, OrderParts
<1>3. /\ Captured(Added(batch[c][k], n)) =
            (Captured(batch[c][k]) \ Displaced(batch[c][k])) \cup ({n} \ {Rtt})
      /\ (\A m \in Captured(batch[c][k]) : n = Rtt \/ m < n) => InOrder(Added(batch[c][k], n))
  BY <1>1, <1>2, AddedItems
<1>4. InOrder(Added(batch[c][k], n))
  BY <1>3, HeldAt
<1>5. ASSUME NEW a \in Actors, ClientOf(a) = c, NEW i \in DOMAIN hand[a], hand[a][i].kind = k
      PROVE  Precedes(hand[a][i].items, Added(batch[c][k], n))
  <2>1. \A x \in Captured(hand[a][i].items), y \in Captured(batch[c][k]) : x < y
    BY <1>1, <1>5, OrderParts, PrecedesItems
  <2>2. \A x \in Captured(hand[a][i].items) : n = Rtt \/ x < n
    <3>1. Captured(hand[a][i].items) \subseteq Held(HandSpot(a))
      BY <1>5, ItemsHeld, HeldAt
    <3>2. QED
      BY <1>5, <3>1
  <2>3. \A x \in Captured(hand[a][i].items), y \in Captured(Added(batch[c][k], n)) : x < y
    BY <1>3, <2>1, <2>2
  <2>4. QED
    BY <2>3, PrecedesItems
<1>6. QED
  BY <1>1, <1>4, <1>5, OrderKept

\* A drain keeps the order.
LEMMA DrainOrder ==
    ASSUME TelemetryInv, Next, NEW a \in Actors, NEW c \in Clients, ClientOf(a) = c,
           NEW force, Drain(a, c, force), UNCHANGED ref
    PROVE  CaptureOrder'
<1>1. /\ CaptureOrder /\ hand \in [Actors -> Seq(Envelope)]
      /\ batch \in [Clients -> [Kinds -> Seq(Item)]] /\ "event" \in Kinds /\ "metric" \in Kinds
  <2>1. CaptureOrder /\ Types
    BY DEF TelemetryInv
  <2>2. "event" \in Kinds /\ "metric" \in Kinds
    BY DEF Kinds
  <2>3. QED
    BY <2>1, <2>2 DEF Types, Item
<1>2. \A b : ClientOf(b)' = ClientOf(b)
  BY DEF ClientOf
<1>3. /\ \A d \in Clients : \A k \in Kinds : InOrder(batch[d][k])
      /\ \A b \in Actors : Sorted(hand[b])
      /\ \A b \in Actors : \A i \in DOMAIN hand[b] :
            Precedes(hand[b][i].items, batch[ClientOf(b)][hand[b][i].kind])
  BY <1>1, OrderParts
<1>4. InOrder(<<>>) /\ \A s : Precedes(s, <<>>)
  BY DEF InOrder, Precedes
<1>5. CASE UNCHANGED <<hand, batch>>
  BY <1>5, OrderKept
<1>6. ASSUME NEW k \in Kinds, DrainBatch(a, c, k, force), Ready(c, k, force) PROVE CaptureOrder'
  <2>1. /\ hand' = [hand EXCEPT ![a] = Envelopes(k, batch[c][k])]
        /\ batch' = [batch EXCEPT ![c][k] = <<>>]
    BY <1>6 DEF DrainBatch
  <2>2. \A d \in Clients : \A j \in Kinds :
           batch'[d][j] = IF d = c /\ j = k THEN <<>> ELSE batch[d][j]
    BY <1>1, <2>1
  <2>3. /\ \A b \in Actors : b = a \/ hand'[b] = hand[b]
        /\ hand'[a] = Envelopes(k, batch[c][k])
    BY <1>1, <2>1
  <2>4. /\ Sorted(Envelopes(k, batch[c][k]))
        /\ \A i \in DOMAIN Envelopes(k, batch[c][k]) : Envelopes(k, batch[c][k])[i].kind = k
    BY <1>1, <1>3, CutItems
  <2>5. \A d \in Clients : \A j \in Kinds : InOrder(batch'[d][j])
    BY <1>3, <1>4, <2>2
  <2>6. ASSUME NEW b \in Actors, NEW i \in DOMAIN hand'[b]
        PROVE  Precedes(hand'[b][i].items, batch'[ClientOf(b)][hand'[b][i].kind])
    <3>1. CASE b = a
      <4>1. hand'[b][i].kind = k /\ batch'[c][k] = <<>>
        BY <2>2, <2>3, <2>4, <2>6, <3>1
      <4>2. QED
        BY <1>4, <3>1, <4>1
    <3>2. CASE b # a
      <4>1. hand'[b] = hand[b] /\ i \in DOMAIN hand[b]
        BY <2>3, <2>6, <3>2
      <4>2. hand[b][i].kind \in Kinds /\ ClientOf(b) \in Clients
        <5>1. hand[b][i] \in Envelope
          BY <1>1, <4>1, ElementOfSeq, LenProperties
        <5>2. hand[b] # <<>>
          <6>1. DOMAIN <<>> = {}
            OBVIOUS
          <6>2. QED
            BY <4>1, <6>1
        <5>3. ClientOf(b) \in Clients
          BY <5>2, Born, ControlTypes DEF ThreadShape, ClientOf, Actors
        <5>4. QED
          BY <5>1, <5>3 DEF Envelope
      <4>3. Precedes(hand[b][i].items, batch[ClientOf(b)][hand[b][i].kind])
        BY <1>3, <4>1
      <4>4. QED
        BY <1>4, <2>2, <4>1, <4>2, <4>3
    <3>3. QED
      BY <3>1, <3>2
  <2>7. \A b \in Actors : Sorted(hand'[b])
    BY <1>3, <2>3, <2>4
  <2>8. QED
    BY <1>2, <2>5, <2>6, <2>7, OrderParts
<1>7. ASSUME EnqueueNext(a, c) PROVE CaptureOrder'
  <2>1. /\ hand[a] \in Seq(Envelope) /\ hand[a] # <<>> /\ UNCHANGED batch
        /\ hand'[a] = Tail(hand[a]) /\ \A b \in Actors : b = a \/ hand'[b] = hand[b]
    BY <1>1, <1>7 DEF EnqueueNext, batchVars
  <2>2. /\ Sorted(Tail(hand[a]))
        /\ \A i \in DOMAIN Tail(hand[a]) :
              i + 1 \in DOMAIN hand[a] /\ Tail(hand[a])[i] = hand[a][i + 1]
    BY <1>3, <2>1, HandTaken
  <2>3. ASSUME NEW b \in Actors, NEW i \in DOMAIN hand'[b]
        PROVE  \E j \in DOMAIN hand[b] : hand'[b][i] = hand[b][j]
    BY <2>1, <2>2, <2>3
  <2>4. \A b \in Actors : Sorted(hand'[b])
    BY <1>3, <2>1, <2>2
  <2>5. ASSUME NEW b \in Actors, NEW i \in DOMAIN hand'[b]
        PROVE  Precedes(hand'[b][i].items, batch'[ClientOf(b)][hand'[b][i].kind])
    BY <1>3, <2>1, <2>3
  <2>6. QED
    BY <1>2, <1>3, <2>1, <2>4, <2>5, OrderParts
<1>8. CASE DrainEvents(a, c, force) \/ DrainMetrics(a, c, force)
  <2>1. \/ UNCHANGED <<hand, batch>>
        \/ \E k \in Kinds : DrainBatch(a, c, k, force) /\ Ready(c, k, force)
    BY <1>1, <1>8 DEF DrainEvents, DrainMetrics, DrainBatch
  <2>2. QED
    BY <1>5, <1>6, <2>1
<1>9. QED
  BY <1>7, <1>8 DEF Drain

\* Captures stay in their order.
LEMMA OrderStep ==
    ASSUME TelemetryInv, Next
    PROVE  CaptureOrder'
<1>1. ASSUME UNCHANGED <<hand, batch>> PROVE CaptureOrder'
  BY <1>1, OrderKept
<1>2. ASSUME Still PROVE CaptureOrder'
  BY <1>1, <1>2 DEF Still
<1>3. ASSUME NEW t \in Threads, Buffer(t) PROVE CaptureOrder'
  BY <1>1, <1>3 DEF Buffer, batchVars
<1>4. ASSUME NEW t \in Threads, TrackAdds(t) PROVE CaptureOrder'
  <2>1. /\ ref[t] \in Clients /\ op[t] \in Kinds /\ UNCHANGED hand
        /\ Add(ref[t], op[t], items + 1) /\ op[t] \in Tracks
    BY <1>4, Born, ControlTypes DEF TrackAdds, ThreadShape, OpsAt, Tracks
  <2>2. PICK c \in Clients : c = ref[t]
    BY <2>1
  <2>3. PICK k \in Kinds : k = op[t]
    BY <2>1
  <2>4. items + 1 \in Item /\ items \in Nat
    BY <2>1, NextNumber, Numbered DEF Item
  <2>5. \A l \in Spots : \A m \in Held(l) : m < items + 1
    <3>1. \A m \in 1 .. items : m < items + 1
      BY <2>4
    <3>2. QED
      BY <3>1, Numbered
  <2>6. QED
    BY <2>1, <2>2, <2>3, <2>4, <2>5, SpotsAre, AddOrder
<1>5. ASSUME NEW t \in Threads, ThreadDrains(t) PROVE CaptureOrder'
  <2>1. /\ t \in Actors /\ ref[t] \in Clients /\ Drain(t, ref[t], TRUE) /\ ClientOf(t) = ref[t]
        /\ UNCHANGED ref
    BY <1>5, ActorsApart, Born DEF ThreadDrains, callVars
  <2>2. PICK c \in Clients : c = ref[t]
    BY <2>1
  <2>3. QED
    BY <2>1, <2>2, DrainOrder
<1>6. ASSUME NEW t \in Threads, ReplayTrack(t) PROVE CaptureOrder'
  <2>1. /\ ref[t] \in Clients /\ UNCHANGED <<store, hand>> /\ replayed < Len(store.tracks)
        /\ replayed' = replayed + 1 /\ pc[t] = "replay"
    BY <1>6, Born DEF ReplayTrack, drainVars
  <2>2. PICK c \in Clients : c = ref[t]
    BY <2>1
  <2>3. PICK k \in Kinds : k = NextTrack.kind
    BY <2>1, ReplayTaken
  <2>4. NextTrack.n \in ToReplay /\ NextTrack.n \in Item
    BY <2>1, ReplayTaken DEF Item
  <2>5. Add(c, k, NextTrack.n) \/ UNCHANGED batch
    BY <1>6, <2>2, <2>3 DEF ReplayTrack, batchVars
  <2>6. CASE UNCHANGED batch
    BY <1>1, <2>1, <2>6
  <2>7. CASE Add(c, k, NextTrack.n)
    <3>1. \A l \in Spots : OfClient(l, c) => \A m \in Held(l) : m < NextTrack.n
      BY <2>1, <2>2, <2>4 DEF TelemetryInv, ReplayOrder
    <3>2. /\ OfClient(BatchSpot(c, k), c)
          /\ \A a \in Actors : ClientOf(a) = c => OfClient(HandSpot(a), c)
      BY DEF OfClient
    <3>3. QED
      BY <2>1, <2>4, <2>7, <3>1, <3>2, SpotsAre, AddOrder
  <2>8. QED
    BY <2>5, <2>6, <2>7
<1>7. ASSUME NEW t \in Threads, QuitJoins(t) PROVE CaptureOrder'
  <2>1. PICK c \in Clients : c = ref[t]
    BY <1>7, Born DEF QuitJoins
  <2>2. UNCHANGED hand /\ batch' = [batch EXCEPT ![c] = [k \in Kinds |-> <<>>]]
    BY <1>7, <2>1 DEF QuitJoins, drainVars
  <2>3. \A d \in Clients : \A k \in Kinds : batch'[d][k] = batch[d][k] \/ batch'[d][k] = <<>>
    BY <2>2, ControlTypes
  <2>4. QED
    BY <2>2, <2>3, OrderKept
<1>8. ASSUME NEW c \in Clients, WorkerDrains(c) PROVE CaptureOrder'
  <2>1. c \in Actors /\ Drain(c, c, FALSE) /\ ClientOf(c) = c /\ UNCHANGED ref
    BY <1>8, ActorsApart DEF WorkerDrains, callVars
  <2>2. QED
    BY <2>1, DrainOrder
<1>9. ASSUME NEW c \in Clients,
             WorkerTakes(c) \/ PostDropped(c) \/ PostRetried(c) \/ HeartbeatSent(c)
      PROVE  CaptureOrder'
  BY <1>1, <1>9 DEF WorkerTakes, PostDropped, PostRetried, HeartbeatSent, batchVars, drainVars
<1>10. ASSUME NEW c \in Clients, PostDelivered(c) PROVE CaptureOrder'
  <2>1. UNCHANGED hand /\ (Add(c, "metric", Rtt) \/ UNCHANGED batch)
    BY <1>10 DEF PostDelivered, batchVars
  <2>2. "metric" \in Kinds /\ Rtt \in Item
    BY DEF Kinds, Item
  <2>3. QED
    BY <1>1, <2>1, <2>2, AddOrder
<1>11. ASSUME NEW t \in Threads, ThreadMoves(t) PROVE CaptureOrder'
  BY <1>3, <1>4, <1>5, <1>6, <1>7, <1>11 DEF ThreadMoves
<1>12. ASSUME NEW c \in Clients, WorkerMoves(c) PROVE CaptureOrder'
  BY <1>8, <1>9, <1>10, <1>12 DEF WorkerMoves
<1>13. QED
  BY <1>2, <1>11, <1>12, StillSteps DEF Moving

-----------------------------------------------------------------------------
(* The invariant *)

\* tombstone_init has not been called, and nothing is anywhere.
LEMMA NothingHeld ==
    ASSUME Init
    PROVE  \A l \in Spots : Held(l) = {}
<1>1. SUFFICES ASSUME NEW l \in Spots PROVE Held(l) = {}
  OBVIOUS
<1>2. ToReplay = {} /\ done = {}
  BY DEF Init, ToReplay, EmptyStore
<1>3. Captured(<<>>) = {}
  BY DEF Captured
<1>4. \A c \in Clients, k \in Kinds : batch[c][k] = <<>>
  BY DEF Init
<1>5. /\ \A a \in Actors : hand[a] = <<>>
      /\ \A c \in Clients : queue[c] = <<>> /\ inFlight[c] = <<>>
  BY DEF Init
<1>6. CASE l = StoreSpot \/ l = DoneSpot
  BY <1>2, <1>6, HeldAt
<1>7. ASSUME NEW c \in Clients, NEW k \in Kinds, l = BatchSpot(c, k) PROVE Held(l) = {}
  BY <1>3, <1>4, <1>7, HeldAt
<1>8. ASSUME NEW a \in Actors, l = HandSpot(a) PROVE Held(l) = {}
  BY <1>5, <1>8, HeldAt, Lone
<1>9. ASSUME NEW c \in Clients, l = QueueSpot(c) \/ l = PostSpot(c) PROVE Held(l) = {}
  BY <1>5, <1>9, HeldAt, Lone
<1>10. QED
  BY <1>6, <1>7, <1>8, <1>9, SpotsAre

\* The invariant holds before the first call.
LEMMA InitHolds ==
    ASSUME Init
    PROVE  TelemetryInv
<1> USE Numbers, ActorsApart
<1>1. Types
  <2>1. /\ store.tracks = <<>> /\ Len(store.tracks) = 0
        /\ store \in [ tracks : Seq([ n : Items, kind : Kinds ]),
                       consent : {"unset", "grant", "refuse"}, start : BOOLEAN ]
    BY DEF Init, EmptyStore
  <2>2. /\ pc \in [ Threads -> {"idle", "missed", "snapped", "adding", "draining",
                                "init", "replay", "publish", "quit", "join"} ]
        /\ op \in [ Threads -> Tracks \cup Drains \cup Settings \cup {"none", "init"} ]
        /\ ref \in [ Threads -> 0 .. MaxClients ] /\ gClient \in 0 .. MaxClients
        /\ replayed = 0
    BY DEF Init
  <2>3. /\ life \in [ Clients -> {"unborn", "live", "stopping", "gone"} ]
        /\ consent \in [ Clients -> BOOLEAN ] /\ gate \in [ Clients -> BOOLEAN ]
        /\ worker \in [ Clients -> {"none", "drain", "wait", "log", "post", "done"} ]
        /\ stage \in [ Actors -> {"off", "event", "metric", "end"} ]
    BY DEF Init
  <2>4. /\ batch \in [ Clients -> [ Kinds -> Seq(Items \cup {Rtt}) ] ]
        /\ aged \in [ Clients -> [ Kinds -> BOOLEAN ] ]
        /\ \A c \in Clients, k \in Kinds : Len(batch[c][k]) <= MaxBatch
    BY DEF Init
  <2>5. /\ hand \in [ Actors -> Seq(Envelope) ]
        /\ queue \in [ Clients -> Seq(Job) ] /\ inFlight \in [ Clients -> Seq(Job) ]
        /\ \A c \in Clients : Len(queue[c]) <= MaxQueue
    BY DEF Init
  <2>6. /\ calls \in 0 .. MaxCalls /\ items \in 0 .. MaxCalls /\ done \subseteq Items
        /\ owed \in [ Threads -> SUBSET Items ]
        /\ result \in [ Threads -> {"none", "ok", "timeout"} ]
    BY DEF Init
  <2>7. Len(store.tracks) <= MaxTracks /\ replayed \in 0 .. Len(store.tracks)
    BY <2>1, <2>2
  <2> HIDE Numbers, ActorsApart
  <2>8. QED
    BY <2>1, <2>2, <2>3, <2>4, <2>5, <2>6, <2>7 DEF Types
<1>2. AllFit
  BY DEF Init, AllFit
<1>3. Counted
  <2>1. {t \in Threads : op[t] \in Tracks} = {}
    BY DEF Init, Tracks, Kinds
  <2>2. Cardinality({t \in Threads : op[t] \in Tracks}) = 0
    BY <2>1, FS_EmptySet, Zenon
  <2>3. QED
    BY <2>2 DEF Init, Counted
<1>4. ThreadShape
  BY DEF Init, ThreadShape, OpsAt
<1>5. InitShape
  BY DEF Init, InitShape, Initing, NothingStranded
<1>6. ClientShape
  BY DEF Init, ClientShape
<1>7. GateInv
  BY DEF Init, GateInv
<1>8. HeldOnce
  BY NothingHeld DEF Init, HeldOnce
<1>9. QueueApart
  BY DEF Init, QueueApart, Apart
<1>10. StoreOrder
  BY DEF Init, StoreOrder, EmptyStore
<1>11. ReplayOrder
  BY DEF Init, ReplayOrder
<1>12. CaptureOrder
  BY DEF Init, CaptureOrder, InOrder
<1>13. OwedInv
  BY DEF Init, OwedInv
<1>14. QED
  BY <1>1, <1>2, <1>3, <1>4, <1>5, <1>6, <1>7, <1>8, <1>9, <1>10, <1>11, <1>12, <1>13
  DEF TelemetryInv

\* A step that changes nothing keeps it.
LEMMA StutterHolds ==
    ASSUME TelemetryInv, UNCHANGED vars
    PROVE  TelemetryInv'
<1> USE DEF vars, apiVars, callVars, clientVars, batchVars, drainVars, workerVars,
            historyVars, flushVars
<1>0. \A l : Held(l)' = Held(l)
  BY DEF Held, ToReplay
<1>1. Types' /\ AllFit' /\ Counted' 
  BY DEF TelemetryInv, Types, AllFit, Counted
<1>2. ThreadShape' /\ InitShape' /\ ClientShape' /\ GateInv'
  BY DEF TelemetryInv, ThreadShape, InitShape, MutexFree, NothingStranded, ClientShape, GateInv,
         ClientOf
<1>3. HeldOnce' /\ QueueApart' /\ StoreOrder'
  BY <1>0 DEF TelemetryInv, HeldOnce, QueueApart, StoreOrder
<1>4. ReplayOrder' /\ CaptureOrder'
  BY <1>0 DEF TelemetryInv, ReplayOrder, OfClient, CaptureOrder, ClientOf, ToReplay
<1>5. OwedInv'
  BY <1>0 DEF TelemetryInv, OwedInv, Due, ClientOf
<1>6. QED
  BY <1>1, <1>2, <1>3, <1>4, <1>5 DEF TelemetryInv

\* Every step keeps it.
LEMMA TelemetryStep ==
    ASSUME TelemetryInv, [Next]_vars
    PROVE  TelemetryInv'
<1>1. CASE Next
  <2>1. Types' /\ AllFit' /\ Counted'
    BY <1>1, TypesStep, FitStep, CountedStep
  <2>2. ThreadShape' /\ InitShape' /\ ClientShape' /\ GateInv'
    BY <1>1, ThreadStep, InitStep, ClientStep, GateStep
  <2>3. HeldOnce' /\ QueueApart' /\ StoreOrder'
    BY <1>1, HeldStep, StoreStep
  <2>4. ReplayOrder' /\ CaptureOrder' /\ OwedInv'
    BY <1>1, ReplayStep, OrderStep, OwedStep
  <2>5. QED
    BY <2>1, <2>2, <2>3, <2>4 DEF TelemetryInv
<1>2. CASE UNCHANGED vars
  BY <1>2, StutterHolds
<1>3. QED
  BY <1>1, <1>2

\* The inductive invariant holds in every state of the telemetry path: the bookkeeping of
\* the actors, where each item is and in which order, and what a flush still owes.
THEOREM TelemetryHolds == Spec => []TelemetryInv
<1>1. Init => TelemetryInv
  BY InitHolds
<1>2. TelemetryInv /\ [Next]_vars => TelemetryInv'
  BY TelemetryStep
<1>3. QED
  BY <1>1, <1>2, PTL DEF Spec

-----------------------------------------------------------------------------
(* The properties *)

\* What an item of each of the sets in Places says.
LEMMA PlacesMeet ==
    ASSUME TelemetryInv, NEW n \in 1 .. items
    PROVE  /\ \A x \in InStore(n) : n \in Held(StoreSpot)
           /\ \A x \in InBatch(n) : \E c \in Clients, k \in Kinds :
                 /\ n \in Held(BatchSpot(c, k))
                 /\ \E i \in DOMAIN batch[c][k] : x = <<"batch", c, k, i>> /\ batch[c][k][i] = n
           /\ \A x \in InHand(n) : \E a \in Actors :
                 n \in Held(HandSpot(a)) /\ x = <<"hand", a>>
           /\ \A x \in InQueue(n) : \E c \in Clients :
                 /\ n \in Held(QueueSpot(c))
                 /\ \E i \in DOMAIN queue[c] :
                       x = <<"queue", c, i>> /\ n \in Captured(queue[c][i].items)
           /\ \A x \in InFlight(n) : \E c \in Clients :
                 n \in Held(PostSpot(c)) /\ x = <<"post", c>>
           /\ \A x \in IsDone(n) : n \in Held(DoneSpot) /\ x = <<"done">>
<1>0. n # Rtt
  BY DEF Rtt
<1>1. ASSUME NEW x \in InStore(n) PROVE n \in Held(StoreSpot)
  <2>1. store.tracks \in Seq([ n : Items, kind : Kinds ]) /\ replayed \in Nat
    <3>1. store.tracks \in Seq([ n : Items, kind : Kinds ])
      BY DEF TelemetryInv, Types
    <3>2. QED
      BY <3>1, LenProperties DEF TelemetryInv, Types
  <2>2. DOMAIN store.tracks = 1 .. Len(store.tracks) /\ Len(store.tracks) \in Nat
    BY <2>1, LenProperties
  <2>3. PICK j \in DOMAIN store.tracks : j > replayed /\ store.tracks[j].n = n
    BY <1>1 DEF InStore
  <2>4. j \in (replayed + 1) .. Len(store.tracks)
    BY <2>1, <2>2, <2>3
  <2>5. QED
    BY <2>3, <2>4, HeldAt DEF ToReplay
<1>2. ASSUME NEW x \in InBatch(n)
      PROVE  \E c \in Clients, k \in Kinds :
                /\ n \in Held(BatchSpot(c, k))
                /\ \E i \in DOMAIN batch[c][k] : x = <<"batch", c, k, i>> /\ batch[c][k][i] = n
  <2>1. PICK c \in Clients, k \in Kinds :
           x \in { <<"batch", c, k, i>> : i \in {j \in DOMAIN batch[c][k] : batch[c][k][j] = n} }
    BY <1>2 DEF InBatch
  <2>2. PICK i \in DOMAIN batch[c][k] : x = <<"batch", c, k, i>> /\ batch[c][k][i] = n
    BY <2>1
  <2>3. n \in Captured(batch[c][k])
    BY <1>0, <2>2 DEF Captured
  <2>4. QED
    BY <2>2, <2>3, HeldAt
<1>3. ASSUME NEW x \in InHand(n)
      PROVE  \E a \in Actors : n \in Held(HandSpot(a)) /\ x = <<"hand", a>>
  BY <1>3, HeldAt DEF InHand
<1>4. ASSUME NEW x \in InQueue(n)
      PROVE  \E c \in Clients :
                /\ n \in Held(QueueSpot(c))
                /\ \E i \in DOMAIN queue[c] :
                      x = <<"queue", c, i>> /\ n \in Captured(queue[c][i].items)
  <2>1. PICK c \in Clients :
           x \in { <<"queue", c, i>> :
                     i \in {j \in DOMAIN queue[c] : n \in Range(queue[c][j].items)} }
    BY <1>4 DEF InQueue
  <2>2. PICK i \in DOMAIN queue[c] : x = <<"queue", c, i>> /\ n \in Range(queue[c][i].items)
    BY <2>1
  <2>3. n \in Captured(queue[c][i].items)
    BY <1>0, <2>2 DEF Captured, Range
  <2>4. n \in ItemsOf(queue[c])
    BY <2>3, ItemsHeld
  <2>5. QED
    BY <2>2, <2>3, <2>4, HeldAt
<1>5. ASSUME NEW x \in InFlight(n)
      PROVE  \E c \in Clients : n \in Held(PostSpot(c)) /\ x = <<"post", c>>
  BY <1>5, HeldAt DEF InFlight
<1>6. ASSUME NEW x \in IsDone(n) PROVE n \in Held(DoneSpot) /\ x = <<"done">>
  BY <1>6, HeldAt DEF IsDone
<1>7. QED
  BY <1>1, <1>2, <1>3, <1>4, <1>5, <1>6

\* An item that is held somewhere has a place there.
LEMMA HeldPlaces ==
    ASSUME TelemetryInv, NEW n \in 1 .. items
    PROVE  Places(n) # {}
<1>1. PICK l \in Spots : n \in Held(l)
  BY DEF TelemetryInv, HeldOnce
<1>2. CASE l = StoreSpot
  <2>1. store.tracks \in Seq([ n : Items, kind : Kinds ]) /\ replayed \in Nat
    <3>1. store.tracks \in Seq([ n : Items, kind : Kinds ])
      BY DEF TelemetryInv, Types
    <3>2. QED
      BY <3>1, LenProperties DEF TelemetryInv, Types
  <2>2. DOMAIN store.tracks = 1 .. Len(store.tracks) /\ Len(store.tracks) \in Nat
    BY <2>1, LenProperties
  <2>3. n \in ToReplay
    BY <1>1, <1>2, HeldAt
  <2>4. PICK j \in (replayed + 1) .. Len(store.tracks) : store.tracks[j].n = n
    BY <2>3 DEF ToReplay
  <2>5. j \in DOMAIN store.tracks /\ j > replayed
    BY <2>1, <2>2, <2>4
  <2>6. <<"store", j>> \in InStore(n)
    BY <2>4, <2>5 DEF InStore
  <2>7. QED
    BY <2>6 DEF Places
<1>3. CASE l = DoneSpot
  <2>1. <<"done">> \in IsDone(n)
    BY <1>1, <1>3, HeldAt DEF IsDone
  <2>2. QED
    BY <2>1 DEF Places
<1>4. ASSUME NEW c \in Clients, NEW k \in Kinds, l = BatchSpot(c, k) PROVE Places(n) # {}
  <2>1. n \in Captured(batch[c][k])
    BY <1>1, <1>4, HeldAt
  <2>2. PICK i \in DOMAIN batch[c][k] : batch[c][k][i] = n
    BY <2>1 DEF Captured
  <2>3. <<"batch", c, k, i>> \in
           { <<"batch", c, k, m>> : m \in {j \in DOMAIN batch[c][k] : batch[c][k][j] = n} }
    BY <2>2
  <2>4. <<"batch", c, k, i>> \in InBatch(n)
    <3> DEFINE At(d, b) ==
            { <<"batch", d, b, m>> : m \in {j \in DOMAIN batch[d][b] : batch[d][b][j] = n} }
    <3>1. InBatch(n) = UNION {At(d, b) : d \in Clients, b \in Kinds}
      BY DEF InBatch
    <3>2. <<"batch", c, k, i>> \in At(c, k)
      BY <2>3
    <3> HIDE DEF At
    <3>3. At(c, k) \in {At(d, b) : d \in Clients, b \in Kinds}
      BY <1>4
    <3>4. QED
      BY <3>1, <3>2, <3>3
  <2>5. QED
    BY <2>4 DEF Places
<1>5. ASSUME NEW a \in Actors, l = HandSpot(a) PROVE Places(n) # {}
  <2>1. <<"hand", a>> \in InHand(n)
    BY <1>1, <1>5, HeldAt DEF InHand
  <2>2. QED
    BY <2>1 DEF Places
<1>6. ASSUME NEW c \in Clients, l = QueueSpot(c) PROVE Places(n) # {}
  <2>1. PICK i \in DOMAIN queue[c] : n \in Captured(queue[c][i].items)
    BY <1>1, <1>6, HeldAt, ItemsHeld
  <2>2. n \in Range(queue[c][i].items)
    BY <2>1 DEF Captured, Range
  <2>3. <<"queue", c, i>> \in
           { <<"queue", c, m>> :
               m \in {j \in DOMAIN queue[c] : n \in Range(queue[c][j].items)} }
    BY <2>2
  <2>4. <<"queue", c, i>> \in InQueue(n)
    BY <1>6, <2>3 DEF InQueue
  <2>5. QED
    BY <2>4 DEF Places
<1>7. ASSUME NEW c \in Clients, l = PostSpot(c) PROVE Places(n) # {}
  <2>1. <<"post", c>> \in InFlight(n)
    BY <1>1, <1>7, HeldAt DEF InFlight
  <2>2. QED
    BY <2>1 DEF Places
<1>8. QED
  BY <1>1, <1>2, <1>3, <1>4, <1>5, <1>6, <1>7, SpotsAre

\* The order of the store and of a batch, and the disjoint envelopes of a queue, leave an
\* item one index there.
LEMMA OneIndex ==
    ASSUME TelemetryInv, NEW n \in 1 .. items
    PROVE  /\ \A x, y \in InStore(n) : x = y
           /\ \A c \in Clients, k \in Kinds : \A i, j \in DOMAIN batch[c][k] :
                 batch[c][k][i] = n /\ batch[c][k][j] = n => i = j
           /\ \A c \in Clients : \A i, j \in DOMAIN queue[c] :
                 n \in Captured(queue[c][i].items) /\ n \in Captured(queue[c][j].items) => i = j
<1>0. n # Rtt /\ n \in Nat
  BY DEF Rtt
<1>1. ASSUME NEW x \in InStore(n), NEW y \in InStore(n) PROVE x = y
  <2>1. store.tracks \in Seq([ n : Items, kind : Kinds ])
    BY DEF TelemetryInv, Types
  <2>2. DOMAIN store.tracks \subseteq Nat
    BY <2>1, LenProperties
  <2>3. PICK i \in DOMAIN store.tracks : x = <<"store", i>> /\ store.tracks[i].n = n
    BY <1>1 DEF InStore
  <2>4. PICK j \in DOMAIN store.tracks : y = <<"store", j>> /\ store.tracks[j].n = n
    BY <1>1 DEF InStore
  <2>5. ~ (i < j) /\ ~ (j < i)
    BY <1>0, <2>3, <2>4 DEF TelemetryInv, StoreOrder
  <2>6. QED
    BY <2>2, <2>3, <2>4, <2>5
<1>2. ASSUME NEW c \in Clients, NEW k \in Kinds,
             NEW i \in DOMAIN batch[c][k], NEW j \in DOMAIN batch[c][k],
             batch[c][k][i] = n, batch[c][k][j] = n
      PROVE  i = j
  <2>1. batch[c][k] \in Seq(Items \cup {Rtt})
    BY DEF TelemetryInv, Types
  <2>2. i \in Nat /\ j \in Nat
    BY <2>1, LenProperties
  <2>3. InOrder(batch[c][k])
    BY DEF TelemetryInv, CaptureOrder
  <2>4. ~ (i < j) /\ ~ (j < i)
    BY <1>0, <1>2, <2>3 DEF InOrder
  <2>5. QED
    BY <2>2, <2>4
<1>3. ASSUME NEW c \in Clients, NEW i \in DOMAIN queue[c], NEW j \in DOMAIN queue[c],
             n \in Captured(queue[c][i].items), n \in Captured(queue[c][j].items)
      PROVE  i = j
  BY <1>3 DEF TelemetryInv, QueueApart, Apart
<1>4. QED
  BY <1>1, <1>2, <1>3

\* It has one place only.
LEMMA PlacesEqual ==
    ASSUME TelemetryInv, NEW n \in 1 .. items, NEW x \in Places(n), NEW y \in Places(n)
    PROVE  x = y
<1>1. PICK l \in Spots : n \in Held(l)
  BY DEF TelemetryInv, HeldOnce
<1>2. \A m \in Spots : n \in Held(m) => m = l
  BY <1>1 DEF TelemetryInv, HeldOnce
<1>3. ASSUME NEW z \in Places(n)
      PROVE  \/ z \in InStore(n) /\ l = StoreSpot
             \/ \E c \in Clients, k \in Kinds :
                  /\ l = BatchSpot(c, k)
                  /\ \E i \in DOMAIN batch[c][k] : z = <<"batch", c, k, i>> /\ batch[c][k][i] = n
             \/ \E a \in Actors : l = HandSpot(a) /\ z = <<"hand", a>>
             \/ \E c \in Clients :
                  /\ l = QueueSpot(c)
                  /\ \E i \in DOMAIN queue[c] :
                        z = <<"queue", c, i>> /\ n \in Captured(queue[c][i].items)
             \/ \E c \in Clients : l = PostSpot(c) /\ z = <<"post", c>>
             \/ l = DoneSpot /\ z = <<"done">>
  <2>1. CASE z \in InStore(n)
    BY <1>2, <2>1, PlacesMeet, SpotsAre
  <2>2. CASE z \in InBatch(n)
    BY <1>2, <2>2, PlacesMeet, SpotsAre
  <2>3. CASE z \in InHand(n)
    BY <1>2, <2>3, PlacesMeet, SpotsAre
  <2>4. CASE z \in InQueue(n)
    BY <1>2, <2>4, PlacesMeet, SpotsAre
  <2>5. CASE z \in InFlight(n)
    BY <1>2, <2>5, PlacesMeet, SpotsAre
  <2>6. CASE z \in IsDone(n)
    BY <1>2, <2>6, PlacesMeet, SpotsAre
  <2>7. QED
    BY <1>3, <2>1, <2>2, <2>3, <2>4, <2>5, <2>6 DEF Places
<1>4. CASE l = StoreSpot
  <2>1. x \in InStore(n) /\ y \in InStore(n)
    BY <1>3, <1>4, SpotsApart
  <2>2. QED
    BY <2>1, OneIndex
<1>5. CASE l = DoneSpot
  BY <1>3, <1>5, SpotsApart
<1>6. ASSUME NEW c \in Clients, NEW k \in Kinds, l = BatchSpot(c, k) PROVE x = y
  <2>1. ASSUME NEW z \in Places(n)
        PROVE  \E i \in DOMAIN batch[c][k] : z = <<"batch", c, k, i>> /\ batch[c][k][i] = n
    BY <1>3, <1>6, <2>1, SpotsApart
  <2>2. PICK i \in DOMAIN batch[c][k] : x = <<"batch", c, k, i>> /\ batch[c][k][i] = n
    BY <2>1
  <2>3. PICK j \in DOMAIN batch[c][k] : y = <<"batch", c, k, j>> /\ batch[c][k][j] = n
    BY <2>1
  <2>4. i = j
    BY <2>2, <2>3, OneIndex
  <2>5. QED
    BY <2>2, <2>3, <2>4
<1>7. ASSUME NEW a \in Actors, l = HandSpot(a) PROVE x = y
  BY <1>3, <1>7, SpotsApart
<1>8. ASSUME NEW c \in Clients, l = QueueSpot(c) PROVE x = y
  <2>1. ASSUME NEW z \in Places(n)
        PROVE  \E i \in DOMAIN queue[c] :
                  z = <<"queue", c, i>> /\ n \in Captured(queue[c][i].items)
    BY <1>3, <1>8, <2>1, SpotsApart
  <2>2. PICK i \in DOMAIN queue[c] :
           x = <<"queue", c, i>> /\ n \in Captured(queue[c][i].items)
    BY <2>1
  <2>3. PICK j \in DOMAIN queue[c] :
           y = <<"queue", c, j>> /\ n \in Captured(queue[c][j].items)
    BY <2>1
  <2>4. i = j
    BY <2>2, <2>3, OneIndex
  <2>5. QED
    BY <2>2, <2>3, <2>4
<1>9. ASSUME NEW c \in Clients, l = PostSpot(c) PROVE x = y
  BY <1>3, <1>9, SpotsApart
<1>10. QED
  BY <1>4, <1>5, <1>6, <1>7, <1>8, <1>9, SpotsAre

\* Every item that the SDK accepted is in exactly one of the pre-init store, the batches,
\* the hands of those who drain, the queues, the jobs in flight and what is answered or
\* dropped: no race of a capture with init, replay, a drain, a flush or a re-init loses or
\* doubles it.
THEOREM InOnePlace == Spec => []OnePlace
<1>1. TelemetryInv => OnePlace
  <2>1. SUFFICES ASSUME TelemetryInv, NEW n \in 1 .. items PROVE Cardinality(Places(n)) = 1
    BY DEF OnePlace
  <2>2. PICK x : x \in Places(n)
    BY <2>1, HeldPlaces
  <2>3. \A y \in Places(n) : y = x
    BY <2>1, <2>2, PlacesEqual
  <2>4. Places(n) = {x}
    BY <2>2, <2>3
  <2>5. QED
    BY <2>4, FS_Singleton
<1>2. QED
  BY <1>1, TelemetryHolds, PTL

\* Every variable has its type, and the bounds of the store, the batches, the queue and
\* the envelopes hold: Envelopes never cuts one beyond max_batch_bytes unless of one item.
THEOREM TelemetryTypes == Spec => []TypeOK
<1>1. TelemetryInv => EnvelopesFit
  <2>1. SUFFICES ASSUME TelemetryInv,
                        NEW s \in Range(hand) \cup Range(queue) \cup Range(inFlight),
                        NEW e \in Range(s)
                 PROVE  Fitting(e)
    BY DEF EnvelopesFit, Fitting
  <2>2. DOMAIN hand = Actors /\ DOMAIN queue = Clients /\ DOMAIN inFlight = Clients
    BY <2>1, ControlTypes
  <2>3. PICK i \in DOMAIN s : e = s[i]
    BY DEF Range
  <2>4. CASE s \in Range(hand)
    BY <2>1, <2>2, <2>3, <2>4 DEF Range, TelemetryInv, AllFit
  <2>5. CASE s \in Range(queue)
    BY <2>1, <2>2, <2>3, <2>5 DEF Range, TelemetryInv, AllFit
  <2>6. CASE s \in Range(inFlight)
    BY <2>1, <2>2, <2>3, <2>6 DEF Range, TelemetryInv, AllFit
  <2>7. QED
    BY <2>4, <2>5, <2>6
<1>2. TelemetryInv => TypeOK
  <2>1. SUFFICES ASSUME TelemetryInv PROVE TypeOK
    OBVIOUS
  <2>2. Types
    BY <2>1 DEF TelemetryInv
  <2>3. /\ store.tracks \in Seq([ n : Items, kind : Kinds ])
        /\ store.consent \in {"unset", "grant", "refuse"} /\ store.start \in BOOLEAN
    BY <2>2 DEF Types
  <2>4. replayed \in 0 .. MaxTracks
    <3>1. Len(store.tracks) \in Nat
      BY <2>3, LenProperties
    <3>2. QED
      BY <2>2, <3>1, Numbers DEF Types
  <2>5. EnvelopesFit
    BY <1>1, <2>1
  <2>6. QED
    BY <2>2, <2>3, <2>4, <2>5 DEF Types, TypeOK
<1>3. QED
  BY <1>2, TelemetryHolds, PTL

\* While a client is published the pre-init store is empty: no call that raced with
\* tombstone_init leaves anything there for the next session to replay.
THEOREM StoreIsEmptied == Spec => []NothingStranded
<1>1. TelemetryInv => NothingStranded
  BY DEF TelemetryInv, InitShape
<1>2. QED
  BY <1>1, TelemetryHolds, PTL

\* Captures stay in the order in which they were accepted, across the replay of the
\* pre-init store and the cut of a batch into envelopes.
THEOREM OrderHolds == Spec => []CaptureOrder
<1>1. TelemetryInv => CaptureOrder
  BY DEF TelemetryInv
<1>2. QED
  BY <1>1, TelemetryHolds, PTL

\* Until its start gate opens, nothing has left the batches of a client, whoever drains.
THEOREM GateIsKept == Spec => []GateHolds
<1>1. TelemetryInv => GateHolds
  BY ActorsApart DEF TelemetryInv, GateInv, GateHolds
<1>2. QED
  BY <1>1, TelemetryHolds, PTL

\* A flush leaves its drain by returning.
LEMMA FlushLeaves ==
    ASSUME TelemetryInv, Next, NEW t \in Threads, Flushing(t), pc'[t] # "draining"
    PROVE  FlushReturns(t)
<1> USE ControlTypes, ActorsApart
<1> USE DEF vars, apiVars, callVars, clientVars, batchVars, drainVars, workerVars, historyVars,
            flushVars, Flushing
<1>1. pc'[t] # pc[t]
  BY Zenon
<1>2. CASE UNCHANGED vars
  BY <1>1, <1>2
<1>3. ASSUME NEW u \in Threads, NEW o \in Tracks \cup Drains \cup Settings, Call(u, o)
      PROVE  FALSE
  BY <1>1, <1>3 DEF Call
<1>4. ASSUME NEW u \in Threads, InitClient(u) \/ Shutdown(u) \/ Retake(u) \/ TrackPasses(u)
      PROVE  FALSE
  BY <1>1, <1>4 DEF InitClient, Shutdown, Retake, TrackPasses
<1>5. ASSUME NEW u \in Threads,
             Buffer(u) \/ TrackIgnored(u) \/ TrackAdds(u) \/ Choose(u) \/ CrashIgnored(u)
      PROVE  FALSE
  BY <1>1, <1>5 DEF Buffer, TrackIgnored, TrackAdds, Choose, CrashIgnored, Return
<1>6. ASSUME NEW u \in Threads, BeginDrain(u) \/ ThreadDrains(u) \/ CrashReturns(u)
      PROVE  FALSE
  BY <1>1, <1>6 DEF BeginDrain, ThreadDrains, CrashReturns, Return
<1>7. ASSUME NEW u \in Threads,
             ReplayConsent(u) \/ ReplayTrack(u) \/ ReplayStart(u) \/ Publish(u)
      PROVE  FALSE
  BY <1>1, <1>7 DEF ReplayConsent, ReplayTrack, ReplayStart, Publish
<1>8. ASSUME NEW u \in Threads, QuitStops(u) \/ QuitJoins(u)
      PROVE  FALSE
  BY <1>1, <1>8 DEF QuitStops, QuitJoins
<1>9. ASSUME NEW c \in Clients,
             \/ WorkerDrains(c) \/ WorkerDrained(c) \/ WorkerFlushesLog(c)
             \/ WorkerTakes(c) \/ WorkerIdles(c) \/ WorkerExits(c)
             \/ PostDelivered(c) \/ PostDropped(c) \/ PostRetried(c) \/ HeartbeatSent(c)
      PROVE  FALSE
  <2>1. UNCHANGED pc
    BY <1>9 DEF WorkerDrains, WorkerDrained, WorkerFlushesLog, WorkerTakes, WorkerIdles,
                WorkerExits, PostDelivered, PostDropped, PostRetried, HeartbeatSent
  <2>2. QED
    BY <1>1, <2>1
<1>10. ASSUME NEW c \in Clients, NEW k \in Kinds, Age(c, k) PROVE FALSE
  BY <1>1, <1>10 DEF Age
<1>11. ASSUME NEW u \in Threads, FlushReturns(u) PROVE FlushReturns(t)
  BY <1>1, <1>11 DEF FlushReturns, Return
<1>12. QED
  BY NextCases, <1>2, <1>3, <1>4, <1>5, <1>6, <1>7, <1>8, <1>9, <1>10, <1>11

\* When tombstone_flush returns OK, all that the batches held at the call is answered or
\* dropped, except what another had drained before and has yet to enqueue.
THEOREM FlushedIsSent == Spec => FlushOkMeansSent
<1> DEFINE Sent(t) ==
        pc[t] = "draining" /\ op[t] = "flush" /\ pc'[t] # "draining" /\ result'[t] = "ok" =>
          \A n \in owed[t] : n \in done \/ \E a \in Actors \ {t} : n \in ItemsOf(hand[a])
<1>1. ASSUME TelemetryInv, [Next]_vars, NEW t \in Threads PROVE Sent(t)
  <2>1. SUFFICES ASSUME Flushing(t), pc'[t] # "draining", result'[t] = "ok", NEW n \in owed[t]
                 PROVE  n \in done \/ \E a \in Actors \ {t} : n \in ItemsOf(hand[a])
    BY DEF Flushing
  <2>2. ~ UNCHANGED vars
    BY <2>1 DEF Flushing, vars, callVars
  <2>3. FlushReturns(t)
    BY <1>1, <2>1, <2>2, FlushLeaves
  <2>4. result \in [Threads -> {"none", "ok", "timeout"}]
    BY <1>1 DEF TelemetryInv, Types
  <2>5. AllSent(ref[t]) /\ Drained(t)
    BY <2>1, <2>3, <2>4 DEF FlushReturns
  <2>6. queue[ref[t]] = <<>> /\ inFlight[ref[t]] = <<>> /\ stage[t] = "end" /\ hand[t] = <<>>
    BY <2>5 DEF AllSent, Drained
  <2>7. PICK l \in Spots : Due(l, t) /\ n \in Held(l)
    BY <1>1, <2>1 DEF TelemetryInv, OwedInv, Flushing
  <2>8. CASE l = DoneSpot
    BY <2>7, <2>8, HeldAt
  <2>9. CASE l = QueueSpot(ref[t]) \/ l = PostSpot(ref[t])
    BY <2>6, <2>7, <2>9, HeldAt, Lone
  <2>10. ASSUME NEW a \in Actors, l = HandSpot(a)
         PROVE  \E b \in Actors \ {t} : n \in ItemsOf(hand[b])
    BY <2>6, <2>7, <2>10, HeldAt, Lone
  <2>11. QED
    BY <2>6, <2>7, <2>8, <2>9, <2>10 DEF Due
<1>2. TelemetryInv /\ [Next]_vars => [\A t \in Threads : Sent(t)]_vars
  BY <1>1
<1>3. QED
  BY <1>2, TelemetryHolds, PTL DEF Spec, FlushOkMeansSent
=============================================================================

--------------------------- MODULE HeartbeatProofs ---------------------------
(***************************************************************************)
(* Proofs about Heartbeat, for every set of users, devices and maps and    *)
(* every number of beats outstanding: what stops being carried has been    *)
(* delivered, and nothing of one player rides the beat of another.         *)
(***************************************************************************)
EXTENDS Heartbeat, SequenceTheorems, FiniteSetTheorems, TLAPS

-----------------------------------------------------------------------------
(* The inductive invariant *)

\* The worker holds one beat at most, and a beat is begun only where it has room.
OneFlying ==
    /\ flying = {} \/ \E beat \in flying : flying = {beat}
    /\ building # "no" => Outstanding < MaxOutstanding

\* Only a real user has a pending merge marker, no beat is of a later login than the
\* current one, and the map always belongs to the current login.
LoginInv ==
    /\ pending => user # Nobody
    /\ \A beat \in Beats : beat.login <= epoch
    /\ owner = epoch
    /\ PlayersStayApart

\* A marker stamped while no beat was out rides every beat since, and is merged from
\* the moment the first of them is delivered.
MarkerInv ==
    "stamp" \notin mishaps =>
       /\ user # Nobody /\ ~pending => merged
       /\ pending /\ acking # "no" => merged
       /\ pending => \A beat \in Beats : beat.prior /\ beat.login >= stamped

\* The beats whose device has been filled in.
DeviceKnown ==
    {queue[i] : i \in DOMAIN queue} \cup flying
      \cup (IF building \in {"map", "carry", "send"} THEN {draft} ELSE {})

\* A device set while no beat was out is in every beat built since, unless the client
\* had been told it was sent; the server has it from the first delivery on.
DeviceInv ==
    /\ building \in {"flag", "device"} => draft.device = NoDevice
    /\ "device" \notin mishaps =>
          /\ \A beat \in DeviceKnown :
                beat.device = device \/ (beat.device = NoDevice /\ deviceSent)
          /\ (deviceSent \/ acking # "no") /\ arming # "sent" /\ device # NoDevice
                => serverDevice = device

\* The beat brings a map to u.
Carries(beat, u) == beat.user = u /\ beat.map # Nothing

\* The map the server will have for u when every beat now out has been delivered.
WillHave(u, m) ==
    IF building # "no" /\ Carries(draft, u) THEN draft.map = m
    ELSE IF \E n \in DOMAIN queue : Carries(queue[n], u)
    THEN \E n \in DOMAIN queue :
            /\ Carries(queue[n], u) /\ queue[n].map = m
            /\ \A k \in DOMAIN queue : k > n => ~ Carries(queue[k], u)
    ELSE IF acking = "no" /\ \E beat \in flying : Carries(beat, u)
    THEN \A beat \in flying : beat.map = m
    ELSE serverMap[u] = m

\* What will be committed, or was, is what the server will have.
MapInv ==
    /\ building \in {"flag", "device", "map"} => draft.map = Nothing
    /\ mishaps \cap {"lost", "login"} = {} =>
          /\ building # "no" => draft.user = user
          /\ mapInFlight # Nothing => Busy
          /\ mapInFlight # Nothing /\ epochInFlight = epoch => WillHave(user, mapInFlight)
          /\ baseline # Empty =>
                \/ mapInFlight = Nothing /\ WillHave(user, baseline)
                \/ mapInFlight # Nothing /\ epochInFlight = epoch

\* The inductive invariant.
HeartbeatInv == TypeOK /\ OneFlying /\ LoginInv /\ MarkerInv /\ DeviceInv /\ MapInv

-----------------------------------------------------------------------------
(* Types, and the beats outstanding *)

\* Every step is one of these.
LEMMA NextCases ==
    Next => \/ \E on \in BOOLEAN : SetCapturing(on)
            \/ \E next \in Users \cup {Nobody} : SetUser(next)
            \/ \E m \in Maps \cup {Empty} : SetMap(m)
            \/ \E d \in Devices \cup {NoDevice} : SetDevice(d)
            \/ Arm \/ Over
            \/ SnapshotUser \/ LoadDeviceFlag \/ SnapshotDevice \/ SnapshotMap \/ RaiseCarry
            \/ EnqueueBeat \/ TakeBeat \/ Delivered
            \/ \E reached \in BOOLEAN : Lost(reached)
            \/ AckDevice \/ AckDeviceSent \/ AckPrior \/ AckMap
BY DEF Next, ApiStep, BuildStep, WorkStep

\* How many beats are out, in each shape of the worker's hand.
LEMMA FlyingCount ==
    ASSUME TypeOK, OneFlying
    PROVE  /\ Cardinality(flying) = IF flying = {} THEN 0 ELSE 1
           /\ Len(queue) \in Nat /\ DOMAIN queue = 1 .. Len(queue)
           /\ Outstanding \in Nat /\ MaxOutstanding \in Nat
           /\ Busy <=> building # "no" \/ queue # <<>> \/ flying # {}
<1>1. Cardinality(flying) = IF flying = {} THEN 0 ELSE 1
  <2>1. CASE flying = {}
    BY <2>1, FS_EmptySet
  <2>2. CASE flying # {}
    <3>1. PICK beat \in flying : flying = {beat}
      BY <2>2 DEF OneFlying
    <3>2. Cardinality({beat}) = 1
      BY FS_Singleton
    <3>3. QED
      BY <2>2, <3>1, <3>2
  <2>3. QED
    BY <2>1, <2>2
<1>2. Len(queue) \in Nat /\ DOMAIN queue = 1 .. Len(queue) /\ MaxOutstanding \in Nat
  BY LenProperties, HeartbeatAssumption DEF TypeOK, HeartbeatAssumption
<1>3. Outstanding \in Nat
  BY <1>1, <1>2 DEF Outstanding
<1>4. Outstanding > 0 <=> queue # <<>> \/ flying # {}
  <2>1. Len(queue) = 0 <=> queue = <<>>
    BY EmptySeq DEF TypeOK
  <2>2. CASE flying = {}
    BY <1>1, <1>2, <2>1, <2>2 DEF Outstanding
  <2>3. CASE flying # {}
    BY <1>1, <1>2, <2>3 DEF Outstanding
  <2>4. QED
    BY <2>2, <2>3
<1>5. QED
  BY <1>1, <1>2, <1>3, <1>4 DEF Busy

\* One step keeps the beats within their bound, and one at most with the worker.
LEMMA OneFlyingStep ==
    ASSUME TypeOK, OneFlying, Next
    PROVE  /\ OneFlying' /\ queue' \in Seq(Beat) /\ flying' \subseteq Beat
           /\ Cardinality(flying') <= 1 /\ Outstanding' <= MaxOutstanding
           /\ acking' # "no" => flying' # {}
<1>a. /\ Cardinality(flying) = IF flying = {} THEN 0 ELSE 1
      /\ Len(queue) \in Nat /\ Outstanding \in Nat /\ MaxOutstanding \in Nat
      /\ Outstanding = Len(queue) + Cardinality(flying)
      /\ queue \in Seq(Beat) /\ flying \subseteq Beat /\ draft \in Beat
      /\ Outstanding <= MaxOutstanding
      /\ acking # "no" => flying # {}
  BY FlyingCount DEF Outstanding, TypeOK
<1>b. Cardinality({}) = 0 /\ \A beat : Cardinality({beat}) = 1
  BY FS_EmptySet, FS_Singleton
<1>1. ASSUME UNCHANGED <<queue, flying>>, acking' # "no" => flying # {},
             building' # "no" => building # "no" \/ Outstanding < MaxOutstanding
      PROVE  /\ OneFlying' /\ queue' \in Seq(Beat) /\ flying' \subseteq Beat
             /\ Cardinality(flying') <= 1 /\ Outstanding' <= MaxOutstanding
             /\ acking' # "no" => flying' # {}
  <2>1. Outstanding' = Outstanding
    BY <1>1 DEF Outstanding
  <2>2. OneFlying'
    BY <1>1, <2>1 DEF OneFlying
  <2>3. Cardinality(flying) <= 1
    BY <1>a
  <2>4. QED
    BY <1>1, <1>a, <2>1, <2>2, <2>3
<1>2. CASE \/ \E on \in BOOLEAN : SetCapturing(on)
           \/ \E next \in Users \cup {Nobody} : SetUser(next)
           \/ \E m \in Maps \cup {Empty} : SetMap(m)
           \/ \E d \in Devices \cup {NoDevice} : SetDevice(d)
           \/ Arm \/ Over
  <2>1. UNCHANGED <<queue, flying, acking, building>>
    BY <1>2 DEF SetCapturing, SetUser, SetMap, SetDevice, Call, Arm, Over, vars, workVars, beatVars
  <2>2. QED
    BY <1>1, <1>a, <2>1
<1>3. CASE SnapshotUser \/ LoadDeviceFlag \/ SnapshotDevice \/ SnapshotMap \/ RaiseCarry
  <2>1. /\ UNCHANGED <<queue, flying, acking>>
        /\ building # "no" \/ Outstanding < MaxOutstanding
    BY <1>3 DEF SnapshotUser, LoadDeviceFlag, SnapshotDevice, SnapshotMap, RaiseCarry, unbuilt,
                workVars
  <2>2. QED
    BY <1>1, <1>a, <2>1
<1>4. CASE Delivered \/ AckDevice \/ AckDeviceSent \/ AckPrior
  <2>1. UNCHANGED <<queue, flying, building>> /\ flying # {}
    BY <1>4, <1>a DEF Delivered, AckDevice, AckDeviceSent, AckPrior, unacked, beatVars
  <2>2. QED
    BY <1>1, <1>a, <2>1
<1>5. CASE EnqueueBeat
  <2>1. /\ queue' = Append(queue, draft) /\ UNCHANGED <<flying, acking>>
        /\ building = "send" /\ building' = "no"
    BY <1>5 DEF EnqueueBeat
  <2>2. queue' \in Seq(Beat) /\ Len(queue') = Len(queue) + 1
    BY <1>a, <2>1, AppendProperties
  <2>3. Outstanding' = Len(queue') + Cardinality(flying)
    BY <2>1 DEF Outstanding
  <2>4. Outstanding' = Outstanding + 1
    BY <1>a, <2>2, <2>3
  <2>5. Outstanding < MaxOutstanding
    BY <2>1 DEF OneFlying
  <2>6. Outstanding' <= MaxOutstanding /\ Cardinality(flying) <= 1
    BY <1>a, <2>4, <2>5
  <2>7. OneFlying'
    BY <2>1 DEF OneFlying
  <2>8. QED
    BY <1>a, <2>1, <2>2, <2>6, <2>7
<1>6. CASE TakeBeat
  <2>1. /\ flying = {} /\ queue # <<>> /\ flying' = {Head(queue)} /\ queue' = Tail(queue)
        /\ UNCHANGED <<acking, building>>
    BY <1>6 DEF TakeBeat, beatVars
  <2>2. /\ Head(queue) \in Beat /\ Tail(queue) \in Seq(Beat)
        /\ Len(Tail(queue)) = Len(queue) - 1
    BY <1>a, <2>1, HeadTailProperties
  <2>3. Cardinality(flying') = 1 /\ Len(queue') = Len(queue) - 1
    BY <1>b, <2>1, <2>2
  <2>4. Outstanding' = Len(queue') + Cardinality(flying') /\ Cardinality(flying) = 0
    BY <1>a, <2>1 DEF Outstanding
  <2>5. Outstanding' = Outstanding
    BY <1>a, <2>3, <2>4
  <2>6. OneFlying'
    BY <2>1, <2>5 DEF OneFlying
  <2>7. QED
    BY <1>a, <2>1, <2>2, <2>3, <2>5, <2>6
<1>7. CASE AckMap \/ \E reached \in BOOLEAN : Lost(reached)
  <2>1. flying' = {} /\ UNCHANGED <<queue, building>> /\ acking' = "no"
    BY <1>7 DEF AckMap, Lost, unacked, beatVars
  <2>2. Outstanding' = Len(queue) + 0
    BY <1>b, <2>1 DEF Outstanding
  <2>3. Outstanding' <= Outstanding /\ Outstanding' \in Nat
    BY <1>a, <2>2
  <2>4. Outstanding' <= MaxOutstanding
    BY <1>a, <2>3
  <2>5. building' # "no" => Outstanding' < MaxOutstanding
    BY <1>a, <2>1, <2>3 DEF OneFlying
  <2>6. OneFlying'
    BY <2>1, <2>5 DEF OneFlying
  <2>7. QED
    BY <1>a, <1>b, <2>1, <2>4, <2>6
<1>8. QED
  BY <1>2, <1>3, <1>4, <1>5, <1>6, <1>7, NextCases

\* A new beat is blank but for its user, its marker and its login.
LEMMA DraftTyped ==
    ASSUME TypeOK
    PROVE  /\ Blank \in Beat
           /\ [Blank EXCEPT !.user = user, !.prior = CarriesMarker, !.login = epoch] \in Beat
           /\ [draft EXCEPT !.device = device] \in Beat
           /\ [draft EXCEPT !.map = map, !.owner = owner] \in Beat
<1>1. Blank \in Beat
  BY DEF Blank, Beat
<1>2. owner \in Nat /\ epoch \in Nat /\ draft \in Beat
  BY DEF TypeOK
<1>3. [Blank EXCEPT !.user = user, !.prior = CarriesMarker, !.login = epoch] \in Beat
  BY <1>1, <1>2 DEF Blank, Beat, CarriesMarker, TypeOK
<1>4. [draft EXCEPT !.device = device] \in Beat
  BY <1>2 DEF Beat, TypeOK
<1>5. [draft EXCEPT !.map = map, !.owner = owner] \in Beat
  BY <1>2 DEF Beat, TypeOK
<1>6. QED
  BY <1>1, <1>3, <1>4, <1>5

\* One step keeps the types.
LEMMA TypeStep ==
    ASSUME TypeOK, OneFlying, Next
    PROVE  TypeOK'
<1>a. /\ queue' \in Seq(Beat) /\ flying' \subseteq Beat
      /\ Cardinality(flying') <= 1 /\ Outstanding' <= MaxOutstanding
      /\ acking' # "no" => flying' # {}
  BY OneFlyingStep
<1>b. /\ MaxCalls \in Nat /\ Nothing \notin Maps \cup {Empty} /\ Empty # Nothing
  BY HeartbeatAssumption DEF HeartbeatAssumption, Empty, Nothing
<1> USE <1>a DEF TypeOK
<1>1. CASE \E on \in BOOLEAN : SetCapturing(on)
  <2>1. calls' \in 0 .. MaxCalls
    BY <1>1, <1>b DEF SetCapturing, Call
  <2>2. QED
    BY <1>1, <2>1 DEF SetCapturing, Call, userVars, deviceVars, mapVars, beatVars, workVars
<1>2. CASE \E next \in Users \cup {Nobody} : SetUser(next)
  <2>1. PICK next \in Users \cup {Nobody} : SetUser(next)
    BY <1>2
  <2>2. calls' \in 0 .. MaxCalls
    BY <2>1, <1>b DEF SetUser, Call
  <2>3. /\ epoch' \in {epoch, epoch + 1}
        /\ owner' = owner \/ (owner' = epoch + 1 /\ epoch' = epoch + 1)
        /\ baseline' \in {baseline, Empty} /\ map' \in {map, Empty}
    BY <2>1 DEF SetUser
  <2>4. stamped' \in 0 .. epoch'
    <3>1. CASE Stamps(next)
      BY <2>1, <3>1 DEF SetUser, Stamps
    <3>2. CASE ~ Stamps(next)
      BY <2>1, <2>3, <3>2 DEF SetUser
    <3>3. QED
      BY <3>1, <3>2
  <2>5. epoch' \in Nat /\ owner' \in 0 .. epoch' /\ epochInFlight' \in -1 .. epoch'
    BY <2>1, <2>3 DEF SetUser
  <2>6. /\ user' \in Users \cup {Nobody} /\ pending' \in BOOLEAN /\ merged' \in BOOLEAN
        /\ mishaps' \subseteq Mishap
    BY <2>1 DEF SetUser, MarkerAfter, Mishap
  <2>7. QED
    BY <2>1, <2>2, <2>3, <2>4, <2>5, <2>6 DEF SetUser, Call, deviceVars, beatVars, workVars
<1>3. CASE \E m \in Maps \cup {Empty} : SetMap(m)
  <2>1. calls' \in 0 .. MaxCalls
    BY <1>3, <1>b DEF SetMap, Call
  <2>2. QED
    BY <1>3, <2>1 DEF SetMap, Call, userVars, deviceVars, beatVars, workVars
<1>4. CASE \E d \in Devices \cup {NoDevice} : SetDevice(d)
  <2>1. calls' \in 0 .. MaxCalls
    BY <1>4, <1>b DEF SetDevice, Call
  <2>2. mishaps' \subseteq Mishap
    BY <1>4 DEF SetDevice, Note, Mishap
  <2>3. QED
    BY <1>4, <2>1, <2>2 DEF SetDevice, Call, userVars, mapVars, beatVars, workVars
<1>5. CASE Arm
  <2>1. mishaps' \subseteq Mishap
    BY <1>5 DEF Arm, Note, Mishap
  <2>2. /\ deviceSent' \in BOOLEAN /\ deviceCarry' \in BOOLEAN
        /\ arming' \in {"no", "sent", "carry"}
    <3>1. CASE arming = "sent"
      BY <1>5, <3>1 DEF Arm
    <3>2. CASE arming = "carry"
      BY <1>5, <3>2 DEF Arm
    <3>3. QED
      BY <1>5, <3>1, <3>2 DEF Arm
  <2>3. UNCHANGED <<capturing, userVars, device, mapVars, beatVars, workVars, calls, serverVars>>
    BY <1>5 DEF Arm
  <2>4. QED
    BY <2>1, <2>2, <2>3 DEF userVars, mapVars, beatVars, workVars, serverVars
<1>6. CASE Over
  BY <1>6 DEF Over, vars, userVars, deviceVars, mapVars, beatVars, workVars, serverVars
<1>7. CASE SnapshotUser
  BY <1>7, DraftTyped
     DEF SnapshotUser, deviceVars, mapVars, unbuilt, workVars, serverVars, CarriesMarker
<1>8. CASE LoadDeviceFlag
  BY <1>8 DEF LoadDeviceFlag, userVars, deviceVars, mapVars, unbuilt, workVars, serverVars
<1>9. CASE SnapshotDevice
  BY <1>9, DraftTyped DEF SnapshotDevice, userVars, deviceVars, mapVars, unbuilt, workVars, serverVars
<1>10. CASE SnapshotMap
  <2>1. draft' \in Beat
    BY <1>10, DraftTyped DEF SnapshotMap
  <2>2. /\ mapInFlight' \in Maps \cup {Empty, Nothing} /\ epochInFlight' \in -1 .. epoch
        /\ mapInFlight' = Nothing <=> epochInFlight' = -1
    BY <1>10, <1>b DEF SnapshotMap
  <2>3. QED
    BY <1>10, <2>1, <2>2 DEF SnapshotMap, userVars, deviceVars, unbuilt, workVars, serverVars
<1>11. CASE RaiseCarry
  BY <1>11 DEF RaiseCarry, userVars, mapVars, unbuilt, workVars, serverVars
<1>12. CASE EnqueueBeat
  BY <1>12, DraftTyped DEF EnqueueBeat, userVars, deviceVars, mapVars, serverVars
<1>13. CASE TakeBeat
  BY <1>13 DEF TakeBeat, userVars, deviceVars, mapVars, beatVars, serverVars
<1>c. \A beat \in flying : ServerHears(beat) =>
          /\ serverDevice' \in Devices \cup {NoDevice} /\ merged' \in BOOLEAN
          /\ serverMap' \in [Users \cup {Nobody} -> Maps \cup {Empty}]
  BY DEF ServerHears, Beat
<1>14. CASE Delivered
  BY <1>14, <1>c DEF Delivered, userVars, deviceVars, mapVars, beatVars
<1>15. CASE \E reached \in BOOLEAN : Lost(reached)
  <2>1. /\ serverDevice' \in Devices \cup {NoDevice} /\ merged' \in BOOLEAN
        /\ serverMap' \in [Users \cup {Nobody} -> Maps \cup {Empty}]
    BY <1>15, <1>c DEF Lost, serverVars
  <2>2. mishaps' \subseteq Mishap
    BY <1>15 DEF Lost, Note, Mishap
  <2>3. QED
    BY <1>15, <2>1, <2>2 DEF Lost, userVars, deviceVars, mapVars, beatVars
<1>16. CASE AckDevice \/ AckDeviceSent
  <2>1. /\ deviceSent' \in BOOLEAN /\ deviceCarry' \in BOOLEAN
        /\ acking' \in {"no", "device", "sent", "prior", "map"}
    BY <1>16 DEF AckDevice, AckDeviceSent
  <2>2. UNCHANGED <<userVars, device, arming, mapVars, flying, unacked>>
    BY <1>16 DEF AckDevice, AckDeviceSent
  <2>3. QED
    BY <2>1, <2>2 DEF userVars, mapVars, unacked, beatVars, serverVars
<1>17. CASE AckPrior
  <2>1. /\ pending' \in BOOLEAN /\ priorInFlight' \in BOOLEAN
        /\ acking' \in {"no", "device", "sent", "prior", "map"}
    BY <1>17 DEF AckPrior, RetiresMarker
  <2>2. UNCHANGED <<user, stamped, deviceVars, mapVars, flying, unacked>>
    BY <1>17 DEF AckPrior
  <2>3. QED
    BY <2>1, <2>2 DEF deviceVars, mapVars, unacked, beatVars, serverVars
<1>18. CASE AckMap
  <2>1. baseline' \in Maps \cup {Empty}
    BY <1>18 DEF AckMap, CommitsMap
  <2>2. QED
    BY <1>18, <2>1 DEF AckMap, userVars, deviceVars, unacked, beatVars, serverVars
<1>19. QED
  BY <1>1, <1>2, <1>3, <1>4, <1>5, <1>6, <1>7, <1>8, <1>9, <1>10, <1>11, <1>12, <1>13, <1>14,
     <1>15, <1>16, <1>17, <1>18, NextCases

\* The beats the worker has.
Out == {queue[i] : i \in DOMAIN queue} \cup flying

\* The worker gets no beat but the finished draft.
LEMMA OutStep ==
    ASSUME TypeOK, OneFlying, Next, NEW beat \in Out'
    PROVE  beat \in Out \/ (EnqueueBeat /\ building = "send" /\ beat = draft)
<1>a. queue \in Seq(Beat) /\ Len(queue) \in Nat /\ DOMAIN queue = 1 .. Len(queue)
  BY FlyingCount DEF TypeOK
<1>1. ASSUME UNCHANGED queue, flying' \subseteq flying
      PROVE  beat \in Out
  BY <1>1 DEF Out
<1>2. CASE EnqueueBeat
  <2>1. queue' = Append(queue, draft) /\ flying' = flying /\ building = "send"
    BY <1>2 DEF EnqueueBeat
  <2>2. /\ Len(queue') = Len(queue) + 1 /\ queue'[Len(queue) + 1] = draft
        /\ DOMAIN queue' = 1 .. Len(queue) + 1
        /\ \A i \in 1 .. Len(queue) : queue'[i] = queue[i]
    BY <1>a, <2>1, AppendProperties DEF TypeOK
  <2>3. ASSUME NEW i \in DOMAIN queue', beat = queue'[i]
        PROVE  beat \in Out \/ beat = draft
    <3>1. CASE i = Len(queue) + 1
      BY <2>2, <2>3, <3>1
    <3>2. CASE i # Len(queue) + 1
      <4>1. i \in DOMAIN queue
        BY <1>a, <2>2, <3>2
      <4>2. queue'[i] = queue[i]
        BY <1>a, <2>2, <4>1
      <4>3. QED
        BY <2>3, <4>1, <4>2 DEF Out
    <3>3. QED
      BY <3>1, <3>2
  <2>4. QED
    BY <1>2, <2>1, <2>3 DEF Out
<1>3. CASE TakeBeat
  <2>1. queue # <<>> /\ flying' = {Head(queue)} /\ queue' = Tail(queue)
    BY <1>3 DEF TakeBeat
  <2>2. /\ Len(queue) >= 1 /\ Head(queue) = queue[1] /\ Len(queue') = Len(queue) - 1
        /\ DOMAIN queue' = 1 .. Len(queue) - 1
        /\ \A i \in 1 .. Len(queue) - 1 : queue'[i] = queue[i + 1]
    BY <1>a, <2>1, HeadTailProperties, EmptySeq
  <2>3. ASSUME NEW i \in DOMAIN queue', beat = queue'[i]
        PROVE  beat \in Out
    <3>1. i + 1 \in DOMAIN queue /\ queue'[i] = queue[i + 1]
      BY <1>a, <2>2
    <3>2. QED
      BY <2>3, <3>1 DEF Out
  <2>4. queue[1] \in Out
    <3>1. 1 \in DOMAIN queue
      BY <1>a, <2>2
    <3>2. QED
      BY <3>1 DEF Out
  <2>5. QED
    BY <2>1, <2>2, <2>3, <2>4 DEF Out
<1>4. CASE \/ \E on \in BOOLEAN : SetCapturing(on)
           \/ \E next \in Users \cup {Nobody} : SetUser(next)
           \/ \E m \in Maps \cup {Empty} : SetMap(m)
           \/ \E d \in Devices \cup {NoDevice} : SetDevice(d)
           \/ Arm \/ Over
  <2>1. UNCHANGED <<queue, flying>>
    BY <1>4 DEF SetCapturing, SetUser, SetMap, SetDevice, Call, Arm, Over, vars, workVars
  <2>2. QED
    BY <1>1, <2>1
<1>5. CASE SnapshotUser \/ LoadDeviceFlag \/ SnapshotDevice \/ SnapshotMap \/ RaiseCarry
  <2>1. UNCHANGED <<queue, flying>>
    BY <1>5 DEF SnapshotUser, LoadDeviceFlag, SnapshotDevice, SnapshotMap, RaiseCarry, unbuilt,
                workVars
  <2>2. QED
    BY <1>1, <2>1
<1>6. CASE Delivered \/ AckDevice \/ AckDeviceSent \/ AckPrior
  <2>1. UNCHANGED <<queue, flying>>
    BY <1>6 DEF Delivered, AckDevice, AckDeviceSent, AckPrior, unacked
  <2>2. QED
    BY <1>1, <2>1
<1>7. CASE AckMap \/ \E reached \in BOOLEAN : Lost(reached)
  <2>1. UNCHANGED queue /\ flying' = {}
    BY <1>7 DEF AckMap, Lost, unacked
  <2>2. QED
    BY <1>1, <2>1
<1>8. QED
  BY <1>2, <1>3, <1>4, <1>5, <1>6, <1>7, NextCases

\* The draft changes in its three snapshots only, until it is enqueued.
LEMMA DraftStep ==
    ASSUME TypeOK, Next
    PROVE  \/ SnapshotUser \/ SnapshotDevice \/ SnapshotMap
           \/ EnqueueBeat /\ building' = "no"
           \/ LoadDeviceFlag /\ UNCHANGED draft
           \/ RaiseCarry /\ UNCHANGED draft
           \/ UNCHANGED <<building, draft>>
<1>1. CASE \/ \E on \in BOOLEAN : SetCapturing(on)
           \/ \E next \in Users \cup {Nobody} : SetUser(next)
           \/ \E m \in Maps \cup {Empty} : SetMap(m)
           \/ \E d \in Devices \cup {NoDevice} : SetDevice(d)
           \/ Arm \/ Over
  BY <1>1 DEF SetCapturing, SetUser, SetMap, SetDevice, Call, Arm, Over, vars, beatVars
<1>2. CASE LoadDeviceFlag \/ RaiseCarry \/ EnqueueBeat
  BY <1>2 DEF LoadDeviceFlag, RaiseCarry, EnqueueBeat
<1>3. CASE \/ TakeBeat \/ Delivered \/ AckDevice \/ AckDeviceSent \/ AckPrior \/ AckMap
           \/ \E reached \in BOOLEAN : Lost(reached)
  BY <1>3 DEF TakeBeat, Delivered, AckDevice, AckDeviceSent, AckPrior, AckMap, Lost, unacked, beatVars
<1>4. QED
  BY <1>1, <1>2, <1>3, NextCases

\* Every beat of the next state is one of this state, or the draft in a snapshot.
LEMMA BeatsStep ==
    ASSUME TypeOK, OneFlying, Next, NEW beat \in Beats'
    PROVE  \/ beat \in Beats
           \/ beat = draft' /\ (SnapshotUser \/ SnapshotDevice \/ SnapshotMap)
<1>1. Beats = Out \cup (IF building = "no" THEN {} ELSE {draft})
  BY DEF Beats, Out
<1>2. Beats' = Out' \cup (IF building' = "no" THEN {} ELSE {draft'})
  BY DEF Beats, Out
<1>3. CASE beat \in Out'
  <2>1. beat \in Out \/ (building = "send" /\ beat = draft)
    BY <1>3, OutStep
  <2>2. QED
    BY <1>1, <2>1
<1>4. CASE building' # "no" /\ beat = draft'
  <2>1. CASE LoadDeviceFlag \/ RaiseCarry
    <3>1. building # "no" /\ draft' = draft
      BY <2>1 DEF LoadDeviceFlag, RaiseCarry
    <3>2. QED
      BY <1>1, <1>4, <3>1
  <2>2. QED
    BY <1>1, <1>4, <2>1, DraftStep
<1>5. QED
  BY <1>2, <1>3, <1>4

\* The same of the beats whose device is known; a draft is among them from the moment
\* the device was read, or skipped because it had been sent.
LEMMA KnownStep ==
    ASSUME TypeOK, OneFlying, Next, NEW beat \in DeviceKnown'
    PROVE  \/ beat \in DeviceKnown
           \/ beat = draft' /\ (SnapshotDevice \/ SnapshotMap \/ (LoadDeviceFlag /\ deviceSent))
<1>1. DeviceKnown = Out \cup (IF building \in {"map", "carry", "send"} THEN {draft} ELSE {})
  BY DEF DeviceKnown, Out
<1>2. DeviceKnown' = Out' \cup (IF building' \in {"map", "carry", "send"} THEN {draft'} ELSE {})
  BY DEF DeviceKnown, Out
<1>3. CASE beat \in Out'
  <2>1. beat \in Out \/ (building = "send" /\ beat = draft)
    BY <1>3, OutStep
  <2>2. QED
    BY <1>1, <2>1
<1>4. CASE building' \in {"map", "carry", "send"} /\ beat = draft'
  <2>1. CASE RaiseCarry
    <3>1. building = "carry" /\ draft' = draft
      BY <2>1 DEF RaiseCarry
    <3>2. QED
      BY <1>1, <1>4, <3>1
  <2>2. CASE LoadDeviceFlag
    BY <1>4, <2>2 DEF LoadDeviceFlag
  <2>3. CASE SnapshotUser
    BY <1>4, <2>3 DEF SnapshotUser
  <2>4. QED
    BY <1>1, <1>4, <2>1, <2>2, <2>3, DraftStep
<1>5. QED
  BY <1>2, <1>3, <1>4

\* Each snapshot fills in its part of the draft and leaves the rest alone.
LEMMA SnapshotFields ==
    ASSUME TypeOK
    PROVE  /\ SnapshotUser => /\ draft'.user = user /\ draft'.prior = pending
                              /\ draft'.login = epoch /\ draft'.map = Nothing
                              /\ draft'.device = NoDevice
           /\ SnapshotDevice => /\ draft'.user = draft.user /\ draft'.prior = draft.prior
                                /\ draft'.login = draft.login /\ draft'.owner = draft.owner
                                /\ draft'.map = draft.map /\ draft'.device = device
           /\ SnapshotMap => /\ draft'.user = draft.user /\ draft'.prior = draft.prior
                             /\ draft'.login = draft.login /\ draft'.device = draft.device
                             /\ \/ map = baseline /\ UNCHANGED <<draft, mapInFlight, epochInFlight>>
                                \/ /\ map # baseline /\ draft'.map = map
                                   /\ draft'.owner = owner /\ mapInFlight' = map
                                   /\ epochInFlight' = epoch
<1>1. draft \in Beat
  BY DEF TypeOK
<1>2. SnapshotUser => /\ draft'.user = user /\ draft'.prior = pending
                      /\ draft'.login = epoch /\ draft'.map = Nothing
                      /\ draft'.device = NoDevice
  BY DEF SnapshotUser, Blank, CarriesMarker
<1>3. SnapshotDevice => /\ draft'.user = draft.user /\ draft'.prior = draft.prior
                        /\ draft'.login = draft.login /\ draft'.owner = draft.owner
                        /\ draft'.map = draft.map /\ draft'.device = device
  BY <1>1 DEF SnapshotDevice, Beat
<1>4. SnapshotMap => /\ draft'.user = draft.user /\ draft'.prior = draft.prior
                     /\ draft'.login = draft.login /\ draft'.device = draft.device
                     /\ \/ map = baseline /\ UNCHANGED <<draft, mapInFlight, epochInFlight>>
                        \/ /\ map # baseline /\ draft'.map = map
                           /\ draft'.owner = owner /\ mapInFlight' = map
                           /\ epochInFlight' = epoch
  BY <1>1 DEF SnapshotMap, Beat
<1>5. QED
  BY <1>2, <1>3, <1>4

-----------------------------------------------------------------------------
(* One step keeps each part of the invariant *)

\* What only set_user changes, and what else touches the marker.
LEMMA UserStep ==
    ASSUME TypeOK, Next
    PROVE  \/ \E next \in Users \cup {Nobody} : SetUser(next)
           \/ UNCHANGED <<user, stamped, epoch>> /\ (merged => merged')
              /\ (owner' = owner \/ owner' = epoch)
              /\ (pending' = pending \/ (acking = "prior" /\ ~ pending' /\ AckPrior))
<1>1. CASE \/ \E on \in BOOLEAN : SetCapturing(on)
           \/ \E m \in Maps \cup {Empty} : SetMap(m)
           \/ \E d \in Devices \cup {NoDevice} : SetDevice(d)
           \/ Arm \/ Over
  BY <1>1 DEF SetCapturing, SetMap, SetDevice, Call, Arm, Over, vars, userVars, mapVars, serverVars
<1>2. CASE SnapshotUser \/ LoadDeviceFlag \/ SnapshotDevice \/ SnapshotMap \/ RaiseCarry
           \/ EnqueueBeat \/ TakeBeat
  BY <1>2 DEF SnapshotUser, LoadDeviceFlag, SnapshotDevice, SnapshotMap, RaiseCarry, EnqueueBeat,
              TakeBeat, unbuilt, userVars, mapVars, serverVars
<1>3. CASE Delivered \/ \E reached \in BOOLEAN : Lost(reached)
  BY <1>3 DEF Delivered, Lost, ServerHears, userVars, mapVars, serverVars
<1>4. CASE AckDevice \/ AckDeviceSent \/ AckMap
  BY <1>4 DEF AckDevice, AckDeviceSent, AckMap, unacked, userVars, mapVars, serverVars
<1>5. CASE AckPrior
  <2>1. /\ acking = "prior" /\ pending' = (pending /\ ~RetiresMarker)
        /\ UNCHANGED <<user, stamped, mapVars, unacked>>
    BY <1>5 DEF AckPrior
  <2>2. UNCHANGED <<user, stamped, epoch, owner, merged>>
    BY <2>1 DEF mapVars, unacked, serverVars
  <2>3. pending' = pending \/ ~ pending'
    BY <2>1 DEF TypeOK
  <2>4. QED
    BY <1>5, <2>1, <2>2, <2>3
<1>6. QED
  BY <1>1, <1>2, <1>3, <1>4, <1>5, NextCases

\* set_user moves the login whenever it changes the user, and nothing else of the beats.
LEMMA SetUserFacts ==
    ASSUME TypeOK, NEW next \in Users \cup {Nobody}, SetUser(next)
    PROVE  /\ user' = next /\ pending' = MarkerAfter(next)
           /\ epoch' = IF next # user THEN epoch + 1 ELSE epoch
           /\ next # user => owner' = epoch + 1 /\ baseline' = Empty
           /\ next = user => UNCHANGED <<map, owner, baseline>>
           /\ stamped' = IF Stamps(next) THEN epoch + 1 ELSE stamped
           /\ merged' = (merged /\ ~ Stamps(next))
           /\ mishaps \subseteq mishaps'
           /\ Stamps(next) /\ Busy => "stamp" \in mishaps'
           /\ next # user /\ building # "no" => "login" \in mishaps'
           /\ UNCHANGED <<priorInFlight, deviceVars, mapInFlight, epochInFlight, beatVars, workVars,
                          serverDevice, serverMap>>
<1>1. next # user => owner' = epoch + 1 /\ baseline' = Empty /\ epoch' = epoch + 1
  BY DEF SetUser, DropsMap
<1>2. next = user => UNCHANGED <<map, owner, baseline, epoch>>
  BY DEF SetUser
<1>3. /\ mishaps \subseteq mishaps'
      /\ Stamps(next) /\ Busy => "stamp" \in mishaps'
      /\ next # user /\ building # "no" => "login" \in mishaps'
  BY DEF SetUser
<1>4. /\ user' = next /\ pending' = MarkerAfter(next)
      /\ stamped' = IF Stamps(next) THEN epoch + 1 ELSE stamped
      /\ merged' = (merged /\ ~ Stamps(next))
      /\ UNCHANGED <<priorInFlight, deviceVars, mapInFlight, epochInFlight, beatVars, workVars,
                     serverDevice, serverMap>>
  BY DEF SetUser, Call
<1>5. QED
  BY <1>1, <1>2, <1>3, <1>4

\* The logins and what a beat may carry of them.
LEMMA LoginStep ==
    ASSUME TypeOK, OneFlying, LoginInv, Next
    PROVE  LoginInv'
<1>a. epoch \in Nat /\ epoch' \in Nat /\ draft \in Beat
  BY TypeStep DEF TypeOK
<1>1. epoch' >= epoch /\ owner' = epoch' /\ (pending' => user' # Nobody)
  <2>1. CASE \E next \in Users \cup {Nobody} : SetUser(next)
    <3>1. PICK next \in Users \cup {Nobody} : SetUser(next)
      BY <2>1
    <3>2. epoch' >= epoch /\ owner' = epoch'
      BY <1>a, <3>1, SetUserFacts DEF LoginInv
    <3>3. pending' => user' # Nobody
      BY <3>1, SetUserFacts DEF MarkerAfter
    <3>4. QED
      BY <3>2, <3>3
  <2>2. CASE ~ \E next \in Users \cup {Nobody} : SetUser(next)
    BY <1>a, <2>2, UserStep DEF LoginInv
  <2>3. QED
    BY <2>1, <2>2
<1>2. ASSUME NEW beat \in Beats'
      PROVE  /\ beat.login <= epoch'
             /\ beat.prior => beat.user # Nobody
             /\ beat.map \in Maps => beat.owner >= beat.login
  <2>1. CASE beat \in Beats
    <3>1. beat.login <= epoch /\ beat \in Beat
      BY <2>1 DEF LoginInv, Beats, TypeOK
    <3>2. beat.login <= epoch'
      BY <1>a, <1>1, <3>1 DEF Beat
    <3>3. QED
      BY <2>1, <3>2 DEF LoginInv, PlayersStayApart
  <2>2. CASE beat = draft' /\ SnapshotUser
    <3>1. /\ beat.user = user /\ beat.prior = pending /\ beat.login = epoch /\ beat.map = Nothing
      BY <2>2, SnapshotFields
    <3>2. Nothing \notin Maps
      BY HeartbeatAssumption DEF HeartbeatAssumption, Nothing
    <3>3. QED
      BY <1>1, <3>1, <3>2 DEF LoginInv
  <2>3. CASE beat = draft' /\ (SnapshotDevice \/ SnapshotMap)
    <3>1. draft \in Beats
      BY <2>3 DEF Beats, SnapshotDevice, SnapshotMap
    <3>2. /\ draft.login <= epoch
          /\ draft.prior => draft.user # Nobody
          /\ draft.map \in Maps => draft.owner >= draft.login
      BY <3>1 DEF LoginInv, PlayersStayApart
    <3>3. /\ beat.login = draft.login /\ beat.prior = draft.prior /\ beat.user = draft.user
          /\ (beat.map = draft.map /\ beat.owner = draft.owner) \/ beat.owner = epoch
      BY <2>3, SnapshotFields DEF LoginInv
    <3>4. beat.login <= epoch'
      BY <1>a, <1>1, <3>2, <3>3 DEF Beat
    <3>5. QED
      BY <1>a, <3>2, <3>3, <3>4 DEF Beat
  <2>4. QED
    BY <2>1, <2>2, <2>3, BeatsStep
<1>3. PlayersStayApart'
  BY <1>2 DEF PlayersStayApart
<1>4. QED
  BY <1>1, <1>2, <1>3 DEF LoginInv

\* A mishap is not forgotten.
LEMMA MishapStep ==
    ASSUME TypeOK, Next
    PROVE  mishaps \subseteq mishaps'
<1>1. CASE \E next \in Users \cup {Nobody} : SetUser(next)
  BY <1>1, SetUserFacts
<1>2. CASE \/ \E on \in BOOLEAN : SetCapturing(on)
           \/ \E m \in Maps \cup {Empty} : SetMap(m)
           \/ \E d \in Devices \cup {NoDevice} : SetDevice(d)
           \/ Arm \/ Over
  BY <1>2 DEF SetCapturing, SetMap, SetDevice, Arm, Over, Note, vars
<1>3. CASE SnapshotUser \/ LoadDeviceFlag \/ SnapshotDevice \/ SnapshotMap \/ RaiseCarry
           \/ EnqueueBeat \/ TakeBeat
  BY <1>3 DEF SnapshotUser, LoadDeviceFlag, SnapshotDevice, SnapshotMap, RaiseCarry, EnqueueBeat,
              TakeBeat, unbuilt
<1>4. CASE Delivered \/ \E reached \in BOOLEAN : Lost(reached)
  BY <1>4 DEF Delivered, Lost, Note
<1>5. CASE AckDevice \/ AckDeviceSent \/ AckPrior \/ AckMap
  BY <1>5 DEF AckDevice, AckDeviceSent, AckPrior, AckMap, unacked
<1>6. QED
  BY <1>1, <1>2, <1>3, <1>4, <1>5, NextCases

\* With nothing under way there is no beat and no answer to one.
LEMMA IdleFacts ==
    ASSUME TypeOK, OneFlying, ~ Busy
    PROVE  Beats = {} /\ DeviceKnown = {} /\ acking = "no" /\ building = "no"
           /\ queue = <<>> /\ flying = {}
<1>1. building = "no" /\ queue = <<>> /\ flying = {}
  BY FlyingCount
<1>2. DOMAIN queue = {}
  BY <1>1
<1>3. QED
  BY <1>1, <1>2 DEF Beats, DeviceKnown, TypeOK

\* How the worker moves on from one answer to the next.
LEMMA AckingStep ==
    ASSUME TypeOK, Next
    PROVE  \/ acking' = acking
           \/ acking = "no" /\ Delivered /\ acking' = "device"
           \/ acking # "no" /\ (AckDevice \/ AckDeviceSent \/ AckPrior \/ AckMap)
<1>1. CASE \/ \E on \in BOOLEAN : SetCapturing(on)
           \/ \E next \in Users \cup {Nobody} : SetUser(next)
           \/ \E m \in Maps \cup {Empty} : SetMap(m)
           \/ \E d \in Devices \cup {NoDevice} : SetDevice(d)
           \/ Arm \/ Over
  BY <1>1 DEF SetCapturing, SetUser, SetMap, SetDevice, Call, Arm, Over, vars, workVars
<1>2. CASE SnapshotUser \/ LoadDeviceFlag \/ SnapshotDevice \/ SnapshotMap \/ RaiseCarry
           \/ EnqueueBeat \/ TakeBeat \/ \E reached \in BOOLEAN : Lost(reached)
  BY <1>2 DEF SnapshotUser, LoadDeviceFlag, SnapshotDevice, SnapshotMap, RaiseCarry, EnqueueBeat,
              TakeBeat, Lost, unbuilt, workVars
<1>3. CASE Delivered \/ AckDevice \/ AckDeviceSent \/ AckPrior \/ AckMap
  BY <1>3 DEF Delivered, AckDevice, AckDeviceSent, AckPrior, AckMap
<1>4. QED
  BY <1>1, <1>2, <1>3, NextCases

\* The merge marker: a beat that carries it goes before it is retired.
LEMMA MarkerStep ==
    ASSUME TypeOK, OneFlying, LoginInv, MarkerInv, Next
    PROVE  MarkerInv'
<1> SUFFICES ASSUME "stamp" \notin mishaps'
             PROVE  /\ user' # Nobody /\ ~ pending' => merged'
                    /\ pending' /\ acking' # "no" => merged'
                    /\ pending' => \A beat \in Beats' : beat.prior /\ beat.login >= stamped'
  BY DEF MarkerInv
<1>a. /\ user # Nobody /\ ~ pending => merged
      /\ pending /\ acking # "no" => merged
      /\ pending => \A beat \in Beats : beat.prior /\ beat.login >= stamped
  BY MishapStep DEF MarkerInv
<1>b. epoch \in Nat /\ stamped \in 0 .. epoch /\ pending \in BOOLEAN /\ merged \in BOOLEAN
  BY DEF TypeOK
<1>1. CASE \E next \in Users \cup {Nobody} : SetUser(next)
  <2>1. PICK next \in Users \cup {Nobody} : SetUser(next)
    BY <1>1
  <2>2. UNCHANGED <<beatVars, workVars>> /\ Beats' = Beats /\ acking' = acking
    BY <2>1, SetUserFacts DEF beatVars, workVars, Beats
  <2>3. /\ user' = next /\ pending' = MarkerAfter(next)
        /\ merged' = (merged /\ ~ Stamps(next))
        /\ stamped' = IF Stamps(next) THEN epoch + 1 ELSE stamped
        /\ Stamps(next) => ~ Busy
    BY <2>1, SetUserFacts
  <2>4. CASE Stamps(next)
    <3>1. Beats = {} /\ acking = "no"
      BY <2>3, <2>4, IdleFacts
    <3>2. pending'
      BY <2>3, <2>4 DEF MarkerAfter, Stamps
    <3>3. QED
      BY <2>2, <3>1, <3>2
  <2>5. CASE ~ Stamps(next) /\ next = Nobody
    <3>1. ~ pending' /\ user' = Nobody
      BY <2>3, <2>5 DEF MarkerAfter
    <3>2. QED
      BY <3>1
  <2>6. CASE ~ Stamps(next) /\ next # Nobody
    <3>1. user # Nobody /\ pending' = pending
      BY <2>3, <2>6 DEF MarkerAfter, Stamps
    <3>2. merged' = merged /\ stamped' = stamped
      BY <1>b, <2>3, <2>6
    <3>3. QED
      BY <1>a, <2>2, <3>1, <3>2
  <2>7. QED
    BY <2>4, <2>5, <2>6
<1>2. CASE UNCHANGED <<user, stamped, epoch>> /\ (merged => merged')
           /\ (pending' = pending \/ (acking = "prior" /\ ~ pending' /\ AckPrior))
  <2>1. ASSUME pending', NEW beat \in Beats'
        PROVE  beat.prior /\ beat.login >= stamped'
    <3>1. pending
      BY <1>2, <2>1
    <3>2. CASE beat \in Beats
      BY <1>2, <1>a, <3>1, <3>2
    <3>3. CASE beat = draft' /\ SnapshotUser
      <4>1. beat.prior = pending /\ beat.login = epoch
        BY <3>3, SnapshotFields
      <4>2. QED
        BY <1>2, <1>b, <3>1, <4>1
    <3>4. CASE beat = draft' /\ (SnapshotDevice \/ SnapshotMap)
      <4>1. draft \in Beats
        BY <3>4 DEF Beats, SnapshotDevice, SnapshotMap
      <4>2. beat.prior = draft.prior /\ beat.login = draft.login
        BY <3>4, SnapshotFields
      <4>3. QED
        BY <1>2, <1>a, <3>1, <4>1, <4>2
    <3>5. QED
      BY <2>1, <3>2, <3>3, <3>4, BeatsStep
  <2>2. user' # Nobody /\ ~ pending' => merged'
    <3>1. CASE pending' = pending
      BY <1>2, <1>a, <3>1
    <3>2. CASE acking = "prior" /\ ~ pending'
      BY <1>2, <1>a, <3>2
    <3>3. QED
      BY <1>2, <3>1, <3>2
  <2>3. ASSUME pending', acking' # "no"
        PROVE  merged'
    <3>1. pending
      BY <1>2, <2>3
    <3>2. CASE acking # "no"
      BY <1>2, <1>a, <3>1, <3>2
    <3>3. CASE acking = "no"
      <4>1. Delivered
        BY <2>3, <3>3, AckingStep
      <4>2. PICK beat \in flying : ServerHears(beat)
        BY <4>1 DEF Delivered
      <4>3. beat \in Beats
        BY DEF Beats
      <4>4. beat.prior /\ beat.login >= stamped
        BY <1>a, <3>1, <4>3
      <4>5. QED
        BY <4>2, <4>4 DEF ServerHears
    <3>4. QED
      BY <3>2, <3>3
  <2>4. QED
    BY <2>1, <2>2, <2>3
<1>3. QED
  BY <1>1, <1>2, UserStep

\* What of the device only set_device and its own steps change.
LEMMA DeviceVarStep ==
    ASSUME TypeOK, Next
    PROVE  \/ \E d \in Devices \cup {NoDevice} : SetDevice(d)
           \/ Arm
           \/ UNCHANGED <<device, arming>> /\ (deviceSent => deviceSent')
              /\ (deviceSent' = deviceSent \/ acking # "no")
<1>1. CASE \/ \E on \in BOOLEAN : SetCapturing(on)
           \/ \E next \in Users \cup {Nobody} : SetUser(next)
           \/ \E m \in Maps \cup {Empty} : SetMap(m)
           \/ Over
  BY <1>1 DEF SetCapturing, SetUser, SetMap, Over, vars, deviceVars
<1>2. CASE SnapshotUser \/ LoadDeviceFlag \/ SnapshotDevice \/ SnapshotMap \/ RaiseCarry
           \/ EnqueueBeat \/ TakeBeat \/ Delivered \/ \E reached \in BOOLEAN : Lost(reached)
  BY <1>2 DEF SnapshotUser, LoadDeviceFlag, SnapshotDevice, SnapshotMap, RaiseCarry, EnqueueBeat,
              TakeBeat, Delivered, Lost, deviceVars
<1>3. CASE AckDevice \/ AckDeviceSent \/ AckPrior \/ AckMap
  BY <1>3 DEF AckDevice, AckDeviceSent, AckPrior, AckMap, deviceVars
<1>4. QED
  BY <1>1, <1>2, <1>3, NextCases

\* What the server has changes with a beat that reaches it.
LEMMA ServerStep ==
    ASSUME TypeOK, Next
    PROVE  \/ UNCHANGED <<serverDevice, serverMap>>
           \/ acking = "no" /\ (Delivered \/ \E reached \in BOOLEAN : Lost(reached))
              /\ \E beat \in flying : ServerHears(beat)
<1>1. CASE \/ \E on \in BOOLEAN : SetCapturing(on)
           \/ \E next \in Users \cup {Nobody} : SetUser(next)
           \/ \E m \in Maps \cup {Empty} : SetMap(m)
           \/ \E d \in Devices \cup {NoDevice} : SetDevice(d)
           \/ Arm \/ Over
  BY <1>1 DEF SetCapturing, SetUser, SetMap, SetDevice, Call, Arm, Over, vars, serverVars
<1>2. CASE SnapshotUser \/ LoadDeviceFlag \/ SnapshotDevice \/ SnapshotMap \/ RaiseCarry
           \/ EnqueueBeat \/ TakeBeat
  BY <1>2 DEF SnapshotUser, LoadDeviceFlag, SnapshotDevice, SnapshotMap, RaiseCarry, EnqueueBeat,
              TakeBeat, unbuilt, serverVars
<1>3. CASE Delivered \/ \E reached \in BOOLEAN : Lost(reached)
  BY <1>3 DEF Delivered, Lost, serverVars
<1>4. CASE AckDevice \/ AckDeviceSent \/ AckPrior \/ AckMap
  BY <1>4 DEF AckDevice, AckDeviceSent, AckPrior, AckMap, unacked, serverVars
<1>5. QED
  BY <1>1, <1>2, <1>3, <1>4, NextCases

\* The device: every beat built since it was set has it until it is delivered.
LEMMA DeviceStep ==
    ASSUME TypeOK, OneFlying, DeviceInv, Next
    PROVE  DeviceInv'
<1>1. building' \in {"flag", "device"} => draft'.device = NoDevice
  <2>1. CASE SnapshotUser
    BY <2>1, SnapshotFields
  <2>2. CASE SnapshotDevice \/ SnapshotMap \/ RaiseCarry
    BY <2>2 DEF SnapshotDevice, SnapshotMap, RaiseCarry
  <2>3. CASE LoadDeviceFlag /\ UNCHANGED draft
    BY <2>3 DEF LoadDeviceFlag, DeviceInv
  <2>4. QED
    BY <2>1, <2>2, <2>3, DraftStep DEF DeviceInv
<1> SUFFICES ASSUME "device" \notin mishaps'
             PROVE  /\ \A beat \in DeviceKnown' :
                          beat.device = device' \/ (beat.device = NoDevice /\ deviceSent')
                    /\ (deviceSent' \/ acking' # "no") /\ arming' # "sent" /\ device' # NoDevice
                          => serverDevice' = device'
  BY <1>1 DEF DeviceInv
<1>a. /\ \A beat \in DeviceKnown : beat.device = device \/ (beat.device = NoDevice /\ deviceSent)
      /\ (deviceSent \/ acking # "no") /\ arming # "sent" /\ device # NoDevice
            => serverDevice = device
  BY MishapStep DEF DeviceInv
<1>2. CASE Arm \/ \E d \in Devices \cup {NoDevice} : SetDevice(d)
  <2>1. ~ Busy
    BY <1>2 DEF Arm, SetDevice, Note
  <2>2. UNCHANGED <<beatVars, workVars, serverDevice>>
    BY <1>2 DEF Arm, SetDevice, Call, serverVars
  <2>3. DeviceKnown' = {} /\ acking' = "no" /\ acking = "no"
    BY <2>1, <2>2, IdleFacts DEF DeviceKnown, beatVars, workVars
  <2>4. CASE \E d \in Devices \cup {NoDevice} : SetDevice(d)
    <3>1. arming' = "sent"
      BY <2>4 DEF SetDevice
    <3>2. QED
      BY <2>3, <3>1
  <2>5. CASE Arm /\ arming = "sent"
    <3>1. ~ deviceSent'
      BY <2>5 DEF Arm
    <3>2. QED
      BY <2>3, <3>1
  <2>6. CASE Arm /\ arming = "carry"
    <3>1. UNCHANGED <<device, deviceSent>>
      BY <2>6 DEF Arm
    <3>2. QED
      BY <1>a, <2>2, <2>3, <2>6, <3>1
  <2>7. QED
    BY <1>2, <2>4, <2>5, <2>6 DEF Arm
<1>3. CASE UNCHANGED <<device, arming>> /\ (deviceSent => deviceSent')
           /\ (deviceSent' = deviceSent \/ acking # "no")
  <2>1. ASSUME NEW beat \in DeviceKnown'
        PROVE  beat.device = device \/ (beat.device = NoDevice /\ deviceSent)
    <3>1. CASE beat \in DeviceKnown
      BY <1>a, <3>1
    <3>2. CASE beat = draft' /\ SnapshotDevice
      BY <3>2, SnapshotFields
    <3>3. CASE beat = draft' /\ SnapshotMap
      <4>1. draft \in DeviceKnown
        BY <3>3 DEF DeviceKnown, SnapshotMap
      <4>2. beat.device = draft.device
        BY <3>3, SnapshotFields
      <4>3. QED
        BY <1>a, <4>1, <4>2
    <3>4. CASE beat = draft' /\ LoadDeviceFlag /\ deviceSent
      <4>1. beat.device = NoDevice
        BY <3>4 DEF LoadDeviceFlag, DeviceInv
      <4>2. QED
        BY <3>4, <4>1
    <3>5. QED
      BY <2>1, <3>1, <3>2, <3>3, <3>4, KnownStep
  <2>2. ASSUME deviceSent' \/ acking' # "no", arming # "sent", device # NoDevice
        PROVE  serverDevice' = device
    <3>1. CASE UNCHANGED serverDevice /\ (deviceSent \/ acking # "no")
      BY <1>a, <2>2, <3>1
    <3>2. CASE \E beat \in flying : ServerHears(beat)
      <4>1. PICK beat \in flying : ServerHears(beat)
        BY <3>2
      <4>2. beat \in DeviceKnown
        BY DEF DeviceKnown
      <4>3. CASE beat.device # NoDevice
        BY <1>a, <4>1, <4>2, <4>3 DEF ServerHears
      <4>4. CASE beat.device = NoDevice
        BY <1>a, <2>2, <4>1, <4>2, <4>4 DEF ServerHears
      <4>5. QED
        BY <4>3, <4>4
    <3>3. CASE UNCHANGED serverDevice /\ ~ deviceSent /\ acking = "no"
      <4>1. Delivered
        BY <1>3, <2>2, <3>3, AckingStep
      <4>2. QED
        BY <3>2, <4>1 DEF Delivered
    <3>4. QED
      BY <3>1, <3>2, <3>3, ServerStep
  <2>3. QED
    BY <1>3, <2>1, <2>2
<1>4. QED
  BY <1>2, <1>3, DeviceVarStep

\* The map the server will have for a player is the same after any step but the reading
\* of the map and the loss of a beat: it moves from the draft to the queue, to the
\* worker's hand, to the server.
LEMMA WillHaveStep ==
    ASSUME TypeOK, OneFlying, Next, ~ SnapshotMap, ~ \E reached \in BOOLEAN : Lost(reached),
           building \in {"flag", "device", "map"} => draft.map = Nothing,
           NEW u \in Users \cup {Nobody}, NEW m, WillHave(u, m)
    PROVE  WillHave(u, m)'
<1>a. queue \in Seq(Beat) /\ Len(queue) \in Nat /\ DOMAIN queue = 1 .. Len(queue)
  BY FlyingCount DEF TypeOK
<1>1. CASE EnqueueBeat
  <2>1. /\ queue' = Append(queue, draft) /\ building = "send" /\ building' = "no"
        /\ UNCHANGED <<flying, acking, serverMap>>
    BY <1>1 DEF EnqueueBeat, serverVars
  <2>2. /\ Len(queue') = Len(queue) + 1 /\ queue'[Len(queue) + 1] = draft
        /\ DOMAIN queue' = 1 .. Len(queue) + 1
        /\ \A i \in DOMAIN queue : i \in DOMAIN queue' /\ queue'[i] = queue[i]
    BY <1>a, <2>1, AppendProperties DEF TypeOK
  <2>3. \A i \in DOMAIN queue' : i = Len(queue) + 1 \/ i \in DOMAIN queue
    BY <1>a, <2>2
  <2>4. CASE Carries(draft, u)
    <3>1. draft.map = m
      BY <2>1, <2>4 DEF WillHave
    <3>2. Len(queue) + 1 \in DOMAIN queue'
      BY <1>a, <2>2
    <3>3. \A k \in DOMAIN queue' : ~ (k > Len(queue) + 1)
      BY <1>a, <2>2
    <3>4. \E n \in DOMAIN queue' :
             /\ Carries(queue'[n], u) /\ queue'[n].map = m
             /\ \A k \in DOMAIN queue' : k > n => ~ Carries(queue'[k], u)
      BY <2>2, <2>4, <3>1, <3>2, <3>3
    <3>5. QED
      BY <2>1, <3>4 DEF WillHave
  <2>5. CASE ~ Carries(draft, u)
    <3>1. (\E n \in DOMAIN queue' : Carries(queue'[n], u))
             <=> \E n \in DOMAIN queue : Carries(queue[n], u)
      BY <2>2, <2>3, <2>5
    <3>2. ASSUME NEW n \in DOMAIN queue, Carries(queue[n], u), queue[n].map = m,
                 \A k \in DOMAIN queue : k > n => ~ Carries(queue[k], u)
          PROVE  \E j \in DOMAIN queue' :
                    /\ Carries(queue'[j], u) /\ queue'[j].map = m
                    /\ \A k \in DOMAIN queue' : k > j => ~ Carries(queue'[k], u)
      <4>1. n \in DOMAIN queue' /\ queue'[n] = queue[n]
        BY <2>2
      <4>2. \A k \in DOMAIN queue' : k > n => ~ Carries(queue'[k], u)
        BY <2>2, <2>3, <2>5, <3>2
      <4>3. QED
        BY <3>2, <4>1, <4>2
    <3>3. CASE \E n \in DOMAIN queue : Carries(queue[n], u)
      <4>1. \E n \in DOMAIN queue :
               /\ Carries(queue[n], u) /\ queue[n].map = m
               /\ \A k \in DOMAIN queue : k > n => ~ Carries(queue[k], u)
        BY <2>5, <3>3 DEF WillHave
      <4>2. QED
        BY <2>1, <3>1, <3>2, <3>3, <4>1 DEF WillHave
    <3>4. CASE ~ \E n \in DOMAIN queue : Carries(queue[n], u)
      BY <2>1, <2>5, <3>1, <3>4 DEF WillHave
    <3>5. QED
      BY <3>3, <3>4
  <2>6. QED
    BY <2>4, <2>5
<1>2. CASE TakeBeat
  <2>1. /\ flying = {} /\ queue # <<>> /\ flying' = {Head(queue)} /\ queue' = Tail(queue)
        /\ UNCHANGED <<building, draft, acking, serverMap>>
    BY <1>2 DEF TakeBeat, beatVars, serverVars
  <2>2. /\ Len(queue) >= 1 /\ Head(queue) = queue[1]
        /\ DOMAIN queue' = 1 .. Len(queue) - 1
        /\ \A i \in 1 .. Len(queue) - 1 : queue'[i] = queue[i + 1]
    BY <1>a, <2>1, HeadTailProperties, EmptySeq
  <2>3. acking = "no"
    BY <2>1 DEF TypeOK
  <2>4. /\ \A i \in DOMAIN queue' : i + 1 \in DOMAIN queue /\ queue'[i] = queue[i + 1]
        /\ \A i \in DOMAIN queue : i = 1 \/ (i - 1 \in DOMAIN queue' /\ queue'[i - 1] = queue[i])
        /\ 1 \in DOMAIN queue
    BY <1>a, <2>2
  <2>5. CASE building # "no" /\ Carries(draft, u)
    BY <2>1, <2>5 DEF WillHave
  <2>6. CASE /\ ~ (building # "no" /\ Carries(draft, u))
             /\ \E n \in DOMAIN queue' : Carries(queue'[n], u)
    <3>1. PICK j \in DOMAIN queue' : Carries(queue'[j], u)
      BY <2>6
    <3>2. j + 1 \in DOMAIN queue /\ Carries(queue[j + 1], u)
      BY <2>4, <3>1
    <3>3. PICK n \in DOMAIN queue :
             /\ Carries(queue[n], u) /\ queue[n].map = m
             /\ \A k \in DOMAIN queue : k > n => ~ Carries(queue[k], u)
      BY <2>6, <3>2 DEF WillHave
    <3>4. n # 1
      <4>1. j + 1 > 1
        BY <1>a, <2>2
      <4>2. QED
        BY <3>2, <3>3, <4>1
    <3>5. n - 1 \in DOMAIN queue' /\ queue'[n - 1] = queue[n]
      BY <2>4, <3>4
    <3>6. \A k \in DOMAIN queue' : k > n - 1 => ~ Carries(queue'[k], u)
      <4>1. ASSUME NEW k \in DOMAIN queue', k > n - 1
            PROVE  k + 1 > n
        BY <1>a, <2>2, <4>1
      <4>2. QED
        BY <2>4, <3>3, <4>1
    <3>7. \E i \in DOMAIN queue' :
             /\ Carries(queue'[i], u) /\ queue'[i].map = m
             /\ \A k \in DOMAIN queue' : k > i => ~ Carries(queue'[k], u)
      BY <3>3, <3>5, <3>6
    <3>8. QED
      BY <2>1, <2>6, <3>7 DEF WillHave
  <2>7. CASE /\ ~ (building # "no" /\ Carries(draft, u))
             /\ ~ \E n \in DOMAIN queue' : Carries(queue'[n], u)
    <3>1. \A n \in DOMAIN queue : Carries(queue[n], u) => n = 1
      BY <2>4, <2>7
    <3>2. CASE Carries(queue[1], u)
      <4>1. queue[1].map = m
        BY <2>4, <2>7, <3>1, <3>2 DEF WillHave
      <4>2. \E beat \in flying' : Carries(beat, u)
        BY <2>1, <2>2, <3>2
      <4>3. \A beat \in flying' : beat.map = m
        BY <2>1, <2>2, <4>1
      <4>4. QED
        BY <2>1, <2>3, <2>7, <4>2, <4>3 DEF WillHave
    <3>3. CASE ~ Carries(queue[1], u)
      <4>1. serverMap[u] = m
        BY <2>1, <2>7, <3>1, <3>3 DEF WillHave
      <4>2. ~ \E beat \in flying' : Carries(beat, u)
        BY <2>1, <2>2, <3>3
      <4>3. QED
        BY <2>1, <2>7, <4>1, <4>2 DEF WillHave
    <3>4. QED
      BY <3>2, <3>3
  <2>8. QED
    BY <2>5, <2>6, <2>7
<1>3. CASE Delivered
  <2>1. /\ acking = "no" /\ acking' = "device" /\ UNCHANGED <<building, draft, queue, flying>>
    BY <1>3 DEF Delivered, beatVars
  <2>2. PICK beat \in flying : ServerHears(beat)
    BY <1>3 DEF Delivered
  <2>3. flying = {beat} /\ beat \in Beat
    BY DEF OneFlying, TypeOK
  <2>4. serverMap' = IF beat.map # Nothing
                     THEN [serverMap EXCEPT ![beat.user] = beat.map] ELSE serverMap
    BY <2>2 DEF ServerHears
  <2>5. CASE Carries(beat, u)
    <3>1. serverMap'[u] = beat.map
      BY <2>4, <2>5 DEF Carries, TypeOK
    <3>2. QED
      BY <2>1, <2>3, <2>5, <3>1 DEF WillHave
  <2>6. CASE ~ Carries(beat, u)
    <3>1. serverMap'[u] = serverMap[u]
      BY <2>3, <2>4, <2>6 DEF Carries, TypeOK, Beat
    <3>2. QED
      BY <2>1, <2>3, <2>6, <3>1 DEF WillHave
  <2>7. QED
    BY <2>5, <2>6
<1>4. CASE AckMap
  <2>1. /\ acking # "no" /\ acking' = "no" /\ flying' = {}
        /\ UNCHANGED <<building, draft, queue, serverMap>>
    BY <1>4 DEF AckMap, unacked, beatVars, serverVars
  <2>2. QED
    BY <2>1 DEF WillHave
<1>5. CASE AckDevice \/ AckDeviceSent \/ AckPrior
  <2>1. /\ acking # "no" /\ acking' # "no"
        /\ UNCHANGED <<building, draft, queue, flying, serverMap>>
    BY <1>5 DEF AckDevice, AckDeviceSent, AckPrior, unacked, beatVars, serverVars
  <2>2. QED
    BY <2>1 DEF WillHave
<1>6. CASE SnapshotUser \/ LoadDeviceFlag \/ SnapshotDevice
  <2>1. /\ UNCHANGED <<queue, flying, acking, serverMap>>
        /\ building = "no" \/ draft.map = Nothing
    BY <1>6 DEF SnapshotUser, LoadDeviceFlag, SnapshotDevice, unbuilt, workVars, serverVars
  <2>2. draft'.map = Nothing
    <3>1. CASE SnapshotUser \/ SnapshotDevice
      BY <2>1, <3>1, SnapshotFields DEF SnapshotDevice
    <3>2. CASE LoadDeviceFlag
      BY <2>1, <3>2 DEF LoadDeviceFlag
    <3>3. QED
      BY <1>6, <3>1, <3>2
  <2>3. ~ Carries(draft', u) /\ (building = "no" \/ ~ Carries(draft, u))
    BY <2>1, <2>2 DEF Carries
  <2>4. QED
    BY <2>1, <2>3 DEF WillHave
<1>7. CASE RaiseCarry
  <2>1. /\ UNCHANGED <<queue, flying, acking, serverMap, draft>>
        /\ building # "no" /\ building' # "no"
    BY <1>7 DEF RaiseCarry, unbuilt, workVars, serverVars
  <2>2. QED
    BY <2>1 DEF WillHave
<1>8. CASE \/ \E on \in BOOLEAN : SetCapturing(on)
           \/ \E next \in Users \cup {Nobody} : SetUser(next)
           \/ \E mm \in Maps \cup {Empty} : SetMap(mm)
           \/ \E d \in Devices \cup {NoDevice} : SetDevice(d)
           \/ Arm \/ Over
  <2>1. UNCHANGED <<building, draft, queue, flying, acking, serverMap>>
    BY <1>8 DEF SetCapturing, SetUser, SetMap, SetDevice, Call, Arm, Over, vars, workVars, beatVars,
                serverVars
  <2>2. QED
    BY <2>1 DEF WillHave
<1>9. QED
  BY <1>1, <1>2, <1>3, <1>4, <1>5, <1>6, <1>7, <1>8, NextCases

\* Something is out exactly when the queue or the worker's hand is not empty.
LEMMA OutCount ==
    ASSUME NEW q \in Seq(Beat), NEW hand, hand = {} \/ \E beat \in hand : hand = {beat}
    PROVE  Len(q) + Cardinality(hand) > 0 <=> q # <<>> \/ hand # {}
<1>1. Len(q) \in Nat /\ (Len(q) = 0 <=> q = <<>>)
  BY EmptySeq, LenProperties
<1>2. CASE hand = {}
  <2>1. Cardinality(hand) = 0
    BY <1>2, FS_EmptySet
  <2>2. QED
    BY <1>1, <1>2, <2>1
<1>3. CASE hand # {}
  <2>1. PICK beat : hand = {beat}
    BY <1>3
  <2>2. Cardinality({beat}) = 1
    BY FS_Singleton
  <2>3. Cardinality(hand) = 1
    BY <2>1, <2>2
  <2>4. QED
    BY <1>1, <1>3, <2>3
<1>4. QED
  BY <1>2, <1>3

\* Work under way ends with the ack of a beat or its loss, and with nothing else.
LEMMA BusyStep ==
    ASSUME TypeOK, OneFlying, Next, ~ AckMap, ~ \E reached \in BOOLEAN : Lost(reached),
           Busy
    PROVE  Busy'
<1>a. /\ Busy <=> building # "no" \/ queue # <<>> \/ flying # {}
      /\ Busy' <=> building' # "no" \/ queue' # <<>> \/ flying' # {}
  <2>1. /\ queue' \in Seq(Beat) /\ (flying' = {} \/ \E beat \in flying' : flying' = {beat})
    BY OneFlyingStep DEF OneFlying
  <2>2. Len(queue') + Cardinality(flying') > 0 <=> queue' # <<>> \/ flying' # {}
    BY <2>1, OutCount
  <2>3. QED
    BY <2>2, FlyingCount DEF Busy, Outstanding
<1>1. CASE \/ \E on \in BOOLEAN : SetCapturing(on)
           \/ \E next \in Users \cup {Nobody} : SetUser(next)
           \/ \E m \in Maps \cup {Empty} : SetMap(m)
           \/ \E d \in Devices \cup {NoDevice} : SetDevice(d)
           \/ Arm \/ Over
  <2>1. UNCHANGED <<building, queue, flying>>
    BY <1>1 DEF SetCapturing, SetUser, SetMap, SetDevice, Call, Arm, Over, vars, workVars, beatVars
  <2>2. QED
    BY <1>a, <2>1
<1>2. CASE SnapshotUser \/ LoadDeviceFlag \/ SnapshotDevice \/ SnapshotMap \/ RaiseCarry
  <2>1. building' # "no"
    BY <1>2 DEF SnapshotUser, LoadDeviceFlag, SnapshotDevice, SnapshotMap, RaiseCarry
  <2>2. QED
    BY <1>a, <2>1
<1>3. CASE EnqueueBeat
  <2>1. queue' = Append(queue, draft) /\ queue \in Seq(Beat) /\ draft \in Beat
    BY <1>3 DEF EnqueueBeat, TypeOK
  <2>2. Len(queue') = Len(queue) + 1 /\ Len(queue) \in Nat
    BY <2>1, AppendProperties, FlyingCount
  <2>3. queue' # <<>>
    BY <2>2
  <2>4. QED
    BY <1>a, <2>3
<1>4. CASE TakeBeat \/ Delivered \/ AckDevice \/ AckDeviceSent \/ AckPrior
  <2>1. flying' # {}
    <3>1. CASE TakeBeat
      BY <3>1 DEF TakeBeat
    <3>2. CASE Delivered \/ AckDevice \/ AckDeviceSent \/ AckPrior
      BY <3>2 DEF Delivered, AckDevice, AckDeviceSent, AckPrior, unacked, TypeOK
    <3>3. QED
      BY <1>4, <3>1, <3>2
  <2>2. QED
    BY <1>a, <2>1
<1>5. QED
  BY <1>1, <1>2, <1>3, <1>4, NextCases

\* What the client remembers of the map changes when the user does, when a beat takes the
\* map and when that beat is acked.
LEMMA MapVarStep ==
    ASSUME TypeOK, Next
    PROVE  \/ \E next \in Users \cup {Nobody} : SetUser(next) /\ next # user
           \/ SnapshotMap
           \/ AckMap
           \/ UNCHANGED <<user, baseline, epoch, mapInFlight, epochInFlight>>
<1>1. CASE \E next \in Users \cup {Nobody} : SetUser(next)
  BY <1>1, SetUserFacts
<1>2. CASE \/ \E on \in BOOLEAN : SetCapturing(on)
           \/ \E m \in Maps \cup {Empty} : SetMap(m)
           \/ \E d \in Devices \cup {NoDevice} : SetDevice(d)
           \/ Arm \/ Over
  BY <1>2 DEF SetCapturing, SetMap, SetDevice, Arm, Over, vars, userVars, mapVars
<1>3. CASE SnapshotUser \/ LoadDeviceFlag \/ SnapshotDevice \/ RaiseCarry
           \/ EnqueueBeat \/ TakeBeat \/ Delivered \/ \E reached \in BOOLEAN : Lost(reached)
  BY <1>3 DEF SnapshotUser, LoadDeviceFlag, SnapshotDevice, RaiseCarry, EnqueueBeat,
              TakeBeat, Delivered, Lost, userVars, mapVars
<1>4. CASE AckDevice \/ AckDeviceSent \/ AckPrior
  BY <1>4 DEF AckDevice, AckDeviceSent, AckPrior, userVars, mapVars
<1>5. QED
  BY <1>1, <1>2, <1>3, <1>4, NextCases

\* The map: what is to be committed, or was, is what the server will have.
LEMMA MapStep ==
    ASSUME TypeOK, OneFlying, MapInv, Next
    PROVE  MapInv'
<1>1. building' \in {"flag", "device", "map"} => draft'.map = Nothing
  <2>1. CASE SnapshotUser
    BY <2>1, SnapshotFields
  <2>2. CASE SnapshotDevice
    BY <2>2, SnapshotFields DEF SnapshotDevice, MapInv
  <2>3. CASE SnapshotMap \/ RaiseCarry
    BY <2>3 DEF SnapshotMap, RaiseCarry
  <2>4. CASE LoadDeviceFlag /\ UNCHANGED draft
    BY <2>4 DEF LoadDeviceFlag, MapInv
  <2>5. QED
    BY <2>1, <2>2, <2>3, <2>4, DraftStep DEF MapInv
<1> SUFFICES ASSUME mishaps' \cap {"lost", "login"} = {}
             PROVE  /\ building' # "no" => draft'.user = user'
                    /\ mapInFlight' # Nothing => Busy'
                    /\ mapInFlight' # Nothing /\ epochInFlight' = epoch'
                          => WillHave(user, mapInFlight)'
                    /\ baseline' # Empty =>
                          \/ mapInFlight' = Nothing /\ WillHave(user, baseline)'
                          \/ mapInFlight' # Nothing /\ epochInFlight' = epoch'
  BY <1>1 DEF MapInv
<1>a. /\ building # "no" => draft.user = user
      /\ mapInFlight # Nothing => Busy
      /\ mapInFlight # Nothing /\ epochInFlight = epoch => WillHave(user, mapInFlight)
      /\ baseline # Empty =>
            \/ mapInFlight = Nothing /\ WillHave(user, baseline)
            \/ mapInFlight # Nothing /\ epochInFlight = epoch
      /\ building \in {"flag", "device", "map"} => draft.map = Nothing
  BY MishapStep DEF MapInv
<1>b. ~ \E reached \in BOOLEAN : Lost(reached)
  BY DEF Lost, Note
<1>c. /\ epoch \in Nat /\ epochInFlight \in -1 .. epoch /\ user \in Users \cup {Nobody}
      /\ Nothing \notin Maps \cup {Empty} /\ map \in Maps \cup {Empty}
  BY HeartbeatAssumption DEF HeartbeatAssumption, TypeOK, Empty, Nothing
<1>2. CASE \E next \in Users \cup {Nobody} : SetUser(next) /\ next # user
  <2>1. PICK next \in Users \cup {Nobody} : SetUser(next) /\ next # user
    BY <1>2
  <2>2. /\ building = "no" /\ building' = "no" /\ baseline' = Empty /\ epoch' = epoch + 1
        /\ UNCHANGED <<mapInFlight, epochInFlight, beatVars, workVars>>
    BY <2>1, SetUserFacts DEF beatVars
  <2>3. Busy' <=> Busy
    BY <2>2 DEF Busy, Outstanding, beatVars, workVars
  <2>4. epochInFlight' # epoch'
    BY <1>c, <2>2
  <2>5. QED
    BY <1>a, <2>2, <2>3, <2>4
<1>3. CASE SnapshotMap
  <2>1. /\ building = "map" /\ building' = "carry"
        /\ UNCHANGED <<user, baseline, epoch, queue, flying, acking, serverMap>>
    BY <1>3 DEF SnapshotMap, userVars, unbuilt, workVars, serverVars
  <2>2. Busy'
    BY <2>1 DEF Busy
  <2>3. draft'.user = user'
    BY <1>3, <1>a, <2>1, SnapshotFields
  <2>4. CASE map = baseline /\ UNCHANGED <<draft, mapInFlight, epochInFlight>>
    <3>1. WillHave(user, mapInFlight)' <=> WillHave(user, mapInFlight)
      BY <2>1, <2>4 DEF WillHave
    <3>2. WillHave(user, baseline)' <=> WillHave(user, baseline)
      BY <2>1, <2>4 DEF WillHave
    <3>3. QED
      BY <1>a, <2>1, <2>2, <2>3, <2>4, <3>1, <3>2
  <2>5. CASE draft'.map = map /\ mapInFlight' = map /\ epochInFlight' = epoch
    <3>1. Carries(draft', user')
      BY <1>c, <2>3, <2>5 DEF Carries
    <3>2. WillHave(user, mapInFlight)'
      BY <2>1, <2>5, <3>1 DEF WillHave
    <3>3. mapInFlight' # Nothing /\ epochInFlight' = epoch'
      BY <1>c, <2>1, <2>5
    <3>4. QED
      BY <2>2, <2>3, <3>2, <3>3
  <2>6. QED
    BY <1>3, <2>4, <2>5, SnapshotFields
<1>4. CASE AckMap
  <2>1. /\ mapInFlight' = Nothing /\ baseline' = IF CommitsMap THEN mapInFlight ELSE baseline
        /\ UNCHANGED <<user, epoch, building, draft>>
    BY <1>4 DEF AckMap, userVars, unacked, beatVars
  <2>2. ~ SnapshotMap
    BY <1>4 DEF AckMap, SnapshotMap, unbuilt, workVars
  <2>3. ASSUME baseline' # Empty
        PROVE  WillHave(user, baseline)'
    <3>1. CASE CommitsMap
      <4>1. WillHave(user, mapInFlight)
        BY <1>a, <3>1 DEF CommitsMap
      <4>2. \A u \in Users \cup {Nobody} : \A m : WillHave(u, m) => WillHave(u, m)'
        BY <1>a, <1>b, <2>2, WillHaveStep
      <4>3. \A u \in Users \cup {Nobody} : \A m : WillHave(u, m) /\ u = user' /\ m = baseline'
                                                => WillHave(user, baseline)'
        BY <4>2 DEF WillHave
      <4>4. QED
        BY <1>c, <2>1, <3>1, <4>1, <4>3
    <3>2. CASE ~ CommitsMap
      <4>1. WillHave(user, baseline)
        BY <1>a, <2>1, <2>3, <3>2 DEF CommitsMap
      <4>2. \A u \in Users \cup {Nobody} : \A m : WillHave(u, m) => WillHave(u, m)'
        BY <1>a, <1>b, <2>2, WillHaveStep
      <4>3. \A u \in Users \cup {Nobody} : \A m : WillHave(u, m) /\ u = user' /\ m = baseline'
                                                => WillHave(user, baseline)'
        BY <4>2 DEF WillHave
      <4>4. QED
        BY <1>c, <2>1, <3>2, <4>1, <4>3
    <3>3. QED
      BY <3>1, <3>2
  <2>4. QED
    BY <1>a, <2>1, <2>3
<1>5. CASE /\ UNCHANGED <<user, baseline, epoch, mapInFlight, epochInFlight>>
           /\ ~ SnapshotMap /\ ~ AckMap
  <2>1. Busy => Busy'
    BY <1>5, <1>b, BusyStep
  <2>2. \A u \in Users \cup {Nobody} : \A m : WillHave(u, m) => WillHave(u, m)'
    BY <1>5, <1>a, <1>b, WillHaveStep
  <2>3. \A u \in Users \cup {Nobody} : \A m : WillHave(u, m) /\ u = user' /\ m = baseline'
                                            => WillHave(user, baseline)'
    BY <2>2 DEF WillHave
  <2>4. \A u \in Users \cup {Nobody} : \A m : WillHave(u, m) /\ u = user' /\ m = mapInFlight'
                                            => WillHave(user, mapInFlight)'
    BY <2>2 DEF WillHave
  <2>5. building' # "no" => draft'.user = user'
    <3>1. CASE SnapshotUser
      BY <1>5, <3>1, SnapshotFields
    <3>2. CASE SnapshotDevice
      BY <1>5, <1>a, <3>2, SnapshotFields DEF SnapshotDevice
    <3>3. CASE (LoadDeviceFlag \/ RaiseCarry) /\ UNCHANGED draft
      BY <1>5, <1>a, <3>3 DEF LoadDeviceFlag, RaiseCarry
    <3>4. QED
      BY <1>5, <1>a, <3>1, <3>2, <3>3, DraftStep
  <2>6. WillHave(user, baseline) => WillHave(user, baseline)'
    BY <1>5, <1>c, <2>3
  <2>7. WillHave(user, mapInFlight) => WillHave(user, mapInFlight)'
    BY <1>5, <1>c, <2>4
  <2>8. QED
    BY <1>5, <1>a, <2>1, <2>5, <2>6, <2>7
<1>6. QED
  BY <1>2, <1>3, <1>4, <1>5, MapVarStep

-----------------------------------------------------------------------------
(* The invariant *)

\* A client that has just started satisfies it.
LEMMA HeartbeatInit == Init => HeartbeatInv
<1> SUFFICES ASSUME Init
             PROVE  HeartbeatInv
  OBVIOUS
<1>a. MaxOutstanding \in Nat \ {0} /\ MaxCalls \in Nat
  BY HeartbeatAssumption DEF HeartbeatAssumption
<1>b. /\ Nothing \notin Maps \cup {Empty} /\ Empty # Nothing
  BY HeartbeatAssumption DEF HeartbeatAssumption, Empty, Nothing
<1>1. /\ queue = <<>> /\ flying = {} /\ building = "no" /\ acking = "no"
      /\ mishaps = {} /\ ~ pending
  BY DEF Init
<1>2. DOMAIN queue = {} /\ queue \in Seq(Beat) /\ Len(queue) = 0 /\ Cardinality(flying) = 0
  BY <1>1, FS_EmptySet
<1>3. Outstanding = 0 /\ ~ Busy
  BY <1>1, <1>2 DEF Outstanding, Busy
<1>4. Beats = {} /\ DeviceKnown = {}
  BY <1>1, <1>2 DEF Beats, DeviceKnown
<1>5. Blank \in Beat
  BY DEF Blank, Beat
<1>6. TypeOK
  <2>1. serverMap \in [Users \cup {Nobody} -> Maps \cup {Empty}]
    BY DEF Init
  <2>2. Cardinality(flying) <= 1 /\ Outstanding <= MaxOutstanding /\ calls \in 0 .. MaxCalls
    BY <1>a, <1>2, <1>3 DEF Init
  <2>3. /\ epoch \in Nat /\ epochInFlight \in -1 .. epoch /\ stamped \in 0 .. epoch
        /\ owner \in 0 .. epoch /\ (mapInFlight = Nothing <=> epochInFlight = -1)
        /\ mapInFlight \in Maps \cup {Empty, Nothing}
    BY DEF Init
  <2>4. QED
    BY <1>1, <1>2, <1>5, <2>1, <2>2, <2>3 DEF Init, TypeOK
<1>7. OneFlying
  BY <1>1 DEF OneFlying
<1>8. LoginInv
  BY <1>1, <1>4 DEF Init, LoginInv, PlayersStayApart
<1>9. MarkerInv
  BY <1>1 DEF Init, MarkerInv
<1>10. DeviceInv
  BY <1>1, <1>4 DEF Init, DeviceInv
<1>11. MapInv
  BY <1>1 DEF Init, MapInv
<1>12. QED
  BY <1>6, <1>7, <1>8, <1>9, <1>10, <1>11 DEF HeartbeatInv

\* Every state of a run has its types, and the marker, the device and the map it carries
\* are where the invariant says.
THEOREM HeartbeatHolds == Spec => []HeartbeatInv
<1>1. Init => HeartbeatInv
  BY HeartbeatInit
<1>2. HeartbeatInv /\ [Next]_vars => HeartbeatInv'
  <2>1. ASSUME HeartbeatInv, Next
        PROVE  HeartbeatInv'
    <3>1. TypeOK' /\ OneFlying'
      BY <2>1, TypeStep, OneFlyingStep DEF HeartbeatInv
    <3>2. LoginInv' /\ MarkerInv' /\ DeviceInv' /\ MapInv'
      BY <2>1, LoginStep, MarkerStep, DeviceStep, MapStep DEF HeartbeatInv
    <3>3. QED
      BY <3>1, <3>2 DEF HeartbeatInv
  <2>2. ASSUME HeartbeatInv, UNCHANGED vars
        PROVE  HeartbeatInv'
    BY <2>2 DEF HeartbeatInv, TypeOK, OneFlying, LoginInv, PlayersStayApart, MarkerInv, DeviceInv,
                MapInv, WillHave, Carries, Beats, DeviceKnown, Busy, Outstanding, vars, userVars,
                deviceVars, mapVars, beatVars, workVars, serverVars
  <2>3. QED
    BY <2>1, <2>2
<1>3. QED
  BY <1>1, <1>2, PTL DEF Spec

\* Types: set_user, set_device, set_user_metadata, the build and the ack keep them.
THEOREM HeartbeatTypes == Spec => []TypeOK
<1>1. HeartbeatInv => TypeOK
  BY DEF HeartbeatInv
<1>2. QED
  BY <1>1, HeartbeatHolds, PTL

\* No beat of the provisional id carries the merge marker, and no beat that names a later
\* login carries an earlier one's map (Client::set_user, Client::heartbeat_loop).
THEOREM PlayersNeverMix == Spec => []PlayersStayApart
<1>1. HeartbeatInv => PlayersStayApart
  BY DEF HeartbeatInv, LoginInv
<1>2. QED
  BY <1>1, HeartbeatHolds, PTL

\* A merge marker stamped with no beat out is retired only when a beat that carries it has
\* reached the server, whatever is lost (Client::handle_heartbeat_ack).
THEOREM MarkerIsDelivered == Spec => []MarkerRetiredIsMerged
<1>1. HeartbeatInv => MarkerRetiredIsMerged
  BY DEF HeartbeatInv, MarkerInv, MarkerRetiredIsMerged
<1>2. QED
  BY <1>1, HeartbeatHolds, PTL

\* The client stops sending a device set with no beat out only when the server has it.
THEOREM DeviceIsDelivered == Spec => []DeviceSentIsDelivered
<1>1. HeartbeatInv => DeviceSentIsDelivered
  BY DEF HeartbeatInv, DeviceInv, DeviceSentIsDelivered
<1>2. QED
  BY <1>1, HeartbeatHolds, PTL

\* Between beats, the acked map is the one the server has for the current user, if no
\* beat was lost and no set_user fell into a build (the epoch guard of the ack).
THEOREM MapIsDelivered == Spec => []BaselineIsDelivered
<1>1. ASSUME HeartbeatInv
      PROVE  BaselineIsDelivered
  <2>1. SUFFICES ASSUME mishaps \cap {"lost", "login"} = {}, ~ Busy, baseline # Empty
                 PROVE  serverMap[user] = baseline
    BY DEF BaselineIsDelivered
  <2>2. mapInFlight = Nothing /\ WillHave(user, baseline)
    BY <1>1, <2>1 DEF HeartbeatInv, MapInv
  <2>3. building = "no" /\ queue = <<>> /\ flying = {}
    BY <1>1, <2>1, IdleFacts DEF HeartbeatInv
  <2>4. DOMAIN queue = {}
    BY <2>3
  <2>5. QED
    BY <2>2, <2>3, <2>4 DEF WillHave
<1>2. QED
  BY <1>1, HeartbeatHolds, PTL
=============================================================================

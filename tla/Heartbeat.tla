------------------------------ MODULE Heartbeat ------------------------------
(***************************************************************************)
(* What a heartbeat carries once and then stops carrying: the one-shot     *)
(* priorUserId merge marker, the device specs and the per-user metadata    *)
(* map.  Each rides the beats until a beat is acked, and the client keeps  *)
(* one "in flight" record of each for the beat it built last.              *)
(*                                                                         *)
(* Threads: the heartbeat thread building a beat under several locks taken *)
(* one after the other (Client::heartbeat_loop), the worker posting beats  *)
(* in queue order and handling their acks (Client::handle_heartbeat_ack),  *)
(* and the API callers (set_user, set_device, set_user_metadata).  Beats   *)
(* are ephemeral: one attempt, so a failed POST loses the beat.            *)
(***************************************************************************)
EXTENDS Integers, Sequences, FiniteSets

CONSTANTS
    Users,           \* the real user ids a game logs in with
    Devices,         \* the device specs a game reports
    Maps,            \* the non-empty metadata maps a game sets
    MayLose,         \* whether a POST may fail or its answer be lost
    MaxOutstanding,  \* bound on beats queued and in flight together
    MaxCalls         \* bound on API calls

ASSUME HeartbeatAssumption ==
    /\ MayLose \in BOOLEAN
    /\ MaxOutstanding \in Nat \ {0}
    /\ MaxCalls \in Nat
    /\ "nobody" \notin Users /\ "none" \notin Devices
    /\ {"empty", "nothing"} \cap Maps = {}

Nobody   == "nobody"    \* user_id_ empty: the provisional id is in effect
NoDevice == "none"      \* a device without content
Empty    == "empty"     \* the map {}
Nothing  == "nothing"   \* no metadata object, no in-flight record

\* A heartbeat job.  owner is history: the login the map belongs to; login is
\* history: the login the user id was read in.
Beat == [ user : Users \cup {Nobody}, prior : BOOLEAN,
          device : Devices \cup {NoDevice}, map : Maps \cup {Empty, Nothing},
          login : Nat, owner : Nat ]

Blank == [ user |-> Nobody, prior |-> FALSE, device |-> NoDevice, map |-> Nothing,
           login |-> 0, owner |-> 0 ]

VARIABLES
    (* Client *)
    capturing,      \* capture_allowed() && start_gate_.is_set()
    user,           \* user_id_
    pending,        \* pending_prior_user_id_ holds the provisional id
    priorInFlight,  \* prior_in_flight_ holds the provisional id
    device,         \* device_
    deviceSent,     \* device_sent_on_heartbeat_
    deviceCarry,    \* device_carry_in_flight_
    map,            \* user_metadata_
    baseline,       \* metadata_last_acked_json_
    epoch,          \* metadata_epoch_
    mapInFlight,    \* metadata_in_flight_json_
    epochInFlight,  \* metadata_in_flight_epoch_
    (* threads *)
    arming,         \* set_device after its device_ store: "no" | "sent" | "carry"
    building,       \* heartbeat thread: "no" | "flag" | "device" | "map" | "carry" | "send"
    draft,          \* the payload it has so far
    queue,          \* beats in the worker's queue
    flying,         \* the beat being posted or acked: {} or {beat}
    acking,         \* worker: "no" | "device" | "sent" | "prior" | "map"
    calls,          \* API calls made
    (* server *)
    serverDevice,   \* the device of the last beat that carried one
    serverMap,      \* per user, the map of the last beat that carried one
    (* history *)
    stamped,        \* the login (epoch) the merge marker was last stamped in
    merged,         \* a beat built since then carried the marker to the server
    owner,          \* the login (epoch) the metadata map belongs to
    mishaps         \* which races and losses have happened, see Mishap

userVars   == <<user, pending, priorInFlight, stamped>>
deviceVars == <<device, deviceSent, deviceCarry, arming>>
mapVars    == <<map, baseline, epoch, mapInFlight, epochInFlight, owner>>
beatVars   == <<building, draft>>
workVars   == <<queue, flying, acking>>
serverVars == <<serverDevice, serverMap, merged>>
vars == <<capturing, userVars, deviceVars, mapVars, beatVars, workVars, calls,
          serverVars, mishaps>>

Outstanding == Len(queue) + Cardinality(flying)

Busy == building # "no" \/ Outstanding > 0

\* What a beat may be disturbed by while it is built or outstanding: a new
\* marker, a set_device, a change of user during the build, or its loss.
Mishap == {"stamp", "device", "login", "lost"}

Note(mishap, happens) ==
    mishaps' = IF happens THEN mishaps \cup {mishap} ELSE mishaps

-----------------------------------------------------------------------------
(* API calls *)

Call ==
    /\ calls < MaxCalls
    /\ calls' = calls + 1
    /\ UNCHANGED <<beatVars, workVars, serverDevice, serverMap>>

\* set_consent and start_session, as far as the heartbeat loop sees them.
SetCapturing(on) ==
    /\ Call
    /\ capturing # on
    /\ capturing' = on
    /\ UNCHANGED <<userVars, deviceVars, mapVars, merged, mishaps>>

DropsMapNever(next) == FALSE

\* A switch away from a real id drops that player's map.
DropsMap(next) == next # user /\ user # Nobody

\* The merge marker after set_user(next): a logout drops it, the upgrade of the
\* provisional id stamps it, a switch between real ids leaves it alone.
MarkerAfter(next) ==
    IF next = Nobody THEN FALSE
    ELSE IF user = Nobody THEN TRUE ELSE pending

\* set_user(next) makes the provisional id the pending prior.
Stamps(next) == next # Nobody /\ user = Nobody

\* set_user holds user_mutex_ (and metadata_mutex_ within it) throughout.
SetUser(next) ==
    /\ Call
    /\ IF next # user
       THEN /\ map' = IF DropsMap(next) THEN Empty ELSE map
            /\ owner' = IF DropsMap(next) \/ user = Nobody THEN epoch + 1 ELSE owner
            /\ baseline' = Empty
            /\ epoch' = epoch + 1
       ELSE UNCHANGED <<map, owner, baseline, epoch>>
    /\ pending' = MarkerAfter(next)
    /\ stamped' = IF Stamps(next) THEN epoch + 1 ELSE stamped
    /\ merged' = (merged /\ ~Stamps(next))
    /\ user' = next
    /\ mishaps' = mishaps \cup (IF Stamps(next) /\ Busy THEN {"stamp"} ELSE {})
                          \cup (IF next # user /\ building # "no" THEN {"login"} ELSE {})
    /\ UNCHANGED <<capturing, priorInFlight, deviceVars, mapInFlight, epochInFlight>>

\* set_user_metadata replaces the whole map.
SetMap(m) ==
    /\ Call
    /\ map' = m
    /\ owner' = epoch
    /\ UNCHANGED <<capturing, userVars, deviceVars, baseline, epoch, mapInFlight,
                   epochInFlight, merged, mishaps>>

\* set_device: the store of device_ under match_mutex_, then two atomic stores.
\* One call at a time is explored.
SetDevice(d) ==
    /\ Call
    /\ arming = "no"
    /\ device' = d
    /\ arming' = "sent"
    /\ Note("device", Busy)
    /\ UNCHANGED <<capturing, userVars, deviceSent, deviceCarry, mapVars, merged>>

ArmMutant ==
    /\ \/ arming = "sent" /\ arming' = "carry" /\ UNCHANGED <<deviceSent, deviceCarry>>
       \/ arming = "carry" /\ deviceCarry' = FALSE /\ arming' = "no"
          /\ UNCHANGED deviceSent
    /\ Note("device", Busy)
    /\ UNCHANGED <<capturing, userVars, device, mapVars, beatVars, workVars, calls,
                   serverVars>>

Arm ==
    /\ \/ arming = "sent" /\ deviceSent' = FALSE /\ arming' = "carry"
          /\ UNCHANGED deviceCarry
       \/ arming = "carry" /\ deviceCarry' = FALSE /\ arming' = "no"
          /\ UNCHANGED deviceSent
    /\ Note("device", Busy)
    /\ UNCHANGED <<capturing, userVars, device, mapVars, beatVars, workVars, calls,
                   serverVars>>

-----------------------------------------------------------------------------
(* The heartbeat thread builds one beat *)

unbuilt == <<capturing, workVars, calls, serverVars, mishaps>>

CarriesMarker == pending

\* One lock, so id and prior never diverge.
SnapshotUser ==
    /\ building = "no"
    /\ capturing
    /\ Outstanding < MaxOutstanding
    /\ draft' = [Blank EXCEPT !.user = user, !.prior = CarriesMarker, !.login = epoch]
    /\ priorInFlight' = (priorInFlight \/ CarriesMarker)
    /\ building' = "flag"
    /\ UNCHANGED <<user, pending, stamped, deviceVars, mapVars, unbuilt>>

LoadDeviceFlag ==
    /\ building = "flag"
    /\ building' = IF deviceSent THEN "map" ELSE "device"
    /\ UNCHANGED <<userVars, deviceVars, mapVars, draft, unbuilt>>

SnapshotDevice ==
    /\ building = "device"
    /\ draft' = [draft EXCEPT !.device = device]
    /\ building' = "map"
    /\ UNCHANGED <<userVars, deviceVars, mapVars, unbuilt>>

\* Change detection: the map is carried only when it is not the acked one.
SnapshotMap ==
    /\ building = "map"
    /\ IF map # baseline
       THEN /\ mapInFlight' = map
            /\ epochInFlight' = epoch
            /\ draft' = [draft EXCEPT !.map = map, !.owner = owner]
       ELSE UNCHANGED <<mapInFlight, epochInFlight, draft>>
    /\ building' = "carry"
    /\ UNCHANGED <<userVars, deviceVars, map, baseline, epoch, owner, unbuilt>>

RaiseCarry ==
    /\ building = "carry"
    /\ deviceCarry' = (deviceCarry \/ draft.device # NoDevice)
    /\ building' = "send"
    /\ UNCHANGED <<userVars, device, deviceSent, arming, mapVars, draft, unbuilt>>

EnqueueBeat ==
    /\ building = "send"
    /\ queue' = Append(queue, draft)
    /\ draft' = Blank
    /\ building' = "no"
    /\ UNCHANGED <<capturing, userVars, deviceVars, mapVars, flying, acking, calls,
                   serverVars, mishaps>>

-----------------------------------------------------------------------------
(* The worker posts beats in order and handles their acks *)

TakeBeat ==
    /\ flying = {}
    /\ queue # <<>>
    /\ flying' = {Head(queue)}
    /\ queue' = Tail(queue)
    /\ UNCHANGED <<capturing, userVars, deviceVars, mapVars, beatVars, acking, calls,
                   serverVars, mishaps>>

\* What a delivered beat tells the server.
ServerHears(beat) ==
    /\ serverDevice' = IF beat.device # NoDevice THEN beat.device ELSE serverDevice
    /\ serverMap' = IF beat.map # Nothing
                    THEN [serverMap EXCEPT ![beat.user] = beat.map] ELSE serverMap
    /\ merged' = (merged \/ (beat.prior /\ beat.login >= stamped))

\* The POST succeeds: the ack is handled next.
Delivered ==
    /\ acking = "no"
    /\ \E beat \in flying : ServerHears(beat)
    /\ acking' = "device"
    /\ UNCHANGED <<capturing, userVars, deviceVars, mapVars, beatVars, queue, flying,
                   calls, mishaps>>

LostMutant(reached) ==
    /\ MayLose
    /\ acking = "no"
    /\ \E beat \in flying : IF reached THEN ServerHears(beat) ELSE UNCHANGED serverVars
    /\ acking' = "device"
    /\ Note("lost", TRUE)
    /\ UNCHANGED <<capturing, userVars, deviceVars, mapVars, beatVars, queue, flying,
                   calls>>

\* The POST fails, before or after the server took the beat.
Lost(reached) ==
    /\ MayLose
    /\ acking = "no"
    /\ \E beat \in flying : IF reached THEN ServerHears(beat) ELSE UNCHANGED serverVars
    /\ flying' = {}
    /\ Note("lost", TRUE)
    /\ UNCHANGED <<capturing, userVars, deviceVars, mapVars, beatVars, queue, acking,
                   calls>>

unacked == <<capturing, beatVars, queue, calls, serverVars, mishaps>>

\* device_carry_in_flight_.exchange(false) ...
AckDevice ==
    /\ acking = "device"
    /\ deviceCarry' = FALSE
    /\ acking' = IF deviceCarry THEN "sent" ELSE "prior"
    /\ UNCHANGED <<userVars, device, deviceSent, arming, mapVars, flying, unacked>>

\* ... and, when it was raised, device_sent_on_heartbeat_.store(true).
AckDeviceSent ==
    /\ acking = "sent"
    /\ deviceSent' = TRUE
    /\ acking' = "prior"
    /\ UNCHANGED <<userVars, device, deviceCarry, arming, mapVars, flying, unacked>>

\* Both hold the provisional id or are empty, so equal means both are set.
RetiresMarker == priorInFlight /\ pending

AckPrior ==
    /\ acking = "prior"
    /\ pending' = (pending /\ ~RetiresMarker)
    /\ priorInFlight' = FALSE
    /\ acking' = "map"
    /\ UNCHANGED <<user, stamped, deviceVars, mapVars, flying, unacked>>

CommitsAnyEpoch == mapInFlight # Nothing

CommitsNever == FALSE

CommitsAlways == TRUE

\* A commit is void when set_user moved the epoch after the beat was built.
CommitsMap == mapInFlight # Nothing /\ epochInFlight = epoch

AckMap ==
    /\ acking = "map"
    /\ baseline' = IF CommitsMap THEN mapInFlight ELSE baseline
    /\ mapInFlight' = Nothing
    /\ epochInFlight' = -1
    /\ acking' = "no"
    /\ flying' = {}
    /\ UNCHANGED <<userVars, deviceVars, map, epoch, owner, unacked>>
-----------------------------------------------------------------------------

Init ==
    /\ capturing = FALSE
    /\ user = Nobody /\ pending = FALSE /\ priorInFlight = FALSE
    /\ device = NoDevice /\ deviceSent = FALSE /\ deviceCarry = FALSE
    /\ map = Empty /\ baseline = Empty /\ epoch = 0
    /\ mapInFlight = Nothing /\ epochInFlight = -1
    /\ arming = "no" /\ building = "no" /\ draft = Blank
    /\ queue = <<>> /\ flying = {} /\ acking = "no" /\ calls = 0
    /\ serverDevice = NoDevice /\ serverMap = [u \in Users \cup {Nobody} |-> Empty]
    /\ stamped = 0 /\ merged = FALSE /\ owner = 0 /\ mishaps = {}

ApiStep ==
    \/ \E on \in BOOLEAN : SetCapturing(on)
    \/ \E next \in Users \cup {Nobody} : SetUser(next)
    \/ \E m \in Maps \cup {Empty} : SetMap(m)
    \/ \E d \in Devices \cup {NoDevice} : SetDevice(d)

BuildStep ==
    \/ SnapshotUser \/ LoadDeviceFlag \/ SnapshotDevice \/ SnapshotMap \/ RaiseCarry
    \/ EnqueueBeat

WorkStep ==
    \/ TakeBeat
    \/ Delivered
    \/ \E reached \in BOOLEAN : Lost(reached)
    \/ AckDevice \/ AckDeviceSent \/ AckPrior \/ AckMap

\* The game makes no more calls and nothing is captured or under way.
Over == ~capturing /\ ~Busy /\ arming = "no" /\ calls = MaxCalls /\ UNCHANGED vars

Next == ApiStep \/ Arm \/ BuildStep \/ WorkStep \/ Over

Spec == Init /\ [][Next]_vars

\* The threads are scheduled, every POST ends, a set_device under way returns,
\* and a server that is asked again and again answers in the end.
Fairness ==
    /\ WF_vars(Arm) /\ WF_vars(BuildStep) /\ WF_vars(WorkStep)
    /\ SF_vars(Delivered)

FairSpec == Spec /\ Fairness

-----------------------------------------------------------------------------
(* Properties *)

Beats == {queue[i] : i \in DOMAIN queue} \cup flying
           \cup (IF building = "no" THEN {} ELSE {draft})

\* Types, and which steps of the build and of the ack handler have a beat.
TypeOK ==
    /\ capturing \in BOOLEAN
    /\ user \in Users \cup {Nobody} /\ pending \in BOOLEAN /\ priorInFlight \in BOOLEAN
    /\ device \in Devices \cup {NoDevice} /\ deviceSent \in BOOLEAN /\ deviceCarry \in BOOLEAN
    /\ map \in Maps \cup {Empty} /\ baseline \in Maps \cup {Empty}
    /\ epoch \in Nat /\ epochInFlight \in -1 .. epoch
    /\ mapInFlight \in Maps \cup {Empty, Nothing}
    /\ mapInFlight = Nothing <=> epochInFlight = -1
    /\ arming \in {"no", "sent", "carry"}
    /\ building \in {"no", "flag", "device", "map", "carry", "send"}
    /\ draft \in Beat /\ queue \in Seq(Beat) /\ flying \subseteq Beat
    /\ Cardinality(flying) <= 1 /\ Outstanding <= MaxOutstanding
    /\ acking \in {"no", "device", "sent", "prior", "map"}
    /\ acking # "no" => flying # {}
    /\ calls \in 0 .. MaxCalls
    /\ serverDevice \in Devices \cup {NoDevice}
    /\ serverMap \in [Users \cup {Nobody} -> Maps \cup {Empty}]
    /\ stamped \in 0 .. epoch /\ owner \in 0 .. epoch
    /\ merged \in BOOLEAN /\ mishaps \subseteq Mishap

\* set_user: "logged-out telemetry must never merge into anyone" and "one player's
\* displayName/attrs never bleed onto the next": no beat, built, queued or posted,
\* carries the merge marker under the provisional id, and a map that belongs to an
\* earlier login never rides a beat that names a later one.
PlayersStayApart ==
    \A beat \in Beats :
       /\ beat.prior => beat.user # Nobody
       /\ beat.map \in Maps => beat.owner >= beat.login

\* The marker "rides every beat until one carrying it is acked": it is retired
\* only when a beat built since it was stamped has reached the server, however
\* many beats are lost or overlap.  (Not when set_user stamps it anew while an
\* older beat is still out: see NoClobberedMarker.)
MarkerRetiredIsMerged ==
    "stamp" \notin mishaps /\ user # Nobody /\ ~pending => merged

\* "Device specs ride the beat until one is acked": once the client stops
\* sending them the server has the current ones, unless set_device ran while a
\* beat was being built or was out (see DeviceRearmed).
DeviceSentIsDelivered ==
    ("device" \notin mishaps /\ deviceSent /\ arming = "no" /\ device # NoDevice)
       => serverDevice = device

\* "Carry the map only when its canonical JSON differs from the last one a beat
\* ACKED": between beats the acked baseline is what the server holds for the
\* current user, if no beat was lost and no login fell into a build.
BaselineIsDelivered ==
    (mishaps \cap {"lost", "login"} = {} /\ ~Busy /\ baseline # Empty)
       => serverMap[user] = baseline

\* Everything that is carried until acked is acked in the end when the game
\* falls silent, captures, and the server answers now and then.
CarryConverges ==
    <>[]capturing => <>[](~pending /\ (deviceSent \/ device = NoDevice) /\ baseline = map)

\* handle_heartbeat_ack: "a late ack cannot clobber a marker re-stamped by a
\* newer set_user transition".
NoClobberedMarker == user # Nobody /\ ~pending => merged

\* set_device: "the new specs ride beats until acked".
DeviceRearmed ==
    (~Busy /\ deviceSent /\ arming = "no" /\ device # NoDevice) => serverDevice = device

\* set_user: "The epoch bump voids an in-flight commit from a beat built before
\* this change".
LoginVoidsCommit ==
    ("lost" \notin mishaps /\ ~Busy /\ baseline # Empty) => serverMap[user] = baseline
=============================================================================

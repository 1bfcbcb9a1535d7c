-------------------------------- MODULE PreInit --------------------------------
(***************************************************************************)
(* What a game chooses and captures before tombstone_init: the pre-init    *)
(* store, its replay into the new client, and, as history, what the same   *)
(* calls would have done to a client that had been there from the start.   *)
(*                                                                         *)
(* g_client_mutex makes each call and the whole of tombstone_init one step *)
(* here; what races with them is in Telemetry.  An event and a metric are  *)
(* both a track.  Captures are numbered as they are made.                  *)
(***************************************************************************)
EXTENDS Integers, Sequences, SequencesExt

CONSTANTS
    Users, Environments, Maps,   \* real user ids, environments, non-empty metadata
    MaxCrumbs,      \* PreInitStore::max_breadcrumbs
    MaxTracks,      \* PreInitStore::max_tracks
    RingSize,       \* capacity of the client's breadcrumb ring
    MaxBatch,       \* Batch::max_items
    MaxCalls        \* bound on the calls explored

ASSUME PreInitAssumption ==
    /\ {MaxCrumbs, MaxTracks, RingSize, MaxBatch} \subseteq Nat \ {0}
    /\ RingSize >= 1 /\ MaxCrumbs >= RingSize /\ MaxBatch >= MaxTracks
    /\ MaxCalls \in Nat

Unset  == "unset"     \* not remembered, an unset environment, or no argument
Nobody == "nobody"    \* the empty user id
Empty  == "empty"     \* the map {}

Consents == {"granted", "refused"}

\* The calls that set something, as <<what, value>>; a capture is <<what, number>>.
Settings ==
    ({"consent"} \X Consents) \cup ({"user"} \X (Users \cup {Nobody}))
    \cup ({"environment"} \X (Environments \cup {Unset}))
    \cup ({"map"} \X (Maps \cup {Empty})) \cup { <<"start", Unset>> }

\* What tombstone_init is given: consent_granted, environment, auto_start_session.
Options == [ consent : Consents, environment : Environments \cup {Unset}, start : BOOLEAN ]

VARIABLES
    client,     \* g_client: a sequence of one client or none
    store,      \* g_preinit
    calls,      \* calls made
    (* history *)
    ideal,      \* options -> the client these options and the calls would have made
    switched    \* the player changed after the metadata was last set

vars == <<client, store, calls, ideal, switched>>

NewClient(o) ==
    [ consent |-> o.consent, user |-> Nobody, prior |-> FALSE, map |-> Empty,
      environment |-> o.environment, gate |-> o.start, crumbs |-> <<>>, tracks |-> <<>> ]

EmptyStore ==
    [ consent |-> Unset, user |-> Unset, environment |-> Unset, map |-> Unset,
      crumbs |-> <<>>, tracks |-> <<>>, start |-> FALSE ]

Init ==
    /\ client = <<>> /\ store = EmptyStore /\ calls = 0
    /\ ideal = [o \in Options |-> NewClient(o)] /\ switched = FALSE

-----------------------------------------------------------------------------
(* The calls of a client *)

DropOldest(s, n, size) == Append(IF Len(s) >= size THEN Tail(s) ELSE s, n)

\* A change of the player drops the map of a real one; the merge marker is
\* stamped by a login out of the provisional id and dropped by a logout.
SetUser(c, next) ==
    [c EXCEPT !.user = next,
              !.map = IF next # c.user /\ c.user # Nobody THEN Empty ELSE @,
              !.prior = next # Nobody /\ (@ \/ c.user = Nobody)]

SetConsent(c, choice) ==
    [c EXCEPT !.consent = choice,
              !.crumbs = IF choice = "refused" THEN <<>> ELSE @]

SetEnvironment(c, e) == IF e = Unset THEN c ELSE [c EXCEPT !.environment = e]

Capture(c, call) ==
    CASE c.consent = "refused" -> c
      [] call[1] = "crumb" -> [c EXCEPT !.crumbs = DropOldest(@, call[2], RingSize)]
      [] OTHER             -> [c EXCEPT !.tracks = DropOldest(@, call[2], MaxBatch)]

Do(c, call) ==
    CASE call[1] = "consent"     -> SetConsent(c, call[2])
      [] call[1] = "user"        -> SetUser(c, call[2])
      [] call[1] = "environment" -> SetEnvironment(c, call[2])
      [] call[1] = "map"         -> [c EXCEPT !.map = call[2]]
      [] call[1] = "start"       -> [c EXCEPT !.gate = TRUE]
      [] OTHER                   -> Capture(c, call)

-----------------------------------------------------------------------------
(* PreInitStore and its replay *)

\* The last write wins, crumbs drop the oldest, tracks the newest.
Remember(s, call) ==
    CASE call[1] = "environment" -> IF call[2] = Unset THEN s ELSE [s EXCEPT !.environment = call[2]]
      [] call[1] = "crumb"  -> [s EXCEPT !.crumbs = DropOldest(@, call[2], MaxCrumbs)]
      [] call[1] = "track"  -> [s EXCEPT !.tracks = IF Len(@) >= MaxTracks THEN @ ELSE Append(@, call[2])]
      [] call[1] = "start"  -> [s EXCEPT !.start = TRUE]
      [] OTHER              -> [s EXCEPT ![call[1]] = call[2]]

One(op, value) == IF value = Unset THEN <<>> ELSE << <<op, value>> >>

Each(op, s) == [i \in DOMAIN s |-> <<op, s[i]>>]

ReplayMutant(s) ==
    One("user", s.user) \o One("environment", s.environment)
    \o One("map", s.map) \o Each("crumb", s.crumbs) \o Each("track", s.tracks)
    \o One("consent", s.consent)
    \o (IF s.start THEN << <<"start", Unset>> >> ELSE <<>>)

\* replay_preinit: the calls it makes on the new client, in its order.
Replay(s) ==
    One("consent", s.consent) \o One("user", s.user) \o One("environment", s.environment)
    \o One("map", s.map) \o Each("crumb", s.crumbs) \o Each("track", s.tracks)
    \o (IF s.start THEN << <<"start", Unset>> >> ELSE <<>>)

-----------------------------------------------------------------------------

\* A call of the C interface: on the client, or into the store.
CallOrBuffer(call) ==
    /\ calls < MaxCalls
    /\ calls' = calls + 1
    /\ IF client # <<>>
       THEN /\ client' = <<Do(client[1], call)>>
            /\ UNCHANGED <<store, ideal, switched>>
       ELSE /\ store' = Remember(store, call)
            /\ ideal' = [o \in Options |-> Do(ideal[o], call)]
            /\ switched' = CASE call[1] = "map"  -> FALSE
                             [] call[1] = "user" -> switched \/ store.user \notin {Unset, Nobody, call[2]}
                             [] OTHER -> switched
            /\ UNCHANGED client

\* set_user, set_consent, start_session, set_environment, set_user_metadata.
SetterCall(setting) == CallOrBuffer(setting)

\* add_breadcrumb, track_event, track_metric.
CaptureCall(what) == CallOrBuffer(<<what, calls + 1>>)

\* tombstone_init: options, replay, clear, publication.
TombstoneInit(o) ==
    /\ client = <<>>
    /\ client' = <<FoldLeft(Do, NewClient(o), Replay(store))>>
    /\ store' = EmptyStore
    /\ ideal' = [p \in Options |-> NewClient(p)] /\ switched' = FALSE
    /\ UNCHANGED calls

\* tombstone_shutdown: the next calls are remembered for the next init.
TombstoneShutdown ==
    /\ client # <<>> /\ calls < MaxCalls
    /\ client' = <<>>
    /\ calls' = calls + 1
    /\ UNCHANGED <<store, ideal, switched>>

\* The bound on the calls is used up and a client is published.
Over == client # <<>> /\ calls = MaxCalls /\ UNCHANGED vars

Next ==
    \/ \E setting \in Settings : SetterCall(setting)
    \/ \E what \in {"crumb", "track"} : CaptureCall(what)
    \/ \E o \in Options : TombstoneInit(o)
    \/ TombstoneShutdown
    \/ Over

Spec == Init /\ [][Next]_vars

-----------------------------------------------------------------------------
(* Properties *)

\* "Replayed in order at init, after the options are applied - an explicit pre-init
\* Set* beats the matching init option" (tombstone.h): the client that init
\* publishes is the one the game would have had, had it been there from the start.
\* Its consent, player, merge marker, environment and gate are the same, and its
\* metadata unless the player changed behind it; its trail ends in the trail that
\* would have been, and its tracks hold those that would have been, in order and
\* up to the cap; and when consent stands refused nothing is held at all.
ReplayIsLive ==
    [][ \A o \in Options : TombstoneInit(o) =>
          LET now == client'[1]
              was == ideal[o]
          IN  /\ [f \in {"consent", "user", "prior", "environment", "gate"} |-> now[f]]
                   = [f \in {"consent", "user", "prior", "environment", "gate"} |-> was[f]]
              /\ ~ switched => now.map = was.map
              /\ now.consent = "refused" => now.crumbs = <<>> /\ now.tracks = <<>>
              /\ now.consent = "granted" =>
                   /\ IsSuffix(was.crumbs, now.crumbs)
                   /\ \A i, j \in DOMAIN now.tracks : i < j => now.tracks[i] < now.tracks[j]
                   /\ Len(store.tracks) < MaxTracks => Range(was.tracks) \subseteq Range(now.tracks) ]_vars

\* "The map is keyed to the current user: tombstone_set_user to a different id
\* drops it" (tombstone.h), also when both calls are made before init.
MapOfCurrentUser ==
    [][ \A o \in Options : TombstoneInit(o) => client'[1].map = ideal[o].map ]_vars

\* "While 0, nothing is recorded" (tombstone.h, of set_consent), also before init.
NothingWhileRefused ==
    [][ \A o \in Options : TombstoneInit(o) =>
          Range(client'[1].crumbs) \subseteq Range(ideal[o].crumbs) ]_vars
=============================================================================

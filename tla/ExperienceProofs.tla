-------------------------- MODULE ExperienceProofs --------------------------
(* Proofs about the five places in which an experience is on a screen, each on *)
(* its own, for any plans, actions, listeners and threads, and any bounds:     *)
(* the native adapter with its surface (NativeExperience), the session of a    *)
(* native application (NativeSession), a published experience that runs        *)
(* (StudioRuntimeSession), the resolver that mounts what is published          *)
(* (ExperienceResolver), and the web SDK (WebSdk).  What they share is that    *)
(* somebody is called in the middle of a step: the host answers late, a        *)
(* listener or the DOM port calls back, a registry resolves when the instance  *)
(* is gone.                                                                    *)
EXTENDS Integers, Sequences, FiniteSets, FiniteSetTheorems, SequenceTheorems,
        WellFoundedInduction, TLAPS

CONSTANTS
  MaxCapabilities, MaxSafe, Rules, FirstPlan, Patch,                 \* of all
  NativeView, NativeEntry, NativeInteraction, MaxHost, MaxGeneration,  \* of a native surface
  Listener, Thread, LastRevision, MaxLives,                          \* of an application
  View, EntryView, Interaction, Size, MaxRepeat, MaxNodes, MaxDispatches,
                                                                     \* of a published experience
  NotThere, MaxArtifacts, MaxEntrypoints, MaxManifests, MaxListings, MaxMatches,
  MaxImplementations, Call, Instance, Deployment, Registry, Host, Target, Requirement,
  MaxInstances,                                                      \* of a resolver
  Action, MaxSessions, MaxDepth, MaxHeard                            \* of the web SDK

VARIABLES
  hostAt, pushes, held, fault, adapterEnded, core, view, generation, ended, flight,
  painted, issue, surfaceEnded, past,                                \* a native surface
  lifecycle, appEnded, listeners, telling, toldOf, kept, lives,      \* an application
  shown, current, waiting, unfinished, studioEnded, size, actions,   \* a published experience
  mounted, reserved, calls, gone,                                    \* a resolver
  sessions, active, screen, notifying, webEnded, stack, heard, portCalled   \* the web SDK

Native == INSTANCE NativeExperience WITH
  View <- NativeView, EntryView <- NativeEntry, Interaction <- NativeInteraction

App == INSTANCE NativeSession WITH
  MaxRevision <- LastRevision, state <- lifecycle, disposed <- appEnded, heard <- toldOf

Studio == INSTANCE StudioRuntimeSession WITH
  view <- shown, pending <- waiting, ended <- studioEnded

Resolver == INSTANCE ExperienceResolver WITH
  Refused <- NotThere, Missing <- NotThere, pending <- reserved, disposed <- gone

Web == INSTANCE WebSdk WITH disposed <- webEnded

-----------------------------------------------------------------------------
(* A native surface: what a person sees of an experience on iOS.              *)

\* The inductive invariant.  What is shown is never ahead of the session and the
\* adapter; an action that the host has came from the view that is current; and what
\* came back is as OutcomeIsTheHosts says, at a revision that can be compared.
NativeHolds ==
  /\ hostAt \in Nat /\ held \in Nat /\ pushes \subseteq Nat /\ generation \in Nat
  /\ fault \in BOOLEAN /\ adapterEnded \in BOOLEAN /\ ended \in BOOLEAN
  /\ surfaceEnded \in BOOLEAN /\ issue \in BOOLEAN
  /\ painted.generation \in Nat /\ painted.generation <= generation
  /\ painted.revision \in Nat /\ painted.revision <= held
  /\ flight # Native!NoFlight =>
       /\ flight = [at |-> flight.at, from |-> flight.from, routes |-> flight.routes,
                    answer |-> flight.answer]
       /\ flight.at = "answered" => flight.answer.revision \in Nat
  /\ past # Native!Nothing => past.at \in Nat
  /\ Native!ScreenIsCurrent
  /\ Native!OutcomeIsTheHosts

\* What a step leaves to the surface: a refresh after it, or nothing to see.
LEMMA RefreshFacts ==
  ASSUME Native!Refresh, issue \in BOOLEAN, surfaceEnded \in BOOLEAN
  PROVE  /\ issue' \in BOOLEAN /\ surfaceEnded' \in BOOLEAN
         /\ painted' = painted \/ painted' = Native!Picture(view', generation', held')
         /\ Native!ScreenIsCurrent'
<1>1. CASE surfaceEnded /\ UNCHANGED <<painted, issue, surfaceEnded>>
  BY <1>1 DEF Native!ScreenIsCurrent
<1>2. CASE ~surfaceEnded /\ painted' = Native!Picture(view', generation', held') /\ issue' = FALSE
           /\ UNCHANGED surfaceEnded
  BY <1>2 DEF Native!ScreenIsCurrent
<1>3. CASE ~surfaceEnded /\ issue' = TRUE /\ UNCHANGED <<painted, surfaceEnded>>
  BY <1>3 DEF Native!ScreenIsCurrent
<1>4. QED
  BY <1>1, <1>2, <1>3 DEF Native!Refresh, Native!surfaceVars

LEMMA PictureFacts ==
  ASSUME NEW v, NEW g, NEW r
  PROVE  /\ Native!Picture(v, g, r).view = v /\ Native!Picture(v, g, r).generation = g
         /\ Native!Picture(v, g, r).revision = r
BY DEF Native!Picture

\* The picture only goes forward when what it is made of does.
LEMMA PaintedFacts ==
  ASSUME NativeHolds, generation' \in Nat, held' \in Nat, generation <= generation', held <= held',
         painted' = painted \/ painted' = Native!Picture(view', generation', held')
  PROVE  /\ painted'.generation \in Nat /\ painted'.generation <= generation'
         /\ painted'.revision \in Nat /\ painted'.revision <= held'
         /\ painted'.generation >= painted.generation /\ painted'.revision >= painted.revision
<1>1. CASE painted' = painted
  BY <1>1 DEF NativeHolds
<1>2. CASE painted' = Native!Picture(view', generation', held')
  <2>1. painted'.generation = generation' /\ painted'.revision = held'
    BY <1>2, PictureFacts
  <2>2. QED
    BY <2>1 DEF NativeHolds
<1>3. QED
  BY <1>1, <1>2

Forward == painted'.revision >= painted.revision /\ painted'.generation >= painted.generation

LEMMA CompleteFacts ==
  ASSUME NEW routes, NEW outcome, generation \in Nat, Native!Complete(routes, outcome)
  PROVE  generation' \in Nat /\ generation <= generation'
BY DEF Native!Complete

LEMMA ReceiveHolds ==
  ASSUME NativeHolds, NEW r \in pushes, Native!Receive(r)
  PROVE  NativeHolds' /\ Forward
<1>1. r \in Nat /\ pushes' \subseteq Nat
      /\ UNCHANGED <<hostAt, core, view, generation, ended, flight, past>>
  BY DEF NativeHolds, Native!Receive, Native!sessionVars
<1>2. CASE UNCHANGED <<held, fault, adapterEnded, painted, issue, surfaceEnded>>
  BY <1>1, <1>2 DEF NativeHolds, Native!ScreenIsCurrent, Native!OutcomeIsTheHosts,
     Native!Healthy, Forward
<1>3. CASE fault' = TRUE /\ UNCHANGED <<held, adapterEnded, painted, issue, surfaceEnded>>
  BY <1>1, <1>3 DEF NativeHolds, Native!ScreenIsCurrent, Native!OutcomeIsTheHosts,
     Native!Healthy, Forward
<1>4. CASE r > held /\ held' = r /\ UNCHANGED <<fault, adapterEnded>> /\ Native!Refresh
  <2>1. issue' \in BOOLEAN /\ surfaceEnded' \in BOOLEAN /\ Native!ScreenIsCurrent'
        /\ (painted' = painted \/ painted' = Native!Picture(view', generation', held'))
    BY <1>4, RefreshFacts DEF NativeHolds
  <2>2. held' \in Nat /\ held <= held' /\ generation' \in Nat /\ generation <= generation'
    BY <1>1, <1>4 DEF NativeHolds
  <2>3. Native!OutcomeIsTheHosts'
    BY <1>1, <1>4, <2>2 DEF NativeHolds, Native!OutcomeIsTheHosts, Native!Healthy
  <2>4. QED
    BY <1>1, <1>4, <2>1, <2>2, <2>3, PaintedFacts DEF NativeHolds, Forward
<1>5. \/ UNCHANGED <<held, fault, adapterEnded, painted, issue, surfaceEnded>>
      \/ fault' = TRUE /\ UNCHANGED <<held, adapterEnded, painted, issue, surfaceEnded>>
      \/ r # held /\ ~(r < held) /\ held' = r /\ UNCHANGED <<fault, adapterEnded>> /\ Native!Refresh
  BY DEF Native!Receive, Native!adapterVars, Native!surfaceVars
<1>6. r # held /\ ~(r < held) => r > held
  BY <1>1 DEF NativeHolds
<1>7. QED
  BY <1>2, <1>3, <1>4, <1>5, <1>6

LEMMA EmitHolds ==
  ASSUME NativeHolds, NEW x \in NativeInteraction, Native!Emit(x)
  PROVE  NativeHolds' /\ Forward
<1>1. /\ flight = Native!NoFlight /\ ended = FALSE
      /\ UNCHANGED <<hostAt, pushes, held, fault, adapterEnded, ended, past>>
  BY DEF Native!Emit, Native!Begin, Native!CanView, Native!hostVars, Native!adapterVars, NativeHolds
<1>2. CASE Native!BuiltIn(x.action)
  <2>1. Native!Complete(x.routes, "success") /\ UNCHANGED flight /\ Native!Refresh
    BY <1>2 DEF Native!Emit, Native!Begin
  <2>2. generation' \in Nat /\ generation <= generation'
    BY <2>1, CompleteFacts DEF NativeHolds
  <2>3. issue' \in BOOLEAN /\ surfaceEnded' \in BOOLEAN /\ Native!ScreenIsCurrent'
        /\ (painted' = painted \/ painted' = Native!Picture(view', generation', held'))
    BY <2>1, RefreshFacts DEF NativeHolds
  <2>4. Native!OutcomeIsTheHosts'
    BY <1>1, <2>1 DEF NativeHolds, Native!OutcomeIsTheHosts, Native!Healthy
  <2>5. QED
    BY <1>1, <2>1, <2>2, <2>3, <2>4, PaintedFacts DEF NativeHolds, Forward
<1>3. CASE ~Native!BuiltIn(x.action)
  <2>1. /\ flight' = [at |-> "host", from |-> view, routes |-> x.routes, answer |-> Native!NoAnswer]
        /\ UNCHANGED <<view, generation, painted, issue, surfaceEnded>>
    BY <1>3 DEF Native!Emit, Native!Begin, Native!surfaceVars
  <2>2. /\ flight' = [at |-> flight'.at, from |-> flight'.from, routes |-> flight'.routes,
                      answer |-> flight'.answer]
        /\ flight'.at # "answered" /\ flight'.from = view
    BY <2>1
  <2>3. Native!OutcomeIsTheHosts' /\ Native!ScreenIsCurrent'
    BY <1>1, <2>1, <2>2 DEF NativeHolds, Native!OutcomeIsTheHosts, Native!ScreenIsCurrent,
       Native!Healthy
  <2>4. QED
    BY <1>1, <2>1, <2>2, <2>3 DEF NativeHolds, Forward
<1>4. QED
  BY <1>2, <1>3

LEMMA HostAnswersHolds ==
  ASSUME NativeHolds, NEW outcome \in Native!Outcome, NEW moves \in BOOLEAN,
         Native!HostAnswers(outcome, moves)
  PROVE  NativeHolds' /\ Forward
<1>1. /\ hostAt' \in Nat /\ pushes' \subseteq Nat
      /\ flight' = [flight EXCEPT !.at = "answered", !.answer = [outcome |-> outcome,
           revision |-> hostAt']]
      /\ flight.at = "host"
      /\ UNCHANGED <<held, fault, adapterEnded, core, view, generation, ended, past, painted, issue,
                     surfaceEnded>>
  BY DEF NativeHolds, Native!HostAnswers, Native!adapterVars, Native!surfaceVars
<1>2. flight # Native!NoFlight
  BY <1>1 DEF Native!NoFlight
<1>3. flight = [at |-> flight.at, from |-> flight.from, routes |-> flight.routes,
        answer |-> flight.answer]
  BY <1>2 DEF NativeHolds
<1>4. flight' = [at |-> "answered", from |-> flight.from, routes |-> flight.routes,
                 answer |-> [outcome |-> outcome, revision |-> hostAt']]
  BY <1>1, <1>3
<1> DEFINE next == [at |-> "answered", from |-> flight.from, routes |-> flight.routes,
                    answer |-> [outcome |-> outcome, revision |-> hostAt']]
<1>5. /\ flight' = [at |-> flight'.at, from |-> flight'.from, routes |-> flight'.routes,
                    answer |-> flight'.answer]
      /\ flight'.answer.revision \in Nat /\ flight'.from = flight.from
  <2>1. next = [at |-> next.at, from |-> next.from, routes |-> next.routes, answer |-> next.answer]
        /\ next.answer.revision = hostAt' /\ next.from = flight.from
    OBVIOUS
  <2>2. flight' = next
    BY <1>4
  <2> HIDE DEF next
  <2>3. QED
    BY <1>1, <2>1, <2>2
<1> HIDE DEF next
<1>6. Native!OutcomeIsTheHosts' /\ Native!ScreenIsCurrent'
  BY <1>1, <1>2, <1>5 DEF NativeHolds, Native!OutcomeIsTheHosts, Native!ScreenIsCurrent, Native!Healthy
<1>7. QED
  BY <1>1, <1>5, <1>6 DEF NativeHolds, Forward

LEMMA AnswerTakenHolds ==
  ASSUME NativeHolds, Native!AnswerTaken
  PROVE  NativeHolds' /\ Forward
<1> DEFINE answer == flight.answer
           accepted == Native!Healthy /\ answer.revision >= held
           taken == IF accepted THEN answer.outcome ELSE "error"
           back == [from |-> flight.from, said |-> answer.outcome, at |-> answer.revision,
                    taken |-> taken, before |-> view, after |-> view']
<1>1. /\ flight.at = "answered" /\ flight' = Native!NoFlight
      /\ held' = (IF accepted THEN answer.revision ELSE held)
      /\ UNCHANGED <<hostAt, pushes, fault, adapterEnded, core, ended>>
      /\ Native!Refresh
      /\ \/ ended /\ UNCHANGED <<view, generation, past>>
         \/ ~ended /\ Native!Complete(flight.routes, taken) /\ past' = back
  BY DEF Native!AnswerTaken, Native!hostVars
<1>2. flight # Native!NoFlight /\ answer.revision \in Nat
  BY <1>1 DEF NativeHolds, Native!NoFlight
<1>3. held' \in Nat /\ held <= held'
  BY <1>1, <1>2 DEF NativeHolds
<1>4. generation' \in Nat /\ generation <= generation'
  BY <1>1, CompleteFacts DEF NativeHolds
<1>5. issue' \in BOOLEAN /\ surfaceEnded' \in BOOLEAN /\ Native!ScreenIsCurrent'
      /\ (painted' = painted \/ painted' = Native!Picture(view', generation', held'))
  BY <1>1, RefreshFacts DEF NativeHolds
<1>6. CASE ended
  <2>1. past' = past
    BY <1>1, <1>6
  <2>2. Native!OutcomeIsTheHosts'
    BY <1>1, <1>3, <2>1 DEF NativeHolds, Native!OutcomeIsTheHosts, Native!Healthy
  <2>3. QED
    BY <1>1, <1>3, <1>4, <1>5, <2>1, <2>2, PaintedFacts DEF NativeHolds, Forward
<1>7. CASE ~ended
  <2>1. past' = back /\ flight.from = view
    BY <1>1, <1>2, <1>7 DEF NativeHolds, Native!OutcomeIsTheHosts
  <2>2. back.from = flight.from /\ back.before = view /\ back.at = answer.revision
        /\ back.said = answer.outcome /\ back.taken = taken
    OBVIOUS
  <2> HIDE DEF back
  <2>3. taken = answer.outcome \/ ~Native!Healthy \/ answer.revision < held
    BY <1>2 DEF NativeHolds
  <2>4. Native!Healthy' = Native!Healthy
    BY <1>1 DEF Native!Healthy
  <2>5. past'.taken = past'.said \/ ~Native!Healthy' \/ past'.at < held'
    BY <1>2, <1>3, <2>1, <2>2, <2>3, <2>4 DEF NativeHolds
  <2>6. Native!OutcomeIsTheHosts'
    BY <1>1, <2>1, <2>2, <2>5 DEF Native!OutcomeIsTheHosts
  <2>7. past'.at \in Nat
    BY <1>2, <2>1, <2>2
  <2>8. QED
    BY <1>1, <1>3, <1>4, <1>5, <2>6, <2>7, PaintedFacts DEF NativeHolds, Forward
<1>8. QED
  BY <1>6, <1>7

LEMMA HostThrowsHolds ==
  ASSUME NativeHolds, Native!HostThrows
  PROVE  NativeHolds' /\ Forward
<1> DEFINE back == [from |-> flight.from, said |-> "error", at |-> held,
                    taken |-> "error", before |-> view, after |-> view']
<1>1. /\ flight.at \in {"host", "answered"} /\ flight' = Native!NoFlight
      /\ UNCHANGED <<hostAt, pushes, held, fault, adapterEnded, core, ended>>
      /\ Native!Refresh
      /\ \/ ended /\ UNCHANGED <<view, generation, past>>
         \/ ~ended /\ Native!Complete(flight.routes, "error") /\ past' = back
  BY DEF Native!HostThrows, Native!hostVars, Native!adapterVars
<1>2. flight # Native!NoFlight
  BY <1>1 DEF Native!NoFlight
<1>3. generation' \in Nat /\ generation <= generation'
  BY <1>1, CompleteFacts DEF NativeHolds
<1>4. issue' \in BOOLEAN /\ surfaceEnded' \in BOOLEAN /\ Native!ScreenIsCurrent'
      /\ (painted' = painted \/ painted' = Native!Picture(view', generation', held'))
  BY <1>1, RefreshFacts DEF NativeHolds
<1>5. Native!OutcomeIsTheHosts' /\ (past' # Native!Nothing => past'.at \in Nat)
  <2>1. CASE ended
    BY <1>1, <2>1 DEF NativeHolds, Native!OutcomeIsTheHosts, Native!Healthy
  <2>2. CASE ~ended
    <3>1. past' = back /\ flight.from = view
      BY <1>1, <1>2, <2>2 DEF NativeHolds, Native!OutcomeIsTheHosts
    <3>2. past'.from = view /\ past'.before = view /\ past'.at = held /\ past'.taken = past'.said
      BY <3>1
    <3>3. QED
      BY <1>1, <3>2 DEF NativeHolds, Native!OutcomeIsTheHosts
  <2>3. QED
    BY <2>1, <2>2
<1>6. held' \in Nat /\ held <= held'
  BY <1>1 DEF NativeHolds
<1>7. QED
  BY <1>1, <1>3, <1>4, <1>5, <1>6, PaintedFacts DEF NativeHolds, Forward

LEMMA NativeInitHolds == Native!Init => NativeHolds
<1> SUFFICES ASSUME Native!Init PROVE NativeHolds
  OBVIOUS
<1>1. painted.view = view /\ painted.generation = 0 /\ painted.revision = 0
  BY PictureFacts DEF Native!Init
<1>2. /\ hostAt = 0 /\ held = 0 /\ pushes = {} /\ generation = 0
      /\ fault = FALSE /\ adapterEnded = FALSE /\ ended = FALSE /\ surfaceEnded = FALSE
           /\ issue = FALSE
      /\ flight = Native!NoFlight /\ past = Native!Nothing
      /\ painted = Native!Picture(view, generation, held)
  BY DEF Native!Init, Native!AdapterInit
<1>3. Native!ScreenIsCurrent /\ Native!OutcomeIsTheHosts
  BY <1>2 DEF Native!ScreenIsCurrent, Native!OutcomeIsTheHosts
<1>4. fault \in BOOLEAN /\ adapterEnded \in BOOLEAN /\ ended \in BOOLEAN
      /\ surfaceEnded \in BOOLEAN /\ issue \in BOOLEAN
  BY <1>2, Zenon
<1>5. hostAt \in Nat /\ held \in Nat /\ pushes \subseteq Nat /\ generation \in Nat
      /\ painted.generation \in Nat /\ painted.generation <= generation
      /\ painted.revision \in Nat /\ painted.revision <= held
  BY <1>1, <1>2
<1>6. flight = Native!NoFlight /\ past = Native!Nothing
  BY <1>2
<1>7. QED
  BY <1>3, <1>4, <1>5, <1>6, Zenon DEF NativeHolds

LEMMA NativeNextHolds ==
  ASSUME NativeHolds, [Native!Next]_(Native!vars)
  PROVE  NativeHolds' /\ Forward
<1> USE DEF Native!hostVars, Native!adapterVars, Native!sessionVars, Native!surfaceVars
<1>1. CASE UNCHANGED Native!vars
  BY <1>1 DEF Native!vars, NativeHolds, Native!ScreenIsCurrent, Native!OutcomeIsTheHosts,
              Native!Healthy, Forward
<1>2. CASE Native!HostMoves
  BY <1>2 DEF Native!HostMoves, NativeHolds, Native!ScreenIsCurrent, Native!OutcomeIsTheHosts,
              Native!Healthy, Forward
<1>3. ASSUME NEW r \in pushes, Native!Lose(r) PROVE NativeHolds' /\ Forward
  BY <1>3 DEF Native!Lose, NativeHolds, Native!ScreenIsCurrent, Native!OutcomeIsTheHosts,
              Native!Healthy, Forward
<1>4. ASSUME NEW x \in NativeInteraction, Native!EmitRefused(x) PROVE NativeHolds' /\ Forward
  <2>1. UNCHANGED <<hostAt, pushes, held, fault, adapterEnded, core, view, generation, ended,
          flight, past>>
        /\ Native!Refresh
    BY <1>4 DEF Native!EmitRefused
  <2>2. issue' \in BOOLEAN /\ surfaceEnded' \in BOOLEAN /\ Native!ScreenIsCurrent'
        /\ (painted' = painted \/ painted' = Native!Picture(view', generation', held'))
    BY <2>1, RefreshFacts DEF NativeHolds
  <2>3. Native!OutcomeIsTheHosts'
    BY <2>1 DEF NativeHolds, Native!OutcomeIsTheHosts, Native!Healthy
  <2>4. held' \in Nat /\ held <= held' /\ generation' \in Nat /\ generation <= generation'
    BY <2>1 DEF NativeHolds
  <2>5. QED
    BY <2>1, <2>2, <2>3, <2>4, PaintedFacts DEF NativeHolds, Forward
<1>5. CASE Native!DisposeExperience
  BY <1>5 DEF Native!DisposeExperience, NativeHolds, Native!ScreenIsCurrent,
              Native!OutcomeIsTheHosts, Native!Healthy, Forward
<1>6. CASE Native!DisposeAdapter
  BY <1>6 DEF Native!DisposeAdapter, NativeHolds, Native!ScreenIsCurrent,
              Native!OutcomeIsTheHosts, Native!Healthy, Forward
<1>7. QED
  BY <1>1, <1>2, <1>3, <1>4, <1>5, <1>6, ReceiveHolds, EmitHolds, HostAnswersHolds,
     AnswerTakenHolds, HostThrowsHolds DEF Native!Next

\* However the host answers late, moves on or throws, the invariant holds of every
\* behaviour, whatever views, interactions and rules there are.
THEOREM NativeHoldsAlways == Native!Spec => []NativeHolds
<1>1. NativeHolds /\ [Native!Next]_(Native!vars) => NativeHolds'
  BY NativeNextHolds
<1>2. QED
  BY <1>1, NativeInitHolds, PTL DEF Native!Spec

\* The screen shows what the session and the adapter have, or says that it does not.
THEOREM TheScreenIsCurrent == Native!Spec => []Native!ScreenIsCurrent
<1>1. NativeHolds => Native!ScreenIsCurrent
  BY DEF NativeHolds
<1>2. QED
  BY <1>1, NativeHoldsAlways, PTL

\* What comes back of an action meets the view it came from, and is what the host said.
THEOREM WhatComesBackIsTheHosts == Native!Spec => []Native!OutcomeIsTheHosts
<1>1. NativeHolds => Native!OutcomeIsTheHosts
  BY DEF NativeHolds
<1>2. QED
  BY <1>1, NativeHoldsAlways, PTL

\* No step shows an earlier revision of the host or an earlier generation of views.
THEOREM TheScreenNeverGoesBack == Native!Spec => Native!ScreenNeverGoesBack
<1>1. NativeHolds /\ [Native!Next]_(Native!vars) =>
        [/\ painted'.revision >= painted.revision
         /\ painted'.generation >= painted.generation]_painted
  BY NativeNextHolds DEF Forward
<1>2. QED
  BY <1>1, NativeHoldsAlways, PTL DEF Native!Spec, Native!ScreenNeverGoesBack

-----------------------------------------------------------------------------
(* The session of an application on iOS.                                      *)

\* What the web runtime makes of an event is what the SDK makes of it, for every state
\* of a session and however large the numbers are that are safe.
LEMMA TransitionsAgree ==
  ASSUME NEW s \in App!SessionState, App!SessionIsConsistent(s), NEW event \in App!SessionEvent
  PROVE  App!NativeTransition(s, event) = App!TransitionSession(s, event)
<1> DEFINE v == CASE event = "background" -> "background"
                  [] event \in {"foreground", "resume"} -> "foreground"
                  [] OTHER -> s.visibility
           c == CASE event = "disconnect" -> "disconnected"
                  [] event = "reconnect" -> "connected"
                  [] OTHER -> s.connectivity
           next == [revision |-> s.revision, visibility |-> v, connectivity |-> c,
                    continuity |-> s.continuity, cache |-> s.cache]
<1>1. s = [revision |-> s.revision, visibility |-> s.visibility, connectivity |-> s.connectivity,
           continuity |-> s.continuity, cache |-> s.cache]
  BY DEF App!SessionState
<1>2. App!NextSession(s, event) = next
  <2>1. CASE event = "background"
    <3>1. v = "background" /\ c = s.connectivity
      BY <2>1
    <3>2. App!NextSession(s, event) = [s EXCEPT !.visibility = "background"]
      BY <2>1 DEF App!NextSession
    <3> HIDE DEF v, c
    <3>3. QED
      BY <1>1, <3>1, <3>2
  <2>2. CASE event \in {"foreground", "resume"}
    <3>1. v = "foreground" /\ c = s.connectivity
      BY <2>2
    <3>2. App!NextSession(s, event) = [s EXCEPT !.visibility = "foreground"]
      BY <2>2 DEF App!NextSession
    <3> HIDE DEF v, c
    <3>3. QED
      BY <1>1, <3>1, <3>2
  <2>3. CASE event = "disconnect"
    <3>1. v = s.visibility /\ c = "disconnected"
      BY <2>3
    <3>2. App!NextSession(s, event) = [s EXCEPT !.connectivity = "disconnected"]
      BY <2>3 DEF App!NextSession
    <3> HIDE DEF v, c
    <3>3. QED
      BY <1>1, <3>1, <3>2
  <2>4. CASE event = "reconnect"
    <3>1. v = s.visibility /\ c = "connected"
      BY <2>4
    <3>2. App!NextSession(s, event) = [s EXCEPT !.connectivity = "connected"]
      BY <2>4 DEF App!NextSession
    <3> HIDE DEF v, c
    <3>3. QED
      BY <1>1, <3>1, <3>2
  <2>5. QED
    BY <2>1, <2>2, <2>3, <2>4 DEF App!SessionEvent
<1> HIDE DEF v, c
<1>3. next = s <=> v = s.visibility /\ c = s.connectivity
  BY <1>1
<1>4. [next EXCEPT !.revision = next.revision + 1]
        = [revision |-> s.revision + 1, visibility |-> v, connectivity |-> c,
           continuity |-> s.continuity, cache |-> s.cache]
  OBVIOUS
<1> HIDE DEF next
<1>5. App!TransitionSession(s, event) =
        IF v = s.visibility /\ c = s.connectivity THEN App!Session(s, FALSE)
        ELSE IF s.revision = MaxSafe THEN App!NoSession
        ELSE App!Session([next EXCEPT !.revision = next.revision + 1], TRUE)
  BY <1>2, <1>3 DEF App!TransitionSession
<1>6. App!NativeTransition(s, event) =
        IF v = s.visibility /\ c = s.connectivity THEN App!Session(s, FALSE)
        ELSE IF s.revision = MaxSafe THEN App!NoSession
        ELSE App!Session([revision |-> s.revision + 1, visibility |-> v, connectivity |-> c,
                          continuity |-> s.continuity, cache |-> s.cache], TRUE)
  BY DEF App!NativeTransition, v, c
<1>7. QED
  BY <1>4, <1>5, <1>6

LEMMA RestoresAgree ==
  ASSUME NEW s \in App!SessionState, App!SessionIsConsistent(s)
  PROVE  App!NativeRestore(s) = App!RestoreSession(s)
<1> DEFINE back == [revision |-> s.revision + 1, visibility |-> s.visibility,
                    connectivity |-> s.connectivity, continuity |-> "restored",
                    cache |-> "verification-required"]
<1>1. [[[s EXCEPT !.revision = s.revision + 1] EXCEPT !.continuity = "restored"]
         EXCEPT !.cache = "verification-required"] = back
  <2>1. [s EXCEPT !.revision = s.revision + 1]
          = [revision |-> s.revision + 1, visibility |-> s.visibility,
             connectivity |-> s.connectivity, continuity |-> s.continuity, cache |-> s.cache]
    BY DEF App!SessionState
  <2> DEFINE one == [s EXCEPT !.revision = s.revision + 1]
             two == [one EXCEPT !.continuity = "restored"]
  <2>2. two = [revision |-> s.revision + 1, visibility |-> s.visibility,
               connectivity |-> s.connectivity, continuity |-> "restored", cache |-> s.cache]
    <3> HIDE DEF one
    <3>1. one = [revision |-> s.revision + 1, visibility |-> s.visibility,
                 connectivity |-> s.connectivity, continuity |-> s.continuity, cache |-> s.cache]
      BY <2>1 DEF one
    <3>2. QED
      BY <3>1
  <2>3. [two EXCEPT !.cache = "verification-required"] = back
    <3> HIDE DEF two
    <3>1. QED
      BY <2>2
  <2>4. QED
    BY <2>3
<1>2. App!RestoreSession(s) =
        IF s.revision = MaxSafe THEN App!NoSession
        ELSE App!Session([[[s EXCEPT !.revision = s.revision + 1] EXCEPT !.continuity = "restored"]
                            EXCEPT !.cache = "verification-required"], TRUE)
  BY DEF App!RestoreSession
<1> HIDE DEF back
<1>3. QED
  BY <1>1, <1>2 DEF App!NativeRestore, back

\* What x is still to be told.
ToBeTold(x, r) == \E t \in Thread : x \in telling[t].left /\ telling[t].next = r

\* The inductive invariant.  A change is told, or about to be told, to whoever had
\* subscribed when it was made; nobody is told of another; and the copy that is kept
\* is one of this session's states, or of an earlier life's.
AppHolds ==
  /\ lifecycle \in App!SessionState /\ App!SessionIsConsistent(lifecycle)
  /\ lifecycle.revision <= LastRevision
  /\ kept # App!NoCopy =>
       kept \in App!SessionState /\ App!SessionIsConsistent(kept)
         /\ kept.revision <= lifecycle.revision
  /\ lives \in Nat /\ (lives > 0 => lifecycle.cache = "verification-required")
  /\ listeners \in [Listener -> Nat]
  /\ toldOf \subseteq Listener \X Nat
  /\ telling \in [Thread -> {App!Quiet} \cup [next : Nat, left : SUBSET Listener]]
  /\ \A x \in App!Subscribed : listeners[x] <= lifecycle.revision
  /\ \A x \in App!Subscribed, r \in Nat :
       listeners[x] < r /\ r <= lifecycle.revision => <<x, r>> \in toldOf \/ ToBeTold(x, r)
  /\ \A x \in Listener, r \in Nat : <<x, r>> \in toldOf \/ ToBeTold(x, r) =>
       /\ listeners[x] # App!Never
       /\ x \in App!Subscribed => listeners[x] < r /\ r <= lifecycle.revision

LEMMA StateFacts ==
  ASSUME MaxSafe \in Nat, NEW s \in App!SessionState
  PROVE  s.revision \in Nat /\ s.revision <= MaxSafe
BY DEF App!SessionState

LEMMA ChangeFacts ==
  ASSUME MaxSafe \in Nat, NEW s \in App!SessionState, App!SessionIsConsistent(s),
         NEW event \in App!SessionEvent, App!NativeTransition(s, event).ok,
         App!NativeTransition(s, event).changed
  PROVE  LET n == App!NativeTransition(s, event).state IN
         /\ n \in App!SessionState /\ App!SessionIsConsistent(n)
         /\ n.revision = s.revision + 1 /\ n.cache = s.cache
<1> DEFINE v == CASE event = "background" -> "background"
                  [] event \in {"foreground", "resume"} -> "foreground"
                  [] OTHER -> s.visibility
           c == CASE event = "disconnect" -> "disconnected"
                  [] event = "reconnect" -> "connected"
                  [] OTHER -> s.connectivity
           n == [revision |-> s.revision + 1, visibility |-> v, connectivity |-> c,
                 continuity |-> s.continuity, cache |-> s.cache]
<1>1. v \in {"foreground", "background"} /\ c \in {"connected", "disconnected"}
  BY DEF App!SessionState, App!SessionEvent
<1>2. App!NativeTransition(s, event) =
        IF v = s.visibility /\ c = s.connectivity THEN App!Session(s, FALSE)
        ELSE IF s.revision = MaxSafe THEN App!NoSession
        ELSE App!Session(n, TRUE)
  BY DEF App!NativeTransition
<1> HIDE DEF v, c
<1>3. n.revision = s.revision + 1 /\ n.continuity = s.continuity /\ n.cache = s.cache
  OBVIOUS
<1>4. s.revision # MaxSafe => n \in App!SessionState
  BY <1>1 DEF App!SessionState
<1> HIDE DEF n
<1>5. s.revision # MaxSafe /\ App!NativeTransition(s, event) = App!Session(n, TRUE)
  <2>1. App!NativeTransition(s, event) # App!Session(s, FALSE)
    BY DEF App!Session
  <2>2. App!NativeTransition(s, event) # App!NoSession
    BY DEF App!NoSession
  <2>3. QED
    BY <1>2, <2>1, <2>2
<1>6. App!NativeTransition(s, event).state = n
  BY <1>5 DEF App!Session
<1>7. QED
  BY <1>3, <1>4, <1>5, <1>6 DEF App!SessionIsConsistent

LEMMA RestoreFacts ==
  ASSUME MaxSafe \in Nat, NEW s \in App!SessionState, App!NativeRestore(s).ok
  PROVE  LET n == App!NativeRestore(s).state IN
         /\ n \in App!SessionState /\ App!SessionIsConsistent(n)
         /\ n.revision = s.revision + 1 /\ n.cache = "verification-required"
<1> DEFINE n == [revision |-> s.revision + 1, visibility |-> s.visibility,
                 connectivity |-> s.connectivity, continuity |-> "restored",
                 cache |-> "verification-required"]
<1>1. n.revision = s.revision + 1 /\ n.continuity = "restored" /\ n.cache = "verification-required"
  OBVIOUS
<1>2. s.revision # MaxSafe => n \in App!SessionState
  BY DEF App!SessionState
<1>3. App!NativeRestore(s) = IF s.revision = MaxSafe THEN App!NoSession ELSE App!Session(n, TRUE)
  BY DEF App!NativeRestore
<1> HIDE DEF n
<1>4. s.revision # MaxSafe /\ App!NativeRestore(s) = App!Session(n, TRUE)
  <2>1. App!NativeRestore(s) # App!NoSession
    BY DEF App!NoSession
  <2>2. QED
    BY <1>3, <2>1
<1>5. App!NativeRestore(s).state = n
  BY <1>4 DEF App!Session
<1>6. QED
  BY <1>1, <1>2, <1>4, <1>5 DEF App!SessionIsConsistent

LEMMA AppInitHolds ==
  ASSUME MaxSafe \in Nat, LastRevision \in Nat, App!Init
  PROVE  AppHolds
<1>1. PICK v \in {"foreground", "background"} : lifecycle = App!NativeCreated(v, "connected")
  BY DEF App!Init
<1>2. lifecycle \in App!SessionState /\ App!SessionIsConsistent(lifecycle) /\ lifecycle.revision = 0
  BY <1>1 DEF App!NativeCreated, App!SessionState, App!SessionIsConsistent
<1>3. App!Subscribed = {} /\ listeners \in [Listener -> Nat]
  BY DEF App!Init, App!Subscribed, App!Never
<1>4. \A x, r : ~ToBeTold(x, r)
  BY DEF App!Init, App!Quiet, ToBeTold
<1>5. telling \in [Thread -> {App!Quiet} \cup [next : Nat, left : SUBSET Listener]]
  BY DEF App!Init
<1>6. QED
  BY <1>2, <1>3, <1>4, <1>5 DEF App!Init, AppHolds

LEMMA ChangeHolds ==
  ASSUME MaxSafe \in Nat, LastRevision \in Nat, AppHolds, NEW t \in Thread,
         NEW event \in App!SessionEvent, App!Change(t, event)
  PROVE  AppHolds'
<1> DEFINE n == App!NativeTransition(lifecycle, event).state
           told == [next |-> n.revision, left |-> App!Subscribed]
<1>1. /\ telling[t] = App!Quiet /\ lifecycle.revision < LastRevision
      /\ lifecycle' = n /\ telling' = [telling EXCEPT ![t] = told]
      /\ UNCHANGED <<listeners, toldOf, kept, lives>>
      /\ n \in App!SessionState /\ App!SessionIsConsistent(n)
      /\ n.revision = lifecycle.revision + 1 /\ n.cache = lifecycle.cache
  BY ChangeFacts DEF App!Change, AppHolds
<1>2. lifecycle.revision \in Nat /\ App!Subscribed \subseteq Listener /\ App!Subscribed'
        = App!Subscribed
  BY <1>1, StateFacts DEF App!Subscribed, AppHolds
<1>3. told.next = lifecycle.revision + 1 /\ told.left = App!Subscribed
      /\ told \in [next : Nat, left : SUBSET Listener]
  BY <1>1, <1>2
<1> HIDE DEF n, told
<1>4. telling' \in [Thread -> {App!Quiet} \cup [next : Nat, left : SUBSET Listener]]
  BY <1>1, <1>3 DEF AppHolds
<1>5. \A x, r : ToBeTold(x, r)' <=>
        ToBeTold(x, r) \/ (x \in App!Subscribed /\ r = lifecycle.revision + 1)
  BY <1>1, <1>3 DEF ToBeTold, App!Quiet, AppHolds
<1>6. \A x \in Listener : x \in App!Subscribed => listeners[x] # App!Never /\ listeners[x] \in Nat
  BY DEF App!Subscribed, AppHolds
<1>7. \A x \in Listener : listeners[x] \in Nat
  BY DEF AppHolds
<1>8. \A x \in App!Subscribed', r \in Nat :
        listeners'[x] < r /\ r <= lifecycle'.revision => <<x, r>> \in toldOf' \/ ToBeTold(x, r)'
  BY <1>1, <1>2, <1>5, <1>7 DEF AppHolds
<1>9. \A x \in Listener, r \in Nat : <<x, r>> \in toldOf' \/ ToBeTold(x, r)' =>
       /\ listeners'[x] # App!Never
       /\ x \in App!Subscribed' => listeners'[x] < r /\ r <= lifecycle'.revision
  <2> SUFFICES ASSUME NEW x \in Listener, NEW r \in Nat, <<x, r>> \in toldOf' \/ ToBeTold(x, r)'
               PROVE  /\ listeners[x] # App!Never
                      /\ x \in App!Subscribed => listeners[x] < r /\ r <= lifecycle.revision + 1
    BY <1>1, <1>2
  <2>1. CASE <<x, r>> \in toldOf \/ ToBeTold(x, r)
    BY <1>2, <1>7, <2>1 DEF AppHolds
  <2>2. CASE x \in App!Subscribed /\ r = lifecycle.revision + 1
    BY <1>2, <1>6, <2>2 DEF AppHolds
  <2>3. QED
    BY <1>1, <1>5, <2>1, <2>2
<1>10. \A x \in App!Subscribed' : listeners'[x] <= lifecycle'.revision
  BY <1>1, <1>2, <1>7 DEF AppHolds
<1>11. kept' # App!NoCopy =>
        kept' \in App!SessionState /\ App!SessionIsConsistent(kept')
          /\ kept'.revision <= lifecycle'.revision
  BY <1>1, <1>2, StateFacts DEF AppHolds
<1>12. lifecycle'.revision <= LastRevision
  BY <1>1, <1>2
<1>13. QED
  BY <1>1, <1>4, <1>8, <1>9, <1>10, <1>11, <1>12 DEF AppHolds

LEMMA TellHolds ==
  ASSUME AppHolds, NEW t \in Thread, NEW y \in Listener, App!Tell(t, y)
  PROVE  AppHolds'
<1> DEFINE n == telling[t].next
           left == telling[t].left \ {y}
<1>1. /\ telling[t] # App!Quiet /\ y \in telling[t].left
      /\ telling' = [telling EXCEPT ![t] = [telling[t] EXCEPT !.left = left]]
      /\ toldOf' = toldOf \cup {<<y, n>>}
      /\ UNCHANGED <<lifecycle, appEnded, listeners, kept, lives>>
  BY DEF App!Tell
<1>2. telling[t] \in [next : Nat, left : SUBSET Listener] /\ n \in Nat
  BY <1>1 DEF AppHolds
<1>3. [telling[t] EXCEPT !.left = left] = [next |-> n, left |-> left]
  BY <1>2
<1>4. [next |-> n, left |-> left] \in [next : Nat, left : SUBSET Listener]
      /\ [next |-> n, left |-> left].next = n /\ [next |-> n, left |-> left].left = left
  BY <1>2
<1>5. telling' \in [Thread -> {App!Quiet} \cup [next : Nat, left : SUBSET Listener]]
  BY <1>1, <1>3, <1>4 DEF AppHolds
<1>6. \A x, r : <<x, r>> \in toldOf' \/ ToBeTold(x, r)' <=> <<x, r>> \in toldOf \/ ToBeTold(x, r)
  <2> SUFFICES ASSUME NEW x, NEW r
               PROVE  <<x, r>> \in toldOf' \/ ToBeTold(x, r)' <=> <<x, r>> \in toldOf \/ ToBeTold(x, r)
    OBVIOUS
  <2>1. telling'[t].next = n /\ telling'[t].left = left
        /\ \A u \in Thread : u # t => telling'[u] = telling[u]
    BY <1>1, <1>3, <1>4 DEF AppHolds
  <2>2. ToBeTold(x, r)' => ToBeTold(x, r)
    BY <2>1 DEF ToBeTold
  <2>3. ToBeTold(x, r) => ToBeTold(x, r)' \/ (x = y /\ r = n)
    BY <2>1 DEF ToBeTold
  <2>4. <<x, r>> \in toldOf' <=> <<x, r>> \in toldOf \/ (x = y /\ r = n)
    BY <1>1
  <2>5. x = y /\ r = n => ToBeTold(x, r)
    BY <1>1 DEF ToBeTold
  <2>6. QED
    BY <2>2, <2>3, <2>4, <2>5
<1>7. toldOf' \subseteq Listener \X Nat
  BY <1>1, <1>2 DEF AppHolds
<1>8. App!Subscribed' = App!Subscribed
  BY <1>1 DEF App!Subscribed
<1>9. QED
  BY <1>1, <1>5, <1>6, <1>7, <1>8 DEF AppHolds

LEMMA AppNextHolds ==
  ASSUME MaxSafe \in Nat, LastRevision \in Nat, AppHolds, [App!Next]_(App!vars)
  PROVE  AppHolds'
<1>1. CASE UNCHANGED App!vars
  BY <1>1 DEF App!vars, AppHolds, App!Subscribed, ToBeTold
<1>2. ASSUME NEW t \in Thread, App!Told(t) PROVE AppHolds'
  <2>1. /\ telling[t].left = {} /\ telling' = [telling EXCEPT ![t] = App!Quiet]
        /\ UNCHANGED <<lifecycle, listeners, toldOf, kept, lives>>
    BY <1>2 DEF App!Told
  <2>2. \A x, r : ToBeTold(x, r)' <=> ToBeTold(x, r)
    BY <2>1 DEF ToBeTold, App!Quiet, AppHolds
  <2>3. telling' \in [Thread -> {App!Quiet} \cup [next : Nat, left : SUBSET Listener]]
    BY <2>1 DEF AppHolds
  <2>4. App!Subscribed' = App!Subscribed
    BY <2>1 DEF App!Subscribed
  <2>5. QED
    BY <2>1, <2>2, <2>3, <2>4 DEF AppHolds
<1>3. ASSUME NEW y \in Listener, App!Subscribe(y) PROVE AppHolds'
  <2>1. /\ listeners[y] = App!Never /\ listeners' = [listeners EXCEPT ![y] = lifecycle.revision]
        /\ UNCHANGED <<lifecycle, telling, toldOf, kept, lives>>
    BY <1>3 DEF App!Subscribe
  <2>2. lifecycle.revision \in Nat /\ lifecycle.revision # App!Never
    BY StateFacts DEF AppHolds, App!Never
  <2>3. \A x, r : ToBeTold(x, r)' <=> ToBeTold(x, r)
    BY <2>1 DEF ToBeTold
  <2>4. \A r \in Nat : <<y, r>> \notin toldOf /\ ~ToBeTold(y, r)
    BY <2>1 DEF AppHolds
  <2>5. listeners' \in [Listener -> Nat] /\ listeners'[y] = lifecycle.revision
        /\ \A x \in Listener : x # y => listeners'[x] = listeners[x]
    BY <2>1, <2>2 DEF AppHolds
  <2>6. \A x \in Listener : x # y => (x \in App!Subscribed' <=> x \in App!Subscribed)
    BY <2>5 DEF App!Subscribed
  <2>7. App!Subscribed' \subseteq Listener
    BY DEF App!Subscribed
  <2>8. \A x \in App!Subscribed' : listeners'[x] <= lifecycle'.revision
    BY <2>1, <2>2, <2>5, <2>6, <2>7 DEF AppHolds
  <2>9. \A x \in App!Subscribed', r \in Nat :
          listeners'[x] < r /\ r <= lifecycle'.revision => <<x, r>> \in toldOf' \/ ToBeTold(x, r)'
    BY <2>1, <2>2, <2>3, <2>5, <2>6, <2>7 DEF AppHolds
  <2>10. \A x \in Listener, r \in Nat : <<x, r>> \in toldOf' \/ ToBeTold(x, r)' =>
           /\ listeners'[x] # App!Never
           /\ x \in App!Subscribed' => listeners'[x] < r /\ r <= lifecycle'.revision
    BY <2>1, <2>2, <2>3, <2>4, <2>5, <2>6 DEF AppHolds
  <2>11. QED
    BY <2>1, <2>5, <2>8, <2>9, <2>10 DEF AppHolds
<1>4. ASSUME NEW y \in Listener, App!Unsubscribe(y) PROVE AppHolds'
  <2>1. /\ listeners' = [listeners EXCEPT ![y] = App!Gone]
        /\ UNCHANGED <<lifecycle, telling, toldOf, kept, lives>>
    BY <1>4 DEF App!Unsubscribe
  <2>2. App!Gone \in Nat /\ App!Gone # App!Never
    BY DEF App!Gone, App!Never
  <2>3. \A x, r : ToBeTold(x, r)' <=> ToBeTold(x, r)
    BY <2>1 DEF ToBeTold
  <2>4. listeners' \in [Listener -> Nat] /\ listeners'[y] = App!Gone
        /\ \A x \in Listener : x # y => listeners'[x] = listeners[x]
    BY <2>1, <2>2 DEF AppHolds
  <2>5. \A x \in App!Subscribed' : x \in App!Subscribed /\ x # y
    BY <2>4 DEF App!Subscribed
  <2>6. App!Subscribed \subseteq Listener
    BY DEF App!Subscribed
  <2>7. QED
    BY <2>1, <2>2, <2>3, <2>4, <2>5, <2>6 DEF AppHolds
<1>5. CASE App!Dispose
  <2>1. /\ listeners' = [x \in Listener |-> App!Gone]
        /\ UNCHANGED <<lifecycle, telling, toldOf, kept, lives>>
    BY <1>5 DEF App!Dispose
  <2>2. App!Gone \in Nat /\ App!Gone # App!Never
    BY DEF App!Gone, App!Never
  <2>3. App!Subscribed' = {}
    BY <2>1 DEF App!Subscribed
  <2>4. QED
    BY <2>1, <2>2, <2>3 DEF AppHolds, ToBeTold
<1>6. CASE App!Keep
  <2>1. kept' = lifecycle /\ UNCHANGED <<lifecycle, listeners, telling, toldOf, lives>>
    BY <1>6 DEF App!Keep
  <2>2. lifecycle.revision \in Nat
    BY StateFacts DEF AppHolds
  <2>3. App!Subscribed' = App!Subscribed /\ \A x, r : ToBeTold(x, r)' <=> ToBeTold(x, r)
    BY <2>1 DEF App!Subscribed, ToBeTold
  <2>4. QED
    BY <2>1, <2>2, <2>3 DEF AppHolds
<1>7. CASE App!Restore
  <2> DEFINE n == App!NativeRestore(kept).state
  <2>1. /\ kept # App!NoCopy /\ kept.revision < LastRevision /\ App!NativeRestore(kept).ok
        /\ lifecycle' = n /\ lives' = lives + 1
        /\ listeners' = [x \in Listener |-> App!Never] /\ telling' = [t \in Thread |-> App!Quiet]
        /\ toldOf' = {} /\ UNCHANGED kept
    BY <1>7 DEF App!Restore
  <2>2. kept \in App!SessionState /\ App!SessionIsConsistent(kept) /\ kept.revision \in Nat
    BY <2>1, StateFacts DEF AppHolds
  <2>3. /\ n \in App!SessionState /\ App!SessionIsConsistent(n)
        /\ n.revision = kept.revision + 1 /\ n.cache = "verification-required"
    BY <2>1, <2>2, RestoreFacts
  <2> HIDE DEF n
  <2>4. App!Subscribed' = {} /\ App!Never \in Nat
    BY <2>1 DEF App!Subscribed, App!Never
  <2>5. \A x, r : ~ToBeTold(x, r)'
    BY <2>1 DEF ToBeTold, App!Quiet
  <2>6. kept'.revision <= lifecycle'.revision /\ lifecycle'.revision <= LastRevision /\ lives' \in Nat
    BY <2>1, <2>2, <2>3 DEF AppHolds
  <2>7. QED
    BY <2>1, <2>2, <2>3, <2>4, <2>5, <2>6 DEF AppHolds
<1>8. QED
  BY <1>1, <1>2, <1>3, <1>4, <1>5, <1>6, <1>7, ChangeHolds, TellHolds DEF App!Next

\* However threads change the state while others tell of it, and however often the
\* application dies and comes back, the invariant holds of every behaviour.
THEOREM AppHoldsAlways ==
  ASSUME MaxSafe \in Nat, LastRevision \in Nat PROVE App!Spec => []AppHolds
<1>1. AppHolds /\ [App!Next]_(App!vars) => AppHolds'
  BY AppNextHolds
<1>2. App!Init => AppHolds
  BY AppInitHolds
<1>3. QED
  BY <1>1, <1>2, PTL DEF App!Spec

\* A listener hears of every change since it subscribed, and of no other.
THEOREM EveryChangeIsHeard ==
  ASSUME MaxSafe \in Nat, LastRevision \in Nat
  PROVE  App!Spec => []App!ListenersHearTheChanges
<1>1. AppHolds => App!ListenersHearTheChanges
  <2> SUFFICES ASSUME AppHolds, NEW x \in App!Subscribed
               PROVE  LET told == {r \in 0..LastRevision : <<x, r>> \in toldOf}
                      IN  /\ told \subseteq listeners[x] + 1..lifecycle.revision
                          /\ (\A t \in Thread : telling[t] = App!Quiet) =>
                               told = listeners[x] + 1..lifecycle.revision
    BY DEF App!ListenersHearTheChanges
  <2>1. x \in Listener /\ listeners[x] \in Nat /\ lifecycle.revision \in Nat
        /\ lifecycle.revision <= LastRevision
    BY StateFacts DEF App!Subscribed, AppHolds
  <2>2. \A r \in Nat : <<x, r>> \in toldOf => listeners[x] < r /\ r <= lifecycle.revision
    BY <2>1 DEF AppHolds
  <2>3. ASSUME \A t \in Thread : telling[t] = App!Quiet
        PROVE  \A r \in Nat : listeners[x] < r /\ r <= lifecycle.revision => <<x, r>> \in toldOf
    <3>1. \A r : ~ToBeTold(x, r)
      BY <2>3 DEF ToBeTold, App!Quiet
    <3>2. QED
      BY <3>1 DEF AppHolds
  <2>4. QED
    BY <2>1, <2>2, <2>3
<1>2. QED
  BY <1>1, AppHoldsAlways, PTL

\* What comes back from a copy stays unverified, and a copy is never ahead.
THEOREM WhatCameBackIsUnverified ==
  ASSUME MaxSafe \in Nat, LastRevision \in Nat
  PROVE  App!Spec => []App!RestoredStaysUnverified
<1>1. AppHolds => App!RestoredStaysUnverified
  BY DEF AppHolds, App!RestoredStaysUnverified
<1>2. QED
  BY <1>1, AppHoldsAlways, PTL

\* On every state that is reached, the Swift SDK computes what the web runtime does.
THEOREM SwiftAgreesWithTheWeb ==
  ASSUME MaxSafe \in Nat, LastRevision \in Nat
  PROVE  App!Spec => []App!SessionAgreesWithWeb
<1>1. AppHolds => App!SessionAgreesWithWeb
  <2> SUFFICES ASSUME AppHolds PROVE App!SessionAgreesWithWeb
    OBVIOUS
  <2>1. App!NativeIsValid(lifecycle)
    BY DEF AppHolds, App!NativeIsValid, App!SessionState, App!SessionIsConsistent
  <2>2. \A v, c : App!NativeCreated(v, c) = App!CreatedSession(v, c)
    BY DEF App!NativeCreated, App!CreatedSession
  <2>3. QED
    BY <2>1, <2>2, TransitionsAgree, RestoresAgree DEF AppHolds, App!SessionAgreesWithWeb
<1>2. QED
  BY <1>1, AppHoldsAlways, PTL

-----------------------------------------------------------------------------
(* Sequences that grow and shrink at their end.                                *)

IsSequence(s) == \E S : s \in Seq(S)

LEMMA Appended ==
  ASSUME NEW s, IsSequence(s), NEW x
  PROVE  /\ IsSequence(Append(s, x))
         /\ Len(s) \in Nat /\ DOMAIN s = 1..Len(s)
         /\ DOMAIN Append(s, x) = 1..(Len(s) + 1) /\ Len(Append(s, x)) = Len(s) + 1
         /\ \A n \in 1..Len(s) : Append(s, x)[n] = s[n]
         /\ Append(s, x)[Len(s) + 1] = x
<1>1. PICK S : s \in Seq(S)
  BY DEF IsSequence
<1>2. s \in Seq(S \cup {x}) /\ x \in S \cup {x}
  BY <1>1
<1> HIDE <1>1
<1>3. Append(s, x) \in Seq(S \cup {x})
  BY <1>2
<1>4. QED
  BY <1>2, <1>3 DEF IsSequence

LEMMA Shortened ==
  ASSUME NEW s, IsSequence(s), s # <<>>
  PROVE  /\ IsSequence(Web!Front(s)) /\ Len(s) \in Nat \ {0}
         /\ DOMAIN s = 1..Len(s) /\ DOMAIN Web!Front(s) = 1..(Len(s) - 1)
         /\ Len(Web!Front(s)) = Len(s) - 1
         /\ \A n \in 1..(Len(s) - 1) : Web!Front(s)[n] = s[n]
         /\ Web!Last(s) = s[Len(s)]
<1>1. PICK S : s \in Seq(S)
  BY DEF IsSequence
<1>2. Len(s) \in Nat /\ DOMAIN s = 1..Len(s) /\ \A n \in 1..Len(s) : s[n] \in S
  BY <1>1
<1>3. Len(s) # 0
  BY <1>1
<1> DEFINE t == SubSeq(s, 1, Len(s) - 1)
<1>4. \A n \in 1..(Len(s) - 1) : s[n] \in S
  BY <1>2
<1>5. /\ t \in Seq(S)
      /\ Len(t) = IF 1 <= Len(s) - 1 THEN Len(s) - 1 - 1 + 1 ELSE 0
      /\ \A n \in 1..(Len(s) - 1 - 1 + 1) : t[n] = s[1 + n - 1]
  <2>1. 1 \in Int /\ Len(s) - 1 \in Int
    BY <1>2
  <2>2. QED
    BY <1>4, <2>1, SubSeqProperties
<1>6. Web!Front(s) = t /\ Web!Last(s) = s[Len(s)]
  BY DEF Web!Front, Web!Last
<1> HIDE DEF t
<1>7. Len(t) = Len(s) - 1 /\ \A n \in 1..(Len(s) - 1) : t[n] = s[n]
  <2>1. PICK l \in Nat : l = Len(s) /\ l # 0
    BY <1>2, <1>3
  <2>2. l - 1 - 1 + 1 = l - 1 /\ (1 <= l - 1 \/ l - 1 = 0) /\ \A n \in 1..(l - 1) : 1 + n - 1 = n
    BY <2>1
  <2>3. Len(t) = l - 1
    BY <1>5, <2>1, <2>2
  <2>4. \A n \in 1..(l - 1) : t[n] = s[n]
    <3> TAKE n \in 1..(l - 1)
    <3>1. n \in 1..(Len(s) - 1 - 1 + 1) /\ 1 + n - 1 = n
      BY <2>1, <2>2
    <3>2. t[n] = s[1 + n - 1]
      BY <1>5, <3>1
    <3>3. QED
      BY <3>1, <3>2
  <2>5. QED
    BY <2>1, <2>3, <2>4
<1>8. DOMAIN t = 1..(Len(s) - 1)
  BY <1>5, <1>7
<1>9. QED
  BY <1>2, <1>3, <1>5, <1>6, <1>7, <1>8 DEF IsSequence

-----------------------------------------------------------------------------
(* A published experience while it runs.                                       *)

LEMMA AtMostOneOutcome ==
  ASSUME NEW S, \A x, y \in S : x = y
  PROVE  Studio!Cardinality(S) <= 1
<1>1. Studio!Cardinality(S) = Cardinality(S)
  BY DEF Studio!Cardinality, Cardinality
<1>2. CASE S = {}
  <2>1. Cardinality(S) = 0
    BY <1>2, FS_EmptySet
  <2>2. QED
    BY <1>1, <2>1
<1>3. CASE S # {}
  <2>1. PICK o : S = {o}
    <3>1. PICK o : o \in S
      BY <1>3
    <3>2. S = {o}
      BY <3>1
    <3>3. QED
      BY <3>2
  <2>2. Cardinality(S) = 1
    BY <2>1, FS_Singleton
  <2>3. QED
    BY <1>1, <2>2
<1>4. QED
  BY <1>2, <1>3

\* One action that was dispatched: it has one outcome at most.
IsDispatched(row) ==
  /\ row = [from |-> row.from, outcomes |-> row.outcomes, crossed |-> row.crossed]
  /\ row.crossed \in BOOLEAN
  /\ \A x, y \in row.outcomes : x = y

\* A call of dispatch that waits for its id: as long as no other action came, nothing
\* waits for the host, and the view is the one it was called on.
NothingCame(call) ==
  call.kind = "dispatch" =>
    /\ call.before \in Nat /\ call.before <= Len(actions)
    /\ Len(actions) = call.before => waiting = Studio!NotPending /\ shown = call.interaction.view

\* What waits has no outcome yet, and is of the view that is shown unless it was
\* crossed; and what has none and waits no longer, gave way to one that was crossed.
WaitingHolds ==
  /\ waiting # Studio!NotPending =>
       /\ waiting.id \in DOMAIN actions /\ actions[waiting.id].outcomes = {}
       /\ actions[waiting.id].crossed \/ shown = actions[waiting.id].from
  /\ \A n \in DOMAIN actions : actions[n].outcomes = {} =>
       studioEnded \/ waiting.id = n \/ \E m \in DOMAIN actions : m > n /\ actions[m].crossed

\* The inductive invariant.  It looks at the calls that wait for an id as well, since
\* what they will do rests on what they saw when they were made.
DispatchHolds ==
  /\ IsSequence(actions) /\ IsSequence(unfinished)
  /\ \A n \in DOMAIN actions : IsDispatched(actions[n])
  /\ WaitingHolds
  /\ \A k \in DOMAIN unfinished : NothingCame(unfinished[k])

LEMMA StudioCallKeeps ==
  ASSUME DispatchHolds, NEW call, Studio!Call(call), NothingCame(call)
  PROVE  DispatchHolds'
<1>1. /\ unfinished' = Append(unfinished, call)
      /\ UNCHANGED <<shown, waiting, studioEnded, actions>>
  BY DEF Studio!Call
<1>2. WaitingHolds' /\ IsSequence(actions)' /\ \A n \in DOMAIN actions' : IsDispatched(actions'[n])
  BY <1>1 DEF DispatchHolds, WaitingHolds
<1>3. /\ IsSequence(unfinished)' /\ Len(unfinished) \in Nat /\ DOMAIN unfinished = 1..Len(unfinished)
      /\ DOMAIN unfinished' = 1..(Len(unfinished) + 1)
      /\ \A n \in 1..Len(unfinished) : unfinished'[n] = unfinished[n]
      /\ unfinished'[Len(unfinished) + 1] = call
  BY <1>1, Appended DEF DispatchHolds
<1>4. \A k \in DOMAIN unfinished' : k \in 1..Len(unfinished) \/ k = Len(unfinished) + 1
  BY <1>3
<1>5. \A c : NothingCame(c) => NothingCame(c)'
  BY <1>1 DEF NothingCame
<1>6. \A k \in DOMAIN unfinished' : NothingCame(unfinished'[k])
  BY <1>3, <1>4, <1>5 DEF DispatchHolds
<1>7. \A k \in DOMAIN unfinished' : NothingCame(unfinished[k])'
  BY <1>1, <1>6 DEF NothingCame
<1>8. QED
  BY <1>2, <1>3, <1>7 DEF DispatchHolds

\* The innermost call returns: those that are left are as they were.
LEMMA StudioReturnFacts ==
  ASSUME DispatchHolds, unfinished # <<>>, Studio!Return
  PROVE  /\ IsSequence(unfinished)'
         /\ NothingCame(Studio!Innermost)
         /\ DOMAIN unfinished' \subseteq DOMAIN unfinished
         /\ \A k \in DOMAIN unfinished' : unfinished'[k] = unfinished[k]
<1>1. unfinished' = Web!Front(unfinished)
  BY DEF Studio!Return, Web!Front
<1>2. /\ IsSequence(Web!Front(unfinished)) /\ Len(unfinished) \in Nat \ {0}
      /\ DOMAIN unfinished = 1..Len(unfinished) /\ DOMAIN Web!Front(unfinished) = 1..(Len(unfinished) - 1)
      /\ \A n \in 1..(Len(unfinished) - 1) : Web!Front(unfinished)[n] = unfinished[n]
  BY Shortened DEF DispatchHolds
<1>3. Len(unfinished) \in DOMAIN unfinished
  BY <1>2
<1>4. NothingCame(Studio!Innermost)
  BY <1>3 DEF DispatchHolds, Studio!Innermost
<1>5. 1..(Len(unfinished) - 1) \subseteq 1..Len(unfinished)
  BY <1>2
<1>6. QED
  BY <1>1, <1>2, <1>4, <1>5 DEF IsSequence

\* A call that returns and leaves no action.
LEMMA StudioReturnKeeps ==
  ASSUME DispatchHolds, unfinished # <<>>, Studio!Return,
         UNCHANGED <<shown, waiting, studioEnded, actions>>
  PROVE  DispatchHolds'
<1>1. /\ IsSequence(unfinished)' /\ DOMAIN unfinished' \subseteq DOMAIN unfinished
      /\ \A k \in DOMAIN unfinished' : unfinished'[k] = unfinished[k]
  BY StudioReturnFacts
<1>2. WaitingHolds' /\ IsSequence(actions)' /\ \A n \in DOMAIN actions' : IsDispatched(actions'[n])
  BY DEF DispatchHolds, WaitingHolds
<1>3. \A k \in DOMAIN unfinished' : NothingCame(unfinished'[k])
  BY <1>1 DEF DispatchHolds
<1>4. \A k \in DOMAIN unfinished' : NothingCame(unfinished[k])'
  BY <1>3 DEF NothingCame
<1>5. QED
  BY <1>1, <1>2, <1>4 DEF DispatchHolds

\* The action that a call becomes: it is crossed when something came before it.
LEMMA StudioActionFacts ==
  ASSUME DispatchHolds, Studio!Dispatched
  PROVE  \E row :
           /\ actions' = Append(actions, row) /\ IsDispatched(row) /\ row.outcomes = {}
           /\ waiting'.id = Len(actions) + 1
           /\ row.crossed \/ (waiting = Studio!NotPending /\ shown = row.from)
<1> DEFINE call == Studio!Innermost
           row == [from |-> call.interaction.view, outcomes |-> {}, crossed |-> Len(actions) # call.before]
<1>1. unfinished # <<>> /\ call.kind = "dispatch" /\ Studio!Return
      /\ waiting' = [id |-> Len(actions) + 1, routes |-> call.interaction.routes]
      /\ actions' = Append(actions, row)
  BY DEF Studio!Dispatched
<1>2. NothingCame(call)
  BY <1>1, StudioReturnFacts
<1>3. /\ row.from = call.interaction.view /\ row.outcomes = {}
      /\ row.crossed = (Len(actions) # call.before) /\ IsDispatched(row)
  BY DEF IsDispatched
<1>4. waiting'.id = Len(actions) + 1
  BY <1>1
<1> HIDE DEF row, call
<1>5. row.crossed \/ (waiting = Studio!NotPending /\ shown = row.from)
  BY <1>1, <1>2, <1>3 DEF NothingCame
<1>6. QED
  BY <1>1, <1>3, <1>4, <1>5

LEMMA StudioDispatchedKeeps ==
  ASSUME DispatchHolds, Studio!Dispatched
  PROVE  DispatchHolds'
<1>1. PICK row :
        /\ actions' = Append(actions, row) /\ IsDispatched(row) /\ row.outcomes = {}
        /\ waiting'.id = Len(actions) + 1
        /\ row.crossed \/ (waiting = Studio!NotPending /\ shown = row.from)
  BY StudioActionFacts
<1>2. unfinished # <<>> /\ Studio!Return /\ UNCHANGED <<shown, studioEnded>>
  BY DEF Studio!Dispatched
<1>3. /\ IsSequence(actions)' /\ Len(actions) \in Nat /\ DOMAIN actions = 1..Len(actions)
      /\ DOMAIN actions' = 1..(Len(actions) + 1) /\ Len(actions') = Len(actions) + 1
      /\ \A n \in 1..Len(actions) : actions'[n] = actions[n]
      /\ actions'[Len(actions) + 1] = row
  BY <1>1, Appended DEF DispatchHolds
<1>4. PICK l \in Nat : l = Len(actions)
  BY <1>3
<1>5. \A n \in DOMAIN actions' : n \in DOMAIN actions \/ n = l + 1
  BY <1>3, <1>4
<1>6. \A n \in DOMAIN actions' : IsDispatched(actions'[n])
  BY <1>1, <1>3, <1>4, <1>5 DEF DispatchHolds
<1>7. waiting'.id \in DOMAIN actions' /\ actions'[waiting'.id] = row
  BY <1>1, <1>3, <1>4
<1>8. ASSUME NEW n \in DOMAIN actions', actions'[n].outcomes = {}
      PROVE  studioEnded' \/ waiting'.id = n \/ \E m \in DOMAIN actions' : m > n /\ actions'[m].crossed
  <2>1. CASE n = l + 1
    BY <2>1, <1>1, <1>4
  <2>2. CASE n \in DOMAIN actions
    <3>1. n \in 1..l /\ actions[n].outcomes = {}
      BY <1>3, <1>4, <1>8, <2>2
    <3>2. studioEnded \/ waiting.id = n \/ \E m \in DOMAIN actions : m > n /\ actions[m].crossed
      BY <2>2, <3>1 DEF DispatchHolds, WaitingHolds
    <3>3. CASE waiting.id = n
      <4>1. waiting # Studio!NotPending
        BY <3>1, <3>3 DEF Studio!NotPending
      <4>2. l + 1 \in DOMAIN actions' /\ l + 1 > n /\ actions'[l + 1].crossed
        BY <1>1, <1>3, <1>4, <3>1, <4>1
      <4>3. QED
        BY <4>2
    <3>4. CASE \E m \in DOMAIN actions : m > n /\ actions[m].crossed
      <4>1. PICK m \in DOMAIN actions : m > n /\ actions[m].crossed
        BY <3>4
      <4>2. m \in DOMAIN actions' /\ actions'[m] = actions[m]
        BY <1>3, <1>4, <4>1
      <4>3. QED
        BY <4>1, <4>2
    <3>5. QED
      BY <1>2, <3>2, <3>3, <3>4
  <2>3. QED
    BY <1>5, <2>1, <2>2
<1>9. waiting' # Studio!NotPending =>
        /\ actions'[waiting'.id].outcomes = {}
        /\ actions'[waiting'.id].crossed \/ shown' = actions'[waiting'.id].from
  BY <1>1, <1>2, <1>7
<1>10. WaitingHolds'
  BY <1>7, <1>8, <1>9 DEF WaitingHolds
<1>11. /\ IsSequence(unfinished)' /\ DOMAIN unfinished' \subseteq DOMAIN unfinished
       /\ \A k \in DOMAIN unfinished' : unfinished'[k] = unfinished[k]
  BY <1>2, StudioReturnFacts
<1>12. \A k \in DOMAIN unfinished' : NothingCame(unfinished[k])
  BY <1>11 DEF DispatchHolds
<1>13. \A k \in DOMAIN unfinished' : NothingCame(unfinished[k])'
  <2> TAKE k \in DOMAIN unfinished'
  <2>1. NothingCame(unfinished[k]) /\ unfinished'[k] = unfinished[k]
    BY <1>11, <1>12
  <2>2. Len(actions) = l /\ Len(actions') = l + 1
    BY <1>3, <1>4
  <2>3. QED
    BY <2>1, <2>2 DEF NothingCame
<1>14. QED
  BY <1>3, <1>6, <1>10, <1>11, <1>13 DEF DispatchHolds

LEMMA StudioCompleteKeeps ==
  ASSUME DispatchHolds, NEW id, NEW outcome, Studio!Complete(id, outcome)
  PROVE  DispatchHolds'
<1> DEFINE row == [from |-> actions[id].from, outcomes |-> {outcome}, crossed |-> actions[id].crossed]
<1>1. PICK A : actions \in Seq(A)
  BY DEF DispatchHolds, IsSequence
<1>2. id = waiting.id /\ id \in DOMAIN actions /\ actions[id].outcomes = {}
      /\ waiting # Studio!NotPending /\ waiting' = Studio!NotPending
      /\ UNCHANGED <<unfinished, studioEnded>>
  BY DEF Studio!Complete, DispatchHolds, WaitingHolds
<1>3. actions' = [actions EXCEPT ![id].outcomes = actions[id].outcomes \cup {outcome}]
  BY DEF Studio!Complete
<1>4. actions[id] = [from |-> actions[id].from, outcomes |-> actions[id].outcomes,
                     crossed |-> actions[id].crossed] /\ actions[id].crossed \in BOOLEAN
  BY <1>2 DEF DispatchHolds, IsDispatched
<1>5. [actions[id] EXCEPT !.outcomes = actions[id].outcomes \cup {outcome}] = row
  BY <1>2, <1>4
<1>6. actions' = [actions EXCEPT ![id] = row]
  BY <1>3, <1>5
<1>7. IsDispatched(row) /\ row.outcomes # {} /\ row.crossed = actions[id].crossed
  BY <1>4 DEF IsDispatched
<1> HIDE DEF row
<1>8. actions' \in Seq(A \cup {row}) /\ Len(actions') = Len(actions)
  BY <1>1, <1>2, <1>6
<1>9. DOMAIN actions' = DOMAIN actions
  BY <1>6
<1>10. \A n \in DOMAIN actions' : actions'[n] = IF n = id THEN row ELSE actions[n]
  BY <1>6, <1>9
<1>11. \A n \in DOMAIN actions' : IsDispatched(actions'[n])
  BY <1>7, <1>9, <1>10 DEF DispatchHolds
<1>12. \A n \in DOMAIN actions : actions'[n].crossed = actions[n].crossed
  BY <1>7, <1>9, <1>10
<1>13. WaitingHolds'
  <2>1. ASSUME NEW n \in DOMAIN actions', actions'[n].outcomes = {}
        PROVE  studioEnded' \/ \E m \in DOMAIN actions' : m > n /\ actions'[m].crossed
    <3>1. n # id /\ n \in DOMAIN actions /\ actions[n].outcomes = {}
      BY <1>7, <1>9, <1>10, <2>1
    <3>2. studioEnded \/ \E m \in DOMAIN actions : m > n /\ actions[m].crossed
      BY <1>2, <3>1 DEF DispatchHolds, WaitingHolds
    <3>3. QED
      BY <1>2, <1>9, <1>12, <3>2
  <2>2. QED
    BY <1>2, <2>1 DEF WaitingHolds
<1>14. \A k \in DOMAIN unfinished : NothingCame(unfinished[k])'
  BY <1>2, <1>8 DEF DispatchHolds, NothingCame
<1>15. QED
  BY <1>2, <1>8, <1>11, <1>13, <1>14 DEF DispatchHolds, IsSequence

\* The invariant holds of every run of an experience.
THEOREM DispatchHoldsAlways == Studio!Spec => []DispatchHolds
<1>1. Studio!Init => DispatchHolds
  <2> SUFFICES ASSUME Studio!Init PROVE DispatchHolds
    OBVIOUS
  <2>1. actions = <<>> /\ unfinished = <<>> /\ waiting = Studio!NotPending
    BY DEF Studio!Init
  <2>2. <<>> \in Seq({}) /\ DOMAIN actions = {} /\ DOMAIN unfinished = {}
    BY <2>1
  <2>3. QED
    BY <2>1, <2>2 DEF DispatchHolds, WaitingHolds, IsSequence
<1>2. DispatchHolds /\ [Studio!Next]_Studio!sessionVars => DispatchHolds'
  <2> SUFFICES ASSUME DispatchHolds, [Studio!Next]_Studio!sessionVars PROVE DispatchHolds'
    OBVIOUS
  <2>1. CASE \E interaction \in Interaction : Studio!Dispatch(interaction)
    <3>1. PICK interaction \in Interaction : Studio!Dispatch(interaction)
      BY <2>1
    <3> DEFINE call == [kind |-> "dispatch", interaction |-> interaction, seen |-> current,
                        before |-> Len(actions)]
    <3>2. Studio!Call(call) /\ waiting = Studio!NotPending /\ interaction.view = shown
      BY <3>1 DEF Studio!Dispatch
    <3>3. PICK A : actions \in Seq(A)
      BY DEF DispatchHolds, IsSequence
    <3>4. Len(actions) \in Nat
      BY <3>3
    <3>5. NothingCame(call)
      BY <3>2, <3>4 DEF NothingCame
    <3>6. QED
      BY <3>2, <3>5, StudioCallKeeps
  <2>2. CASE \E id \in 1..MaxDispatches, outcome \in Studio!Outcome : Studio!Complete(id, outcome)
    BY <2>2, StudioCompleteKeeps
  <2>3. CASE \E patch \in Patch : Studio!ApplyHostPatch(patch)
    <3>1. PICK patch \in Patch : Studio!Call([kind |-> "patch", patch |-> patch])
      BY <2>3 DEF Studio!ApplyHostPatch
    <3>2. NothingCame([kind |-> "patch", patch |-> patch])
      BY DEF NothingCame
    <3>3. QED
      BY <3>1, <3>2, StudioCallKeeps
  <2>4. CASE Studio!Dispatched
    BY <2>4, StudioDispatchedKeeps
  <2>5. CASE Studio!Patched \/ Studio!CallFails
    <3>1. unfinished # <<>> /\ Studio!Return /\ UNCHANGED <<shown, waiting, studioEnded, actions>>
      BY <2>5 DEF Studio!Patched, Studio!CallFails
    <3>2. QED
      BY <3>1, StudioReturnKeeps
  <2>6. CASE Studio!Dispose
    <3>1. studioEnded' = TRUE /\ waiting' = Studio!NotPending /\ UNCHANGED <<shown, unfinished, actions>>
      BY <2>6 DEF Studio!Dispose
    <3>2. WaitingHolds' /\ IsSequence(actions)' /\ \A n \in DOMAIN actions' : IsDispatched(actions'[n])
      BY <3>1 DEF DispatchHolds, WaitingHolds
    <3>3. \A k \in DOMAIN unfinished : NothingCame(unfinished[k])'
      BY <3>1 DEF DispatchHolds, NothingCame
    <3>4. QED
      BY <3>1, <3>2, <3>3 DEF DispatchHolds
  <2>7. CASE Studio!DataMoves \/ UNCHANGED Studio!sessionVars
    <3>1. UNCHANGED <<shown, waiting, studioEnded, unfinished, actions>>
      BY <2>7 DEF Studio!DataMoves, Studio!sessionVars
    <3>2. QED
      BY <3>1 DEF DispatchHolds, WaitingHolds, NothingCame
  <2>8. QED
    BY <2>1, <2>2, <2>3, <2>4, <2>5, <2>6, <2>7 DEF Studio!Next
<1>3. QED
  BY <1>1, <1>2, PTL DEF Studio!Spec

\* The host's answer chooses the next view of the view the person acted on, and of
\* no other, only its first answer does, and no action is forgotten, whatever views,
\* rules and patches there are, however late the answer comes and whatever the host
\* calls while it is asked for an id; but for the action that such a call crossed.
THEOREM AnswersMeetTheirView == Studio!Spec => []Studio!OutcomeMeetsItsView
<1>1. DispatchHolds => Studio!OutcomeMeetsItsView
  <2> SUFFICES ASSUME DispatchHolds PROVE Studio!OutcomeMeetsItsView
    OBVIOUS
  <2>1. \A n \in DOMAIN actions : Studio!Cardinality(actions[n].outcomes) <= 1
    <3> TAKE n \in DOMAIN actions
    <3>1. \A x, y \in actions[n].outcomes : x = y
      BY DEF DispatchHolds, IsDispatched
    <3>2. QED
      BY <3>1, AtMostOneOutcome
  <2>2. WaitingHolds
    BY DEF DispatchHolds
  <2>3. QED
    BY <2>1, <2>2 DEF WaitingHolds, Studio!OutcomeMeetsItsView
<1>2. QED
  BY <1>1, DispatchHoldsAlways, PTL

-----------------------------------------------------------------------------
(* The resolver of a host.                                                     *)

LEMMA CountsAreCounts ==
  ASSUME NEW S
  PROVE  Resolver!Cardinality(S) = Cardinality(S)
BY DEF Resolver!Cardinality, Cardinality

LEMMA LeastOf ==
  ASSUME NEW S, S \subseteq Nat, S # {}
  PROVE  \E x \in S : \A y \in S : x <= y
<1>1. PICK x \in S : \A y \in S : ~(<<y, x>> \in OpToRel(<, Nat))
  BY NatLessThanWellFounded, WFMin
<1>2. \A y \in S : x <= y
  <2> TAKE y \in S
  <2>1. x \in Nat /\ y \in Nat
    OBVIOUS
  <2>2. ~(<<y, x>> \in OpToRel(<, Nat))
    BY <1>1
  <2>3. ~(y < x)
    BY <2>1, <2>2 DEF OpToRel
  <2>4. QED
    BY <2>1, <2>3
<1>3. QED
  BY <1>2

LEMMA LeastIsThere ==
  ASSUME NEW S, S \subseteq Nat, S # {}
  PROVE  Resolver!Min(S) \in S
BY LeastOf DEF Resolver!Min

\* A registry answers what it has, to whoever names it, by any reference.
Releases(r) == {n \in 1..Len(Registry) : Resolver!SameRelease(Registry[n], r)}

LEMMA LookupIs ==
  ASSUME NEW r, Len(Registry) \in Nat
  PROVE  Resolver!Lookup(Registry, r) =
           IF Releases(r) = {} THEN NotThere ELSE Registry[Resolver!Min(Releases(r))]
<1>1. Resolver!SelectInSeq(Registry, LAMBDA y : Resolver!SameRelease(y, r))
        = IF Releases(r) # {} THEN Resolver!Min(Releases(r)) ELSE 0
  BY DEF Resolver!SelectInSeq, Releases
<1>2. Releases(r) # {} => Resolver!Min(Releases(r)) # 0
  <2>1. Releases(r) \subseteq 1..Len(Registry)
    BY DEF Releases
  <2>2. Releases(r) # {} => Resolver!Min(Releases(r)) \in Releases(r)
    BY <2>1, LeastIsThere
  <2>3. QED
    BY <2>1, <2>2
<1>3. QED
  BY <1>1, <1>2 DEF Resolver!Lookup

LEMMA LookupFinds ==
  ASSUME NEW r, NEW other, r.id = other.id, r.version = other.version,
         Len(Registry) \in Nat
  PROVE  /\ Resolver!Lookup(Registry, r) = Resolver!Lookup(Registry, other)
         /\ Resolver!Lookup(Registry, r) # NotThere =>
              \E n \in 1..Len(Registry) :
                /\ Resolver!Lookup(Registry, r) = Registry[n]
                /\ Registry[n].id = r.id /\ Registry[n].version = r.version
<1>1. Releases(r) = Releases(other)
  BY DEF Releases, Resolver!SameRelease
<1>2. Releases(r) # {} => Resolver!Min(Releases(r)) \in Releases(r)
  <2>1. Releases(r) \subseteq 1..Len(Registry)
    BY DEF Releases
  <2>2. QED
    BY <2>1, LeastIsThere
<1>3. QED
  BY <1>1, <1>2, LookupIs DEF Releases, Resolver!SameRelease

\* A target's entrypoint is an artifact that the pack publishes.
Published(deployment, artifact) ==
  LET pack == Resolver!Lookup(Registry, artifact.release)
  IN  /\ pack # NotThere
      /\ artifact.artifact \in Resolver!Range(pack.artifacts)
      /\ artifact.artifact.id \in Resolver!Range(pack.entrypoints)
      /\ \E t \in Target :
           t # NotThere /\ t.deployment = deployment /\ Resolver!SameRelease(t, pack)

RegistryIsValid ==
  Len(Registry) \in Nat /\ \A n \in 1..Len(Registry) : Resolver!PackIsValid(Registry[n])

LEMMA EntrypointIsPublished ==
  ASSUME RegistryIsValid, NEW t \in Target, t # NotThere,
         Resolver!EntrypointArtifact(t) # NotThere
  PROVE  Published(t.deployment, Resolver!EntrypointArtifact(t))
<1> DEFINE pack == Resolver!Lookup(Registry, t)
           chosen == CHOOSE a \in Resolver!ArtifactsOf(pack, t.entrypoint) : TRUE
           answer == [release |-> [id |-> pack.id, version |-> pack.version], artifact |-> chosen]
<1>1. /\ pack # NotThere /\ t.entrypoint \in Resolver!Range(pack.entrypoints)
      /\ Resolver!EntrypointArtifact(t) = answer
  BY DEF Resolver!EntrypointArtifact
<1>2. PICK n \in 1..Len(Registry) :
        pack = Registry[n] /\ Registry[n].id = t.id /\ Registry[n].version = t.version
  BY <1>1, LookupFinds DEF RegistryIsValid
<1>3. Resolver!PackIsValid(pack)
  BY <1>2 DEF RegistryIsValid
<1>4. \E a : a \in Resolver!ArtifactsOf(pack, t.entrypoint)
  BY <1>1, <1>3 DEF Resolver!PackIsValid
<1>5. chosen \in Resolver!ArtifactsOf(pack, t.entrypoint)
  BY <1>4
<1>6. chosen \in Resolver!Range(pack.artifacts) /\ chosen.id = t.entrypoint
  BY <1>5 DEF Resolver!ArtifactsOf
<1>7. /\ answer.artifact = chosen
      /\ answer.release.id = t.id /\ answer.release.version = t.version
  BY <1>2
<1>8. Resolver!Lookup(Registry, answer.release) = pack
  BY <1>7, LookupFinds DEF RegistryIsValid
<1>9. Resolver!SameRelease(t, pack)
  BY <1>2 DEF Resolver!SameRelease
<1> HIDE DEF pack, chosen, answer
<1>10. QED
  BY <1>1, <1>6, <1>7, <1>8, <1>9 DEF Published

-----------------------------------------------------------------------------
IsCall(row) ==
  row = [at |-> row.at, instance |-> row.instance, deployment |-> row.deployment,
         artifact |-> row.artifact]

\* What is reserved is what the calls in flight will mount, each of which has its
\* own; a resolver that is gone has nothing.
SlotsHold ==
  IF gone THEN reserved = {} /\ Resolver!Mounted = {}
  ELSE /\ \A c \in Resolver!InFlight : calls[c].instance \in reserved
       /\ \A i \in reserved : \E c \in Resolver!InFlight : calls[c].instance = i
       /\ reserved \cap Resolver!Mounted = {}
       /\ \A c, d \in Resolver!InFlight : calls[c].instance = calls[d].instance => c = d

\* The inductive invariant.
ResolverHolds ==
  /\ mounted = [i \in Instance |-> mounted[i]] /\ calls = [c \in Call |-> calls[c]]
  /\ \A c \in Call : IsCall(calls[c])
  /\ reserved \subseteq Instance /\ gone \in BOOLEAN
  /\ \A c \in Resolver!InFlight : calls[c].instance \in Instance
  /\ \A c \in Call : calls[c].at \in {"publication", "requirement"} =>
       Published(calls[c].deployment, calls[c].artifact)
  /\ \A i \in Resolver!Mounted : Published(mounted[i].deployment, mounted[i].artifact)
  /\ SlotsHold
  /\ Cardinality(Resolver!Mounted) + Cardinality(reserved) <= MaxInstances

LEMMA SlotsAreFinite ==
  ASSUME IsFiniteSet(Instance), ResolverHolds
  PROVE  /\ IsFiniteSet(Resolver!Mounted) /\ Cardinality(Resolver!Mounted) \in Nat
         /\ IsFiniteSet(reserved) /\ Cardinality(reserved) \in Nat
<1>1. Resolver!Mounted \subseteq Instance /\ reserved \subseteq Instance
  BY DEF Resolver!Mounted, ResolverHolds
<1>2. QED
  BY <1>1, FS_Subset, FS_CardinalityType

\* What a step makes of one call, and of no other.
LEMMA OneCallChanges ==
  ASSUME ResolverHolds, NEW c \in Call, NEW row, calls' = [calls EXCEPT ![c] = row]
  PROVE  /\ calls' = [d \in Call |-> calls'[d]]
         /\ \A d \in Call : calls'[d] = IF d = c THEN row ELSE calls[d]
         /\ \A d : d \in Resolver!InFlight' <=>
              IF d = c THEN row.at \in {"deployment", "publication", "requirement"}
              ELSE d \in Resolver!InFlight
<1>1. /\ DOMAIN calls = Call /\ DOMAIN calls' = Call
      /\ \A d \in Call : calls'[d] = IF d = c THEN row ELSE calls[d]
  BY DEF ResolverHolds
<1>2. calls' = [d \in Call |-> calls'[d]]
  BY <1>1 DEF ResolverHolds
<1>3. QED
  BY <1>1, <1>2 DEF Resolver!InFlight

LEMMA FailKeeps ==
  ASSUME IsFiniteSet(Instance), MaxInstances \in Nat, ResolverHolds, NEW c \in Resolver!InFlight,
         Resolver!Fail(c)
  PROVE  ResolverHolds'
<1> DEFINE i == calls[c].instance
<1>1. c \in Call
  BY DEF Resolver!InFlight
<1>2. calls' = [calls EXCEPT ![c] = Resolver!Idle] /\ reserved' = reserved \ {i}
      /\ mounted' = mounted /\ gone' = gone
  BY DEF Resolver!Fail
<1>3. Resolver!Idle.at = "idle" /\ IsCall(Resolver!Idle)
  BY DEF Resolver!Idle, IsCall
<1>4. /\ calls' = [d \in Call |-> calls'[d]]
      /\ \A d \in Call : calls'[d] = IF d = c THEN Resolver!Idle ELSE calls[d]
      /\ \A d : d \in Resolver!InFlight' <=> d # c /\ d \in Resolver!InFlight
  BY <1>1, <1>2, <1>3, OneCallChanges
<1>5. Resolver!Mounted' = Resolver!Mounted
  BY <1>2 DEF Resolver!Mounted
<1>6. Resolver!InFlight \subseteq Call
  BY DEF Resolver!InFlight
<1>7. SlotsHold'
  <2>1. CASE gone
    BY <1>2, <1>5, <2>1 DEF ResolverHolds, SlotsHold
  <2>2. CASE ~gone
    <3>1. \A d \in Resolver!InFlight' : calls'[d] = calls[d] /\ d \in Resolver!InFlight /\ d # c
      BY <1>4, <1>6
    <3>2. \A d \in Resolver!InFlight' : calls'[d].instance \in reserved'
      BY <1>2, <2>2, <3>1 DEF ResolverHolds, SlotsHold
    <3>3. \A j \in reserved' : \E d \in Resolver!InFlight' : calls'[d].instance = j
      <4> TAKE j \in reserved'
      <4>1. PICK d \in Resolver!InFlight : calls[d].instance = j
        BY <1>2, <2>2 DEF ResolverHolds, SlotsHold
      <4>2. d # c
        BY <1>2, <4>1
      <4>3. QED
        BY <1>4, <1>6, <4>1, <4>2
    <3>4. reserved' \cap Resolver!Mounted' = {}
      BY <1>2, <1>5, <2>2 DEF ResolverHolds, SlotsHold
    <3>5. \A d, e \in Resolver!InFlight' : calls'[d].instance = calls'[e].instance => d = e
      BY <2>2, <3>1 DEF ResolverHolds, SlotsHold
    <3>6. ~gone'
      BY <1>2, <2>2
    <3>7. QED
      BY <3>2, <3>3, <3>4, <3>5, <3>6 DEF SlotsHold
  <2>3. QED
    BY <2>1, <2>2
<1>8. Cardinality(reserved') <= Cardinality(reserved) /\ Cardinality(reserved') \in Nat
  BY <1>2, SlotsAreFinite, FS_Subset, FS_CardinalityType
<1>9. Cardinality(Resolver!Mounted') + Cardinality(reserved') <= MaxInstances
  BY <1>5, <1>8, SlotsAreFinite DEF ResolverHolds
<1>10. \A d \in Resolver!InFlight' : calls'[d].instance \in Instance
  BY <1>4, <1>6 DEF ResolverHolds
<1>11. \A d \in Call : IsCall(calls'[d]) /\ (calls'[d].at \in {"publication", "requirement"} =>
         Published(calls'[d].deployment, calls'[d].artifact))
  BY <1>3, <1>4 DEF ResolverHolds
<1>12. QED
  BY <1>2, <1>4, <1>5, <1>7, <1>9, <1>10, <1>11 DEF ResolverHolds, Published

\* A call goes on with the instance it has reserved.
LEMMA MovesKeep ==
  ASSUME ResolverHolds, NEW c \in Resolver!InFlight, NEW row, IsCall(row),
         row.at \in {"publication", "requirement"}, row.instance = calls[c].instance,
         Published(row.deployment, row.artifact), calls' = [calls EXCEPT ![c] = row],
         UNCHANGED <<mounted, reserved, gone>>
  PROVE  ResolverHolds'
<1>1. c \in Call /\ Resolver!InFlight \subseteq Call
  BY DEF Resolver!InFlight
<1>2. /\ calls' = [d \in Call |-> calls'[d]]
      /\ \A d \in Call : calls'[d] = IF d = c THEN row ELSE calls[d]
      /\ \A d : d \in Resolver!InFlight' <=> d \in Resolver!InFlight
  BY <1>1, OneCallChanges
<1>3. Resolver!Mounted' = Resolver!Mounted
  BY DEF Resolver!Mounted
<1>4. \A d \in Resolver!InFlight : calls'[d].instance = calls[d].instance
  BY <1>1, <1>2
<1>5. SlotsHold'
  <2>1. CASE gone
    BY <1>3, <2>1 DEF ResolverHolds, SlotsHold
  <2>2. CASE ~gone
    <3>1. \A d \in Resolver!InFlight' : calls'[d].instance \in reserved'
      BY <1>2, <1>4, <2>2 DEF ResolverHolds, SlotsHold
    <3>2. \A j \in reserved' : \E d \in Resolver!InFlight' : calls'[d].instance = j
      <4>1. \A j \in reserved : \E d \in Resolver!InFlight : calls[d].instance = j
        BY <2>2 DEF ResolverHolds, SlotsHold
      <4>2. reserved' = reserved
        OBVIOUS
      <4>3. QED
        BY <1>2, <1>4, <4>1, <4>2
    <3>3. reserved' \cap Resolver!Mounted' = {}
      BY <1>3, <2>2 DEF ResolverHolds, SlotsHold
    <3>4. \A d, e \in Resolver!InFlight' : calls'[d].instance = calls'[e].instance => d = e
      <4>1. \A d, e \in Resolver!InFlight : calls[d].instance = calls[e].instance => d = e
        BY <2>2 DEF ResolverHolds, SlotsHold
      <4>2. QED
        BY <1>2, <1>4, <4>1
    <3>5. QED
      BY <2>2, <3>1, <3>2, <3>3, <3>4 DEF SlotsHold
  <2>3. QED
    BY <2>1, <2>2
<1>6. \A d \in Call : IsCall(calls'[d]) /\ (calls'[d].at \in {"publication", "requirement"} =>
        Published(calls'[d].deployment, calls'[d].artifact))
  BY <1>2 DEF ResolverHolds
<1>7. QED
  BY <1>2, <1>3, <1>4, <1>5, <1>6 DEF ResolverHolds, Published

LEMMA RequestKeeps ==
  ASSUME IsFiniteSet(Instance), MaxInstances \in Nat, ResolverHolds,
         NEW c \in Call, NEW i \in Instance, NEW d \in Deployment, Resolver!Request(c, i, d)
  PROVE  ResolverHolds'
<1> DEFINE row == [at |-> "deployment", instance |-> i, deployment |-> d, artifact |-> NotThere]
<1>1. /\ calls[c].at = "idle" /\ ~gone /\ i \notin Resolver!Mounted /\ i \notin reserved
      /\ Resolver!Cardinality(Resolver!Mounted) + Resolver!Cardinality(reserved) < MaxInstances
      /\ reserved' = reserved \cup {i} /\ calls' = [calls EXCEPT ![c] = row]
      /\ mounted' = mounted /\ gone' = gone
  BY DEF Resolver!Request
<1>2. row.at = "deployment" /\ row.instance = i /\ IsCall(row)
  BY DEF IsCall
<1> HIDE DEF row
<1>3. /\ calls' = [e \in Call |-> calls'[e]]
      /\ \A e \in Call : calls'[e] = IF e = c THEN row ELSE calls[e]
      /\ \A e : e \in Resolver!InFlight' <=> e = c \/ e \in Resolver!InFlight
  BY <1>1, <1>2, OneCallChanges
<1>4. c \notin Resolver!InFlight /\ Resolver!InFlight \subseteq Call
  BY <1>1 DEF Resolver!InFlight
<1>5. Resolver!Mounted' = Resolver!Mounted
  BY <1>1 DEF Resolver!Mounted
<1>6. \A e \in Resolver!InFlight : calls'[e] = calls[e] /\ calls[e].instance # i
  BY <1>1, <1>3, <1>4 DEF ResolverHolds, SlotsHold
<1>7. calls'[c] = row /\ c \in Resolver!InFlight'
  BY <1>3
<1>8. SlotsHold'
  <2>1. \A e \in Resolver!InFlight' : calls'[e].instance \in reserved'
    BY <1>1, <1>2, <1>3, <1>6, <1>7 DEF ResolverHolds, SlotsHold
  <2>2. \A j \in reserved' : \E e \in Resolver!InFlight' : calls'[e].instance = j
    <3> TAKE j \in reserved'
    <3>1. CASE j = i
      BY <1>2, <1>7, <3>1
    <3>2. CASE j \in reserved
      <4>1. PICK e \in Resolver!InFlight : calls[e].instance = j
        BY <1>1, <3>2 DEF ResolverHolds, SlotsHold
      <4>2. QED
        BY <1>3, <1>6, <4>1
    <3>3. QED
      BY <1>1, <3>1, <3>2
  <2>3. reserved' \cap Resolver!Mounted' = {}
    BY <1>1, <1>5 DEF ResolverHolds, SlotsHold
  <2>4. \A e, f \in Resolver!InFlight' : calls'[e].instance = calls'[f].instance => e = f
    BY <1>1, <1>2, <1>3, <1>6, <1>7 DEF ResolverHolds, SlotsHold
  <2>5. QED
    BY <1>1, <2>1, <2>2, <2>3, <2>4 DEF SlotsHold
<1>9. Cardinality(reserved') = Cardinality(reserved) + 1
  BY <1>1, SlotsAreFinite, FS_AddElement
<1>10. Cardinality(Resolver!Mounted') + Cardinality(reserved') <= MaxInstances
  BY <1>1, <1>5, <1>9, SlotsAreFinite, CountsAreCounts
<1>11. \A e \in Resolver!InFlight' : calls'[e].instance \in Instance
  BY <1>2, <1>3, <1>6, <1>7 DEF ResolverHolds
<1>12. \A e \in Call : IsCall(calls'[e]) /\ (calls'[e].at \in {"publication", "requirement"} =>
         Published(calls'[e].deployment, calls'[e].artifact))
  BY <1>2, <1>3 DEF ResolverHolds
<1>13. QED
  BY <1>1, <1>3, <1>5, <1>8, <1>10, <1>11, <1>12 DEF ResolverHolds, Published

LEMMA DeploymentResolvedKeeps ==
  ASSUME IsFiniteSet(Instance), MaxInstances \in Nat, RegistryIsValid, ResolverHolds,
         NEW c \in Call, NEW t \in Target, Resolver!DeploymentResolved(c, t)
  PROVE  ResolverHolds'
<1>1. c \in Resolver!InFlight
  BY DEF Resolver!DeploymentResolved, Resolver!InFlight
<1>2. CASE Resolver!Fail(c)
  BY <1>1, <1>2, FailKeeps
<1>3. CASE ~Resolver!Fail(c)
  <2> DEFINE answer == Resolver!EntrypointArtifact(t)
             row == [at |-> "publication", instance |-> calls[c].instance,
                     deployment |-> calls[c].deployment, artifact |-> answer]
  <2>1. /\ t # NotThere /\ t.deployment = calls[c].deployment /\ answer # NotThere
        /\ calls' = [calls EXCEPT ![c].at = "publication", ![c].artifact = answer]
        /\ UNCHANGED <<mounted, reserved, gone>>
    BY <1>3 DEF Resolver!DeploymentResolved, Resolver!TargetIsValid
  <2>2. Published(calls[c].deployment, answer)
    BY <2>1, EntrypointIsPublished
  <2> HIDE DEF answer
  <2>3. calls[c] = [at |-> calls[c].at, instance |-> calls[c].instance,
                    deployment |-> calls[c].deployment, artifact |-> calls[c].artifact]
    BY DEF ResolverHolds, IsCall
  <2>4. calls' = [calls EXCEPT ![c] = row]
    <3> DEFINE one == [at |-> "publication", instance |-> calls[c].instance,
                       deployment |-> calls[c].deployment, artifact |-> calls[c].artifact]
    <3>1. [calls[c] EXCEPT !.at = "publication"] = one
      BY <2>3
    <3>2. [one EXCEPT !.artifact = answer] = row
      OBVIOUS
    <3>3. [calls EXCEPT ![c].at = "publication"] = [calls EXCEPT ![c] = one]
      BY <3>1
    <3> HIDE DEF one, row
    <3>4. DOMAIN calls = Call
      BY DEF ResolverHolds
    <3>5. [[calls EXCEPT ![c] = one] EXCEPT ![c].artifact = answer] = [calls EXCEPT ![c] = row]
      BY <3>2, <3>4
    <3>6. QED
      BY <2>1, <3>3, <3>5
  <2>5. /\ row.at = "publication" /\ row.instance = calls[c].instance
        /\ row.deployment = calls[c].deployment /\ row.artifact = answer /\ IsCall(row)
    BY DEF IsCall
  <2> HIDE DEF row
  <2>6. QED
    BY <1>1, <2>1, <2>2, <2>4, <2>5, MovesKeep
<1>4. QED
  BY <1>2, <1>3

LEMMA PublicationResolvedKeeps ==
  ASSUME IsFiniteSet(Instance), MaxInstances \in Nat, ResolverHolds,
         NEW c \in Call, NEW isObject \in BOOLEAN, Resolver!PublicationResolved(c, isObject)
  PROVE  ResolverHolds'
<1>1. c \in Resolver!InFlight /\ calls[c].at = "publication"
  BY DEF Resolver!PublicationResolved, Resolver!InFlight
<1>2. CASE isObject
  <2> DEFINE row == [at |-> "requirement", instance |-> calls[c].instance,
                     deployment |-> calls[c].deployment, artifact |-> calls[c].artifact]
  <2>1. calls' = [calls EXCEPT ![c].at = "requirement"] /\ UNCHANGED <<mounted, reserved, gone>>
    BY <1>2 DEF Resolver!PublicationResolved
  <2>2. calls[c] = [at |-> calls[c].at, instance |-> calls[c].instance,
                    deployment |-> calls[c].deployment, artifact |-> calls[c].artifact]
    BY DEF ResolverHolds, IsCall
  <2>3. [calls[c] EXCEPT !.at = "requirement"] = row
    BY <2>2
  <2>4. calls' = [calls EXCEPT ![c] = row]
    BY <2>1, <2>3
  <2>5. /\ row.at = "requirement" /\ row.instance = calls[c].instance /\ IsCall(row)
        /\ row.deployment = calls[c].deployment /\ row.artifact = calls[c].artifact
    BY DEF IsCall
  <2>6. Published(calls[c].deployment, calls[c].artifact)
    BY <1>1 DEF ResolverHolds
  <2> HIDE DEF row
  <2>7. QED
    BY <1>1, <2>1, <2>4, <2>5, <2>6, MovesKeep
<1>3. CASE ~isObject
  <2>1. Resolver!Fail(c)
    BY <1>3 DEF Resolver!PublicationResolved
  <2>2. QED
    BY <1>1, <2>1, FailKeeps
<1>4. QED
  BY <1>2, <1>3

LEMMA ResolverMountKeeps ==
  ASSUME IsFiniteSet(Instance), MaxInstances \in Nat, ResolverHolds,
         NEW c \in Resolver!InFlight, calls[c].at = "requirement", ~gone, Resolver!Mount(c)
  PROVE  ResolverHolds'
<1> DEFINE i == calls[c].instance
           it == [deployment |-> calls[c].deployment, artifact |-> calls[c].artifact]
<1>1. c \in Call /\ i \in Instance /\ i \in reserved /\ Resolver!InFlight \subseteq Call
  BY DEF Resolver!InFlight, ResolverHolds, SlotsHold
<1>2. /\ mounted' = [mounted EXCEPT ![i] = it] /\ reserved' = reserved \ {i}
      /\ calls' = [calls EXCEPT ![c] = Resolver!Idle] /\ gone' = gone
  BY DEF Resolver!Mount
<1>3. Resolver!Idle.at = "idle" /\ IsCall(Resolver!Idle)
  BY DEF Resolver!Idle, IsCall
<1>4. /\ calls' = [d \in Call |-> calls'[d]]
      /\ \A d \in Call : calls'[d] = IF d = c THEN Resolver!Idle ELSE calls[d]
      /\ \A d : d \in Resolver!InFlight' <=> d # c /\ d \in Resolver!InFlight
  BY <1>1, <1>2, <1>3, OneCallChanges
<1>5. it.deployment = calls[c].deployment /\ it.artifact = calls[c].artifact
  OBVIOUS
<1>6. \A d \in Resolver!InFlight : calls[d].instance = i => d = c
  BY DEF ResolverHolds, SlotsHold
<1> HIDE DEF it
<1>7. DOMAIN mounted = Instance
  BY DEF ResolverHolds
<1>8. /\ mounted' = [j \in Instance |-> mounted'[j]]
      /\ \A j \in Instance : mounted'[j] = IF j = i THEN it ELSE mounted[j]
  BY <1>1, <1>2, <1>7
<1>9. Resolver!Mounted' \subseteq Resolver!Mounted \cup {i} /\ i \notin Resolver!Mounted
  BY <1>1, <1>8 DEF Resolver!Mounted, ResolverHolds, SlotsHold
<1>10. SlotsHold'
  <2>1. \A d \in Resolver!InFlight' :
          calls'[d] = calls[d] /\ d \in Resolver!InFlight /\ d # c /\ calls[d].instance # i
    BY <1>1, <1>4, <1>6
  <2>2. \A d \in Resolver!InFlight' : calls'[d].instance \in reserved'
    <3>1. \A d \in Resolver!InFlight : calls[d].instance \in reserved
      BY DEF ResolverHolds, SlotsHold
    <3>2. reserved' = reserved \ {i}
      BY <1>2
    <3> HIDE DEF i
    <3>3. QED
      BY <2>1, <3>1, <3>2
  <2>3. \A j \in reserved' : \E d \in Resolver!InFlight' : calls'[d].instance = j
    <3> TAKE j \in reserved'
    <3>1. PICK d \in Resolver!InFlight : calls[d].instance = j
      BY <1>2 DEF ResolverHolds, SlotsHold
    <3>2. d # c
      BY <1>2, <3>1
    <3>3. QED
      BY <1>1, <1>4, <3>1, <3>2
  <2>4. reserved' \cap Resolver!Mounted' = {}
    <3>1. reserved \cap Resolver!Mounted = {}
      BY DEF ResolverHolds, SlotsHold
    <3>2. reserved' = reserved \ {i}
      BY <1>2
    <3> HIDE DEF i
    <3>3. QED
      BY <1>9, <3>1, <3>2
  <2>5. \A d, e \in Resolver!InFlight' : calls'[d].instance = calls'[e].instance => d = e
    <3>1. \A d, e \in Resolver!InFlight : calls[d].instance = calls[e].instance => d = e
      BY DEF ResolverHolds, SlotsHold
    <3>2. QED
      BY <2>1, <3>1
  <2>6. ~gone'
    BY <1>2
  <2>7. QED
    BY <2>2, <2>3, <2>4, <2>5, <2>6 DEF SlotsHold
<1>11. Cardinality(Resolver!Mounted') + Cardinality(reserved') <= MaxInstances
  <2>1. /\ IsFiniteSet(Resolver!Mounted) /\ Cardinality(Resolver!Mounted) \in Nat
        /\ IsFiniteSet(reserved) /\ Cardinality(reserved) \in Nat
    BY SlotsAreFinite
  <2>2. /\ IsFiniteSet(Resolver!Mounted \cup {i})
        /\ Cardinality(Resolver!Mounted \cup {i}) = Cardinality(Resolver!Mounted) + 1
    BY <1>9, <2>1, FS_AddElement
  <2>3. /\ Cardinality(Resolver!Mounted') <= Cardinality(Resolver!Mounted \cup {i})
        /\ Cardinality(Resolver!Mounted') \in Nat
    BY <1>9, <2>2, FS_Subset, FS_CardinalityType
  <2>4. Cardinality(reserved') = Cardinality(reserved) - 1
    BY <1>1, <1>2, <2>1, FS_RemoveElement
  <2>5. Cardinality(Resolver!Mounted) + Cardinality(reserved) <= MaxInstances
    BY DEF ResolverHolds
  <2> HIDE DEF i
  <2>6. QED
    BY <2>1, <2>2, <2>3, <2>4, <2>5
<1>12. Published(it.deployment, it.artifact)
  BY <1>1, <1>5 DEF ResolverHolds
<1>13. \A j \in Resolver!Mounted' : Published(mounted'[j].deployment, mounted'[j].artifact)
  <2>1. Resolver!Mounted' \subseteq Instance
    BY DEF Resolver!Mounted
  <2>2. \A j \in Resolver!Mounted' : j = i \/ (j \in Resolver!Mounted /\ mounted'[j] = mounted[j])
    BY <1>8, <1>9, <2>1
  <2>3. QED
    BY <1>1, <1>8, <1>12, <2>2 DEF ResolverHolds
<1>14. \A d \in Call : IsCall(calls'[d]) /\ (calls'[d].at \in {"publication", "requirement"} =>
         Published(calls'[d].deployment, calls'[d].artifact))
  BY <1>3, <1>4 DEF ResolverHolds
<1>15. \A d \in Resolver!InFlight' : calls'[d].instance \in Instance
  BY <1>1, <1>4 DEF ResolverHolds
<1>16. reserved' \subseteq Instance /\ gone' \in BOOLEAN
  BY <1>2 DEF ResolverHolds
<1>17. QED
  BY <1>4, <1>8, <1>10, <1>11, <1>13, <1>14, <1>15, <1>16 DEF ResolverHolds, Published

LEMMA RequirementDerivedKeeps ==
  ASSUME IsFiniteSet(Instance), MaxInstances \in Nat, ResolverHolds,
         NEW c \in Call, NEW r \in Requirement, Resolver!RequirementDerived(c, r)
  PROVE  ResolverHolds'
<1>1. c \in Resolver!InFlight /\ calls[c].at = "requirement"
  BY DEF Resolver!RequirementDerived, Resolver!InFlight
<1>2. CASE Resolver!Fail(c)
  BY <1>1, <1>2, FailKeeps
<1>3. CASE ~Resolver!Fail(c)
  <2>1. ~gone /\ Resolver!Mount(c)
    BY <1>3 DEF Resolver!RequirementDerived
  <2>2. QED
    BY <1>1, <2>1, ResolverMountKeeps
<1>4. QED
  BY <1>2, <1>3

LEMMA SlotReleaseKeeps ==
  ASSUME IsFiniteSet(Instance), MaxInstances \in Nat, ResolverHolds,
         NEW i \in Instance, Resolver!ReleaseInstance(i)
  PROVE  ResolverHolds'
<1>1. /\ mounted' = [mounted EXCEPT ![i] = NotThere] /\ ~gone
      /\ reserved' = reserved /\ calls' = calls /\ gone' = gone
  BY DEF Resolver!ReleaseInstance
<1>2. DOMAIN mounted = Instance
  BY DEF ResolverHolds
<1>3. /\ mounted' = [j \in Instance |-> mounted'[j]]
      /\ \A j \in Instance : mounted'[j] = IF j = i THEN NotThere ELSE mounted[j]
  BY <1>1, <1>2
<1>4. \A j \in Resolver!Mounted' : j \in Resolver!Mounted /\ mounted'[j] = mounted[j]
  BY <1>3 DEF Resolver!Mounted
<1>5. Resolver!InFlight' = Resolver!InFlight
  BY <1>1 DEF Resolver!InFlight
<1>6. SlotsHold'
  BY <1>1, <1>4, <1>5 DEF ResolverHolds, SlotsHold
<1>7. Cardinality(Resolver!Mounted') + Cardinality(reserved') <= MaxInstances
  <2>1. Cardinality(Resolver!Mounted') <= Cardinality(Resolver!Mounted)
        /\ Cardinality(Resolver!Mounted') \in Nat
    BY <1>4, SlotsAreFinite, FS_Subset, FS_CardinalityType
  <2>2. QED
    BY <1>1, <2>1, SlotsAreFinite DEF ResolverHolds
<1>8. \A j \in Resolver!Mounted' : Published(mounted'[j].deployment, mounted'[j].artifact)
  BY <1>4 DEF ResolverHolds
<1>9. QED
  BY <1>1, <1>3, <1>5, <1>6, <1>7, <1>8 DEF ResolverHolds, Published

LEMMA ResolverDisposeKeeps ==
  ASSUME MaxInstances \in Nat, ResolverHolds, Resolver!Dispose
  PROVE  ResolverHolds'
<1>1. /\ gone' = TRUE /\ mounted' = [i \in Instance |-> NotThere]
      /\ reserved' = {} /\ calls' = calls
  BY DEF Resolver!Dispose
<1>2. Resolver!Mounted' = {}
  BY <1>1 DEF Resolver!Mounted
<1>3. Resolver!InFlight' = Resolver!InFlight
  BY <1>1 DEF Resolver!InFlight
<1>4. SlotsHold'
  BY <1>1, <1>2 DEF SlotsHold
<1>5. Cardinality(Resolver!Mounted') + Cardinality(reserved') <= MaxInstances
  BY <1>1, <1>2, FS_EmptySet
<1>6. mounted' = [i \in Instance |-> mounted'[i]]
  BY <1>1
<1>7. QED
  BY <1>1, <1>2, <1>3, <1>4, <1>5, <1>6 DEF ResolverHolds, Published

\* The invariant holds of every run of a resolver whose registry holds valid packs.
THEOREM ResolverHoldsAlways ==
  ASSUME IsFiniteSet(Instance), MaxInstances \in Nat, RegistryIsValid
  PROVE  Resolver!Init /\ [][Resolver!Next]_Resolver!vars => []ResolverHolds
<1>1. Resolver!Init => ResolverHolds
  <2> SUFFICES ASSUME Resolver!Init PROVE ResolverHolds
    OBVIOUS
  <2>1. /\ mounted = [i \in Instance |-> NotThere] /\ reserved = {} /\ gone = FALSE
        /\ calls = [c \in Call |-> Resolver!Idle]
    BY DEF Resolver!Init
  <2>2. Resolver!Idle.at = "idle" /\ IsCall(Resolver!Idle)
    BY DEF Resolver!Idle, IsCall
  <2>3. \A c \in Call : calls[c] = Resolver!Idle
    BY <2>1
  <2>4. Resolver!Mounted = {} /\ Resolver!InFlight = {}
    BY <2>1, <2>2 DEF Resolver!Mounted, Resolver!InFlight
  <2>5. SlotsHold
    BY <2>1, <2>4 DEF SlotsHold
  <2>6. Cardinality(Resolver!Mounted) + Cardinality(reserved) <= MaxInstances
    BY <2>1, <2>4, FS_EmptySet
  <2>7. QED
    BY <2>1, <2>2, <2>3, <2>4, <2>5, <2>6 DEF ResolverHolds
<1>2. ResolverHolds /\ [Resolver!Next]_Resolver!vars => ResolverHolds'
  <2> SUFFICES ASSUME ResolverHolds, [Resolver!Next]_Resolver!vars PROVE ResolverHolds'
    OBVIOUS
  <2>1. CASE \E c \in Call, i \in Instance, d \in Deployment : Resolver!Request(c, i, d)
    BY <2>1, RequestKeeps
  <2>2. CASE \E c \in Call, t \in Target : Resolver!DeploymentResolved(c, t)
    BY <2>2, DeploymentResolvedKeeps
  <2>3. CASE \E c \in Call, isObject \in BOOLEAN : Resolver!PublicationResolved(c, isObject)
    BY <2>3, PublicationResolvedKeeps
  <2>4. CASE \E c \in Call, r \in Requirement : Resolver!RequirementDerived(c, r)
    BY <2>4, RequirementDerivedKeeps
  <2>5. CASE \E i \in Instance : Resolver!ReleaseInstance(i)
    BY <2>5, SlotReleaseKeeps
  <2>6. CASE Resolver!Dispose
    BY <2>6, ResolverDisposeKeeps
  <2>7. CASE UNCHANGED Resolver!vars
    <3>1. UNCHANGED <<mounted, reserved, calls, gone>>
      BY <2>7 DEF Resolver!vars
    <3>2. Resolver!InFlight' = Resolver!InFlight /\ Resolver!Mounted' = Resolver!Mounted
      BY <3>1 DEF Resolver!InFlight, Resolver!Mounted
    <3>3. SlotsHold'
      BY <3>1, <3>2 DEF ResolverHolds, SlotsHold
    <3>4. QED
      BY <3>1, <3>2, <3>3 DEF ResolverHolds, Published
  <2>8. QED
    BY <2>1, <2>2, <2>3, <2>4, <2>5, <2>6, <2>7 DEF Resolver!Next
<1>3. QED
  BY <1>1, <1>2, PTL

\* What is reserved is what the calls in flight will mount, and a resolver that was
\* disposed of while its functions were awaited ends empty, however many ask at once
\* and whatever the host's functions answer, and in whatever order.
THEOREM ReservationsStayCalls ==
  ASSUME IsFiniteSet(Instance), MaxInstances \in Nat, RegistryIsValid
  PROVE  Resolver!Init /\ [][Resolver!Next]_Resolver!vars => []Resolver!ReservationsAreCalls
<1>1. ResolverHolds => Resolver!ReservationsAreCalls
  <2> SUFFICES ASSUME ResolverHolds PROVE Resolver!ReservationsAreCalls
    OBVIOUS
  <2>1. ~gone => reserved = {calls[c].instance : c \in Resolver!InFlight}
    <3> SUFFICES ASSUME ~gone PROVE reserved = {calls[c].instance : c \in Resolver!InFlight}
      OBVIOUS
    <3>1. \A c \in Resolver!InFlight : calls[c].instance \in reserved
      BY DEF ResolverHolds, SlotsHold
    <3>2. \A j \in reserved : \E c \in Resolver!InFlight : calls[c].instance = j
      BY DEF ResolverHolds, SlotsHold
    <3>3. QED
      BY <3>1, <3>2
  <2>2. Resolver!Cardinality(Resolver!Mounted) + Resolver!Cardinality(reserved) <= MaxInstances
    BY CountsAreCounts DEF ResolverHolds
  <2>3. QED
    BY <2>1, <2>2 DEF ResolverHolds, SlotsHold, Resolver!ReservationsAreCalls
<1>2. QED
  BY <1>1, ResolverHoldsAlways, PTL

\* What is mounted is an entrypoint that a registered pack publishes and of the
\* deployment that was asked for, though each of the three answers came later.
THEOREM MountedStaysPublished ==
  ASSUME IsFiniteSet(Instance), MaxInstances \in Nat, RegistryIsValid
  PROVE  Resolver!Init /\ [][Resolver!Next]_Resolver!vars => []Resolver!MountedIsPublished
<1>1. ResolverHolds => Resolver!MountedIsPublished
  BY DEF ResolverHolds, Published, Resolver!MountedIsPublished
<1>2. QED
  BY <1>1, ResolverHoldsAlways, PTL

-----------------------------------------------------------------------------
(* The runtime core.                                                           *)

IsState(s) ==
  s.revision \in Nat /\ s = [revision |-> s.revision, lifecycle |-> s.lifecycle, plan |-> s.plan]

ReducesTo(s, action, r) == IsState(s) /\ r = Web!Reduce(s, action, Rules) /\ r.ok

\* What is reduced keeps the state, or is one revision further and has no effect.
LEMMA ReduceFacts ==
  ASSUME NEW s, NEW action, NEW r, ReducesTo(s, action, r)
  PROVE  /\ IsState(r.state)
         /\ r.state = s \/ r.state.revision = s.revision + 1
         /\ r.state # s => r = [ok |-> TRUE, state |-> r.state, effect |-> "none"]
<1> DEFINE further(t) == IsState(t) /\ (t = s \/ t.revision = s.revision + 1)
<1>1. IsState(s) /\ r = Web!Reduce(s, action, Rules) /\ r.ok
  BY DEF ReducesTo
<1>2. ~Web!Refused.ok
  BY DEF Web!Refused
<1>3. \A p : Web!ApplyPatch(s, p).ok => further(Web!ApplyPatch(s, p).state)
  <2> TAKE p
  <2> HAVE Web!ApplyPatch(s, p).ok
  <2>1. CASE Web!ApplyPatch(s, p) = Web!Done(s)
    BY <1>1, <2>1 DEF Web!Done
  <2>2. CASE Web!ApplyPatch(s, p) # Web!Done(s)
    <3>1. PICK plan : Web!ApplyPatch(s, p) = Web!Done([s EXCEPT !.revision = s.revision + 1,
            !.plan = plan])
      BY <1>2, <2>2 DEF Web!ApplyPatch
    <3> DEFINE one == [revision |-> s.revision + 1, lifecycle |-> s.lifecycle, plan |-> s.plan]
               two == [revision |-> s.revision + 1, lifecycle |-> s.lifecycle, plan |-> plan]
    <3>2. [s EXCEPT !.revision = s.revision + 1] = one
      BY <1>1 DEF IsState
    <3>3. [one EXCEPT !.plan = plan] = two
      OBVIOUS
    <3>4. two.revision = s.revision + 1 /\ IsState(two)
      BY <1>1 DEF IsState
    <3> HIDE DEF one, two
    <3>5. [s EXCEPT !.revision = s.revision + 1, !.plan = plan] = two
      BY <3>2, <3>3
    <3>6. Web!ApplyPatch(s, p) = Web!Done(two)
      BY <3>1, <3>5
    <3>7. QED
      BY <3>4, <3>6 DEF Web!Done
  <2>3. QED
    BY <2>1, <2>2
<1>4. \A to : Web!Transition(s, to).ok => further(Web!Transition(s, to).state)
  <2> TAKE to
  <2> HAVE Web!Transition(s, to).ok
  <2>1. Web!Transition(s, to) = Web!Done([s EXCEPT !.revision = s.revision + 1, !.lifecycle = to])
    BY <1>2 DEF Web!Transition
  <2> DEFINE one == [revision |-> s.revision + 1, lifecycle |-> s.lifecycle, plan |-> s.plan]
             two == [revision |-> s.revision + 1, lifecycle |-> to, plan |-> s.plan]
  <2>2. [s EXCEPT !.revision = s.revision + 1] = one
    BY <1>1 DEF IsState
  <2>3. [one EXCEPT !.lifecycle = to] = two
    OBVIOUS
  <2>4. two.revision = s.revision + 1 /\ IsState(two)
    BY <1>1 DEF IsState
  <2> HIDE DEF one, two
  <2>5. [s EXCEPT !.revision = s.revision + 1, !.lifecycle = to] = two
    BY <2>2, <2>3
  <2>6. Web!Transition(s, to) = Web!Done(two)
    BY <2>1, <2>5
  <2>7. QED
    BY <2>4, <2>6 DEF Web!Done
<1>5. further(s)
  BY <1>1
<1> HIDE DEF further
<1>6. \/ \E p : Web!ApplyPatch(s, p).ok
             /\ r = [ok |-> TRUE, state |-> Web!ApplyPatch(s, p).state, effect |-> "none"]
      \/ \E to : Web!Transition(s, to).ok
             /\ r = [ok |-> TRUE, state |-> Web!Transition(s, to).state, effect |-> "none"]
      \/ \E effect : r = [ok |-> TRUE, state |-> s, effect |-> effect]
  BY <1>2, <1>1 DEF Web!Reduce
<1>7. /\ further(r.state)
      /\ r.state # s => r = [ok |-> TRUE, state |-> r.state, effect |-> "none"]
  BY <1>3, <1>4, <1>5, <1>6
<1>8. QED
  BY <1>7 DEF further

-----------------------------------------------------------------------------
(* An instance of the web SDK.                                                 *)

IsSession(row) ==
  /\ row = [state |-> row.state, disposed |-> row.disposed]
  /\ IsState(row.state) /\ row.disposed \in BOOLEAN

Reducible == Action \cup {[type |-> "runtime.patch.apply", patch |-> p] : p \in Patch}

\* A call that will reduce: what it saw is what is, or older.
Reduces(frame, all) ==
  /\ frame.session \in DOMAIN all /\ frame.action \in Reducible
  /\ frame.kind = "process" =>
       /\ IsState(frame.seen) /\ frame.seen.revision <= all[frame.session].state.revision
       /\ frame.seen.revision = all[frame.session].state.revision =>
            frame.seen = all[frame.session].state

\* A change that will be told: it is told last, and is newer than what was told.
Tells(frame, all, told) ==
  /\ IsSequence(frame.left)
  /\ \A k \in DOMAIN frame.left : frame.left[k].event = "statechange" =>
       /\ k = Len(frame.left) /\ frame.left[k].session \in DOMAIN all
       /\ frame.left[k].revision \in Nat
       /\ frame.left[k].revision <= all[frame.left[k].session].state.revision
       /\ \A h \in DOMAIN told :
            (told[h].event = "statechange" /\ told[h].session = frame.left[k].session) =>
              told[h].revision < frame.left[k].revision

WasSo(all, told) ==
  \A h \in DOMAIN told : told[h].event = "statechange" =>
    /\ told[h].session \in DOMAIN all /\ told[h].revision \in Nat
    /\ told[h].revision <= all[told[h].session].state.revision

\* An experience that the DOM port mounts: it is not on the screen yet, and it is the
\* only one unless the port itself called mount or dispose.
Mounts(n) ==
  /\ stack[n].session \in DOMAIN sessions /\ ~sessions[stack[n].session].disposed
  /\ stack[n].session \notin screen
  /\ ~portCalled => active = 0 /\ ~webEnded
  /\ \A m \in DOMAIN stack :
       (m # n /\ stack[m].kind = "mount") => portCalled /\ stack[m].session # stack[n].session

\* The calls that are not finished.  While listeners are told nothing is reduced.
FrameHolds(n) ==
  \/ stack[n].kind = "mount" /\ Mounts(n)
  \/ /\ stack[n].kind = "release" /\ stack[n].session \in DOMAIN sessions
     /\ sessions[stack[n].session].disposed
  \/ stack[n].kind \in {"process", "patch"} /\ Reduces(stack[n], sessions)
  \/ /\ stack[n].kind = "notify" /\ notifying /\ Tells(stack[n], sessions, heard)
     /\ \A m \in DOMAIN stack : m > n => stack[m].kind \in {"mount", "release"}

\* The inductive invariant.
WebHolds ==
  /\ IsSequence(sessions) /\ \A n \in DOMAIN sessions : IsSession(sessions[n])
  /\ active \in {0} \cup DOMAIN sessions /\ screen \subseteq DOMAIN sessions
  /\ Web!ScreenIsActive
  /\ IsSequence(stack) /\ \A n \in DOMAIN stack : FrameHolds(n)
  /\ IsSequence(heard) /\ WasSo(sessions, heard) /\ Web!ChangesAreHeardInOrder

\* Sessions are added, and the state of one is followed by the next.
Grows(all, next) ==
  /\ DOMAIN all \subseteq DOMAIN next
  /\ \A n \in DOMAIN all :
       \/ next[n].state = all[n].state
       \/ next[n].state.revision = all[n].state.revision + 1

LEMMA GrowthKeeps ==
  ASSUME NEW all, \A n \in DOMAIN all : IsSession(all[n]), NEW next, Grows(all, next)
  PROVE  /\ \A frame : Reduces(frame, all) => Reduces(frame, next)
         /\ \A frame, told : Tells(frame, all, told) => Tells(frame, next, told)
         /\ \A told : WasSo(all, told) => WasSo(next, told)
<1>1. \A n \in DOMAIN all :
        /\ n \in DOMAIN next /\ all[n].state.revision \in Nat /\ next[n].state.revision \in Nat
        /\ all[n].state.revision <= next[n].state.revision
        /\ all[n].state.revision = next[n].state.revision => all[n].state = next[n].state
  <2> TAKE n \in DOMAIN all
  <2>1. n \in DOMAIN next /\ all[n].state.revision \in Nat
    BY DEF Grows, IsSession, IsState
  <2>2. CASE next[n].state = all[n].state
    BY <2>1, <2>2
  <2>3. CASE next[n].state.revision = all[n].state.revision + 1
    BY <2>1, <2>3
  <2>4. QED
    BY <2>2, <2>3 DEF Grows
<1>2. \A frame : Reduces(frame, all) => Reduces(frame, next)
  <2> TAKE frame
  <2> HAVE Reduces(frame, all)
  <2>1. frame.session \in DOMAIN all /\ frame.session \in DOMAIN next
    BY <1>1 DEF Reduces
  <2>2. CASE frame.kind = "process"
    <3>1. /\ IsState(frame.seen) /\ frame.seen.revision \in Nat
          /\ frame.seen.revision <= all[frame.session].state.revision
          /\ frame.seen.revision = all[frame.session].state.revision =>
               frame.seen = all[frame.session].state
      BY <2>2 DEF Reduces, IsState
    <3>2. /\ all[frame.session].state.revision \in Nat /\ next[frame.session].state.revision \in Nat
          /\ all[frame.session].state.revision <= next[frame.session].state.revision
          /\ all[frame.session].state.revision = next[frame.session].state.revision =>
               all[frame.session].state = next[frame.session].state
      BY <1>1, <2>1
    <3>3. frame.seen.revision <= next[frame.session].state.revision
      BY <3>1, <3>2
    <3>4. frame.seen.revision = next[frame.session].state.revision =>
            frame.seen.revision = all[frame.session].state.revision
      BY <3>1, <3>2
    <3>5. frame.seen.revision = next[frame.session].state.revision =>
            frame.seen = next[frame.session].state
      BY <3>1, <3>2, <3>4
    <3>6. QED
      BY <2>1, <3>1, <3>3, <3>5 DEF Reduces
  <2>3. CASE frame.kind # "process"
    BY <2>1, <2>3 DEF Reduces
  <2>4. QED
    BY <2>2, <2>3
<1>3. \A frame, told : Tells(frame, all, told) => Tells(frame, next, told)
  <2> TAKE frame, told
  <2> HAVE Tells(frame, all, told)
  <2> SUFFICES ASSUME NEW k \in DOMAIN frame.left, frame.left[k].event = "statechange"
               PROVE  /\ frame.left[k].session \in DOMAIN next
                      /\ frame.left[k].revision <= next[frame.left[k].session].state.revision
    BY DEF Tells
  <2>1. /\ frame.left[k].session \in DOMAIN all /\ frame.left[k].revision \in Nat
        /\ frame.left[k].revision <= all[frame.left[k].session].state.revision
    BY DEF Tells
  <2>2. QED
    BY <1>1, <2>1
<1>4. \A told : WasSo(all, told) => WasSo(next, told)
  <2> TAKE told
  <2> HAVE WasSo(all, told)
  <2> SUFFICES ASSUME NEW h \in DOMAIN told, told[h].event = "statechange"
               PROVE  /\ told[h].session \in DOMAIN next
                      /\ told[h].revision <= next[told[h].session].state.revision
    BY DEF WasSo
  <2>1. /\ told[h].session \in DOMAIN all /\ told[h].revision \in Nat
        /\ told[h].revision <= all[told[h].session].state.revision
    BY DEF WasSo
  <2>2. QED
    BY <1>1, <2>1
<1>5. QED
  BY <1>2, <1>3, <1>4

\* Only one call tells, and what it called is not finished: a mount or a release.
LEMMA NothingTells ==
  ASSUME WebHolds, ~notifying
  PROVE  \A n \in DOMAIN stack : stack[n].kind # "notify"
BY DEF WebHolds, FrameHolds

LEMMA NothingTellsBelow ==
  ASSUME WebHolds, stack # <<>>, Web!Last(stack).kind \notin {"mount", "release"}
  PROVE  \A n \in 1..(Len(stack) - 1) :
           /\ n \in DOMAIN stack /\ stack[n].kind # "notify"
<1>1. IsSequence(stack)
  BY DEF WebHolds
<1>2. /\ Len(stack) \in Nat \ {0} /\ DOMAIN stack = 1..Len(stack)
      /\ stack[Len(stack)].kind \notin {"mount", "release"}
  BY <1>1, Shortened
<1> TAKE n \in 1..(Len(stack) - 1)
<1>3. n \in DOMAIN stack /\ Len(stack) \in DOMAIN stack /\ Len(stack) > n /\ n # Len(stack)
  <2>1. PICK l \in Nat \ {0} : l = Len(stack)
    BY <1>2
  <2>2. n \in 1..l /\ l \in 1..l /\ l > n /\ n # l
    BY <2>1
  <2>3. QED
    BY <1>2, <2>1, <2>2
<1>4. FrameHolds(n)
  BY <1>3 DEF WebHolds
<1>5. QED
  BY <1>2, <1>3, <1>4 DEF FrameHolds

\* A call is as it was when a step leaves the experiences on their places, adds no
\* mount, and takes the sessions on.
LEMMA CallStays ==
  ASSUME WebHolds, NEW n \in DOMAIN stack, stack[n].kind # "notify",
         n \in DOMAIN stack', stack'[n] = stack[n],
         UNCHANGED <<active, screen, webEnded, portCalled>>,
         DOMAIN sessions' = DOMAIN sessions, Grows(sessions, sessions'),
         \A s \in DOMAIN sessions : sessions'[s].disposed = sessions[s].disposed,
         \A m \in DOMAIN stack' : stack'[m].kind = "mount" =>
           m \in DOMAIN stack /\ stack'[m] = stack[m]
  PROVE  FrameHolds(n)'
<1>1. FrameHolds(n)
  BY DEF WebHolds
<1>2. CASE stack[n].kind = "mount"
  <2>1. Mounts(n)
    BY <1>1, <1>2 DEF FrameHolds
  <2>2. \A m \in DOMAIN stack' : (m # n /\ stack'[m].kind = "mount") =>
          portCalled /\ stack'[m].session # stack[n].session
    BY <2>1 DEF Mounts
  <2>3. Mounts(n)'
    BY <2>1, <2>2 DEF Mounts
  <2>4. QED
    BY <1>2, <2>3 DEF FrameHolds
<1>3. CASE stack[n].kind = "release"
  BY <1>1, <1>3 DEF FrameHolds
<1>4. CASE stack[n].kind \in {"process", "patch"}
  <2>1. Reduces(stack[n], sessions)
    BY <1>1, <1>4 DEF FrameHolds
  <2>2. \A f : Reduces(f, sessions) => Reduces(f, sessions')
    BY GrowthKeeps DEF WebHolds
  <2>3. Reduces(stack[n], sessions')
    BY <2>1, <2>2
  <2>4. QED
    BY <1>4, <2>3 DEF FrameHolds
<1>5. QED
  BY <1>1, <1>2, <1>3, <1>4 DEF FrameHolds

\* As long as the port called nothing, the screen stays right when no release ends.
LEMMA ScreenStays ==
  ASSUME WebHolds, UNCHANGED <<active, screen, webEnded, portCalled>>,
         \A s \in DOMAIN sessions : sessions'[s].disposed = sessions[s].disposed,
         \A n \in DOMAIN stack : stack[n].kind = "release" =>
           n \in DOMAIN stack' /\ stack'[n] = stack[n]
  PROVE  Web!ScreenIsActive'
BY DEF WebHolds, Web!ScreenIsActive

\* What is called while the listeners are not.
LEMMA CallKeeps ==
  ASSUME WebHolds, Web!HostHasControl, ~notifying, NEW frame,
         stack' = Append(stack, frame),
         UNCHANGED <<sessions, active, screen, webEnded, heard, portCalled>>,
         \/ frame.kind \in {"process", "patch"} /\ Reduces(frame, sessions)
         \/ frame.kind = "notify" /\ notifying' /\ Tells(frame, sessions, heard)
  PROVE  WebHolds'
<1>1. IsSequence(stack)
  BY DEF WebHolds
<1>2. /\ IsSequence(stack') /\ DOMAIN stack = 1..Len(stack) /\ Len(stack) \in Nat
      /\ DOMAIN stack' = 1..(Len(stack) + 1) /\ Len(stack') = Len(stack) + 1
      /\ \A n \in 1..Len(stack) : stack'[n] = stack[n]
      /\ stack'[Len(stack) + 1] = frame
  BY <1>1, Appended
<1>3. /\ \A n \in DOMAIN stack : n \in DOMAIN stack' /\ stack'[n] = stack[n] /\ stack[n].kind # "notify"
      /\ \A n \in DOMAIN stack' : n \in DOMAIN stack \/ n = Len(stack) + 1
      /\ frame.kind # "mount"
  BY <1>2, NothingTells
<1>4. \A n \in DOMAIN stack' : FrameHolds(n)'
  <2> TAKE n \in DOMAIN stack'
  <2>1. CASE n \in DOMAIN stack
    <3>1. Grows(sessions, sessions')
      BY DEF Grows
    <3>2. \A m \in DOMAIN stack' : stack'[m].kind = "mount" => m \in DOMAIN stack /\ stack'[m] = stack[m]
      BY <1>2, <1>3
    <3>3. QED
      BY <1>3, <2>1, <3>1, <3>2, CallStays
  <2>2. CASE n = Len(stack) + 1
    <3>1. stack'[n] = frame
      BY <1>2, <2>2
    <3>2. \A m \in DOMAIN stack' : ~(m > n)
      BY <1>2, <2>2
    <3>3. QED
      BY <3>1, <3>2 DEF FrameHolds
  <2>3. QED
    BY <1>3, <2>1, <2>2
<1>5. Web!ScreenIsActive'
  BY <1>3, ScreenStays
<1>6. Web!ChangesAreHeardInOrder'
  BY DEF WebHolds, Web!ChangesAreHeardInOrder
<1>7. QED
  BY <1>2, <1>4, <1>5, <1>6 DEF WebHolds

LEMMA DispatchKeeps ==
  ASSUME WebHolds, NEW action \in Action, Web!Dispatch(action)
  PROVE  WebHolds'
<1> DEFINE frame == [kind |-> "process", session |-> active, action |-> action,
                     seen |-> sessions[active].state]
<1>1. /\ Web!HostHasControl /\ ~notifying /\ active # 0 /\ stack' = Append(stack, frame)
      /\ UNCHANGED <<sessions, active, screen, webEnded, heard, portCalled>>
  BY DEF Web!Dispatch, Web!Push
<1>2. /\ frame.kind = "process" /\ frame.session = active /\ frame.seen = sessions[active].state
      /\ frame.action \in Reducible
  BY DEF Reducible
<1> HIDE DEF frame
<1>3. active \in DOMAIN sessions /\ IsState(sessions[active].state)
  BY <1>1 DEF WebHolds, IsSession
<1>4. Reduces(frame, sessions)
  <2>1. sessions[active].state.revision \in Nat
    BY <1>3 DEF IsState
  <2>2. sessions[active].state.revision <= sessions[active].state.revision
    BY <2>1
  <2>3. QED
    BY <1>2, <1>3, <2>2 DEF Reduces
<1>5. QED
  BY <1>1, <1>2, <1>4, CallKeeps

LEMMA HostPatchKeeps ==
  ASSUME WebHolds, NEW patch \in Patch, Web!HostPatch(patch)
  PROVE  WebHolds'
<1> DEFINE frame == [kind |-> "patch", session |-> active,
                     action |-> [type |-> "runtime.patch.apply", patch |-> patch]]
<1>1. /\ Web!HostHasControl /\ ~notifying /\ active # 0 /\ stack' = Append(stack, frame)
      /\ UNCHANGED <<sessions, active, screen, webEnded, heard, portCalled>>
  BY DEF Web!HostPatch, Web!Push
<1>2. frame.kind = "patch" /\ frame.session = active /\ frame.action \in Reducible
  BY DEF Reducible
<1> HIDE DEF frame
<1>3. active \in DOMAIN sessions
  BY <1>1 DEF WebHolds
<1>4. Reduces(frame, sessions)
  BY <1>2, <1>3 DEF Reduces
<1>5. QED
  BY <1>1, <1>2, <1>4, CallKeeps

\* What has no change to tell may be told at any time.
LEMMA OneNotice ==
  ASSUME NEW session, NEW event, event # "statechange", NEW revision, NEW all, NEW told,
         NEW frame, frame.left = <<Web!Notice(session, event, revision)>>
  PROVE  Tells(frame, all, told)
<1>1. Web!Notice(session, event, revision).event # "statechange"
  BY DEF Web!Notice
<1> DEFINE x == Web!Notice(session, event, revision)
<1> HIDE DEF x
<1>2. <<x>> \in Seq({x}) /\ DOMAIN <<x>> = {1} /\ <<x>>[1] = x
  OBVIOUS
<1>3. frame.left = <<x>> /\ x.event # "statechange"
  BY <1>1 DEF x
<1>4. QED
  BY <1>2, <1>3 DEF Tells, IsSequence

LEMMA NotMountedKeeps ==
  ASSUME WebHolds, Web!NotMounted
  PROVE  WebHolds'
<1> DEFINE frame == [kind |-> "notify", left |-> <<Web!Notice(0, "error", 0)>>]
<1>1. /\ Web!HostHasControl /\ ~notifying /\ notifying' = TRUE /\ stack' = Append(stack, frame)
      /\ UNCHANGED <<sessions, active, screen, webEnded, heard, portCalled>>
  BY DEF Web!NotMounted, Web!Push
<1>2. frame.kind = "notify" /\ frame.left = <<Web!Notice(0, "error", 0)>>
  OBVIOUS
<1> HIDE DEF frame
<1>3. Tells(frame, sessions, heard)
  BY <1>2, OneNotice
<1>4. QED
  BY <1>1, <1>2, <1>3, CallKeeps

LEMMA MountKeeps ==
  ASSUME WebHolds, Web!Mount
  PROVE  WebHolds'
<1> DEFINE frame == [kind |-> "mount", session |-> Len(sessions) + 1]
           row == [state |-> Web!NewState(FirstPlan), disposed |-> FALSE]
<1>1. /\ Web!HostHasControl /\ ~webEnded /\ active = 0
      /\ sessions' = Append(sessions, row) /\ stack' = Append(stack, frame)
      /\ portCalled' = (portCalled \/ Web!Mounting)
      /\ UNCHANGED <<active, screen, notifying, webEnded, heard>>
  BY DEF Web!Mount, Web!Push
<1>2. frame.kind = "mount" /\ frame.session = Len(sessions) + 1
  OBVIOUS
<1>3. row.disposed = FALSE /\ IsSession(row)
  BY DEF IsSession, IsState, Web!NewState
<1> HIDE DEF frame, row
<1>4. /\ IsSequence(stack') /\ DOMAIN stack = 1..Len(stack) /\ Len(stack) \in Nat
      /\ DOMAIN stack' = 1..(Len(stack) + 1) /\ Len(stack') = Len(stack) + 1
      /\ \A n \in 1..Len(stack) : stack'[n] = stack[n]
      /\ stack'[Len(stack) + 1] = frame
  BY <1>1, Appended DEF WebHolds
<1>5. /\ IsSequence(sessions') /\ DOMAIN sessions = 1..Len(sessions) /\ Len(sessions) \in Nat
      /\ DOMAIN sessions' = 1..(Len(sessions) + 1)
      /\ \A n \in 1..Len(sessions) : sessions'[n] = sessions[n]
      /\ sessions'[Len(sessions) + 1] = row
  BY <1>1, Appended DEF WebHolds
<1>6. Grows(sessions, sessions')
  BY <1>5 DEF Grows
<1>7. /\ \A f : Reduces(f, sessions) => Reduces(f, sessions')
      /\ \A f : Tells(f, sessions, heard) => Tells(f, sessions', heard)
      /\ WasSo(sessions', heard)
  BY <1>6, GrowthKeeps DEF WebHolds
<1>8. \A n \in DOMAIN sessions' : IsSession(sessions'[n])
  <2> TAKE n \in DOMAIN sessions'
  <2>1. n \in 1..Len(sessions) \/ n = Len(sessions) + 1
    BY <1>5
  <2>2. QED
    BY <1>3, <1>5, <2>1 DEF WebHolds
<1>9. /\ \A n \in DOMAIN stack : n \in DOMAIN stack' /\ stack'[n] = stack[n]
      /\ \A n \in DOMAIN stack' : n \in DOMAIN stack \/ n = Len(stack) + 1
      /\ \A n \in DOMAIN sessions : n \in DOMAIN sessions' /\ sessions'[n] = sessions[n]
      /\ Len(sessions) + 1 \in DOMAIN sessions' /\ Len(sessions) + 1 \notin DOMAIN sessions
      /\ Len(stack) + 1 \notin DOMAIN stack
  BY <1>4, <1>5
<1>10. /\ ~portCalled' => ~portCalled /\ \A n \in DOMAIN stack : stack[n].kind # "mount"
       /\ portCalled => portCalled'
  BY <1>1 DEF Web!Mounting
<1>13. \A n \in DOMAIN stack' : FrameHolds(n)'
  <2> TAKE n \in DOMAIN stack'
  <2>1. CASE n \in DOMAIN stack
    <3>1. stack'[n] = stack[n] /\ FrameHolds(n)
      BY <1>9, <2>1 DEF WebHolds
    <3>2. CASE stack[n].kind \in {"process", "patch"}
      <4>1. Reduces(stack[n], sessions')
        BY <1>7, <3>1, <3>2 DEF FrameHolds
      <4>2. QED
        BY <3>1, <3>2, <4>1 DEF FrameHolds
    <3>3. CASE stack[n].kind = "notify"
      <4>1. /\ notifying /\ Tells(stack[n], sessions', heard)
            /\ \A m \in DOMAIN stack : m > n => stack[m].kind \in {"mount", "release"}
        BY <1>7, <3>1, <3>3 DEF FrameHolds
      <4>2. \A m \in DOMAIN stack' : m > n => stack'[m].kind \in {"mount", "release"}
        BY <1>2, <1>4, <1>9, <4>1
      <4>3. QED
        BY <1>1, <3>1, <3>3, <4>1, <4>2 DEF FrameHolds
    <3>4. CASE stack[n].kind = "release"
      BY <1>9, <3>1, <3>4 DEF FrameHolds
    <3>5. CASE stack[n].kind = "mount"
      <4>1. Mounts(n)
        BY <3>1, <3>5 DEF FrameHolds
      <4>2. portCalled'
        BY <1>10, <2>1, <3>5
      <4>3. \A m \in DOMAIN stack' : (m # n /\ stack'[m].kind = "mount") =>
              stack'[m].session # stack[n].session
        <5> TAKE m \in DOMAIN stack'
        <5>1. CASE m \in DOMAIN stack
          BY <1>9, <4>1, <5>1 DEF Mounts
        <5>2. CASE m = Len(stack) + 1
          BY <1>2, <1>4, <1>9, <4>1, <5>2 DEF Mounts
        <5>3. QED
          BY <1>9, <5>1, <5>2
      <4>4. Mounts(n)'
        BY <1>1, <1>9, <3>1, <4>1, <4>2, <4>3 DEF Mounts
      <4>5. QED
        BY <3>1, <3>5, <4>4 DEF FrameHolds
    <3>6. QED
      BY <3>1, <3>2, <3>3, <3>4, <3>5 DEF FrameHolds
  <2>2. CASE n = Len(stack) + 1
    <3>1. stack'[n] = frame
      BY <1>4, <2>2
    <3>2. \A m \in DOMAIN stack' : (m # n /\ stack'[m].kind = "mount") =>
            portCalled' /\ stack'[m].session # frame.session
      <4> SUFFICES ASSUME NEW m \in DOMAIN stack', m # n, stack'[m].kind = "mount"
                   PROVE  portCalled' /\ stack'[m].session # frame.session
        OBVIOUS
      <4>1. m \in DOMAIN stack /\ stack[m].kind = "mount" /\ stack'[m] = stack[m]
        BY <1>9, <2>2
      <4>2. stack[m].session \in DOMAIN sessions
        BY <4>1 DEF WebHolds, FrameHolds, Mounts
      <4>3. QED
        BY <1>2, <1>9, <1>10, <4>1, <4>2
    <3>3. frame.session \notin screen
      BY <1>2, <1>9 DEF WebHolds
    <3>4. Mounts(n)'
      BY <1>1, <1>2, <1>3, <1>5, <1>9, <3>1, <3>2, <3>3 DEF Mounts
    <3>5. QED
      BY <1>2, <3>1, <3>4 DEF FrameHolds
  <2>3. QED
    BY <1>9, <2>1, <2>2
<1>14. Web!ScreenIsActive'
  BY <1>1, <1>9, <1>10 DEF WebHolds, Web!ScreenIsActive
<1>15. Web!ChangesAreHeardInOrder' /\ screen' \subseteq DOMAIN sessions'
  BY <1>1, <1>9 DEF WebHolds, Web!ChangesAreHeardInOrder
<1>11. IsSequence(heard') /\ WasSo(sessions', heard') /\ active' \in {0} \cup DOMAIN sessions'
  BY <1>1, <1>7 DEF WebHolds
<1>12. QED
  BY <1>4, <1>5, <1>8, <1>11, <1>13, <1>14, <1>15 DEF WebHolds

\* A sequence with one element replaced.
LEMMA Replaced ==
  ASSUME NEW s, IsSequence(s), NEW n \in DOMAIN s, NEW row
  PROVE  LET t == [s EXCEPT ![n] = row] IN
         /\ IsSequence(t) /\ DOMAIN t = DOMAIN s
         /\ \A m \in DOMAIN s : t[m] = IF m = n THEN row ELSE s[m]
<1>1. PICK S : s \in Seq(S)
  BY DEF IsSequence
<1>2. s \in Seq(S \cup {row}) /\ row \in S \cup {row}
  BY <1>1
<1>3. [s EXCEPT ![n] = row] \in Seq(S \cup {row})
  BY <1>2
<1>4. QED
  BY <1>3 DEF IsSequence

\* A session is closed and keeps its state.
LEMMA Closed ==
  ASSUME WebHolds, NEW n \in DOMAIN sessions, NEW next,
         next = [sessions EXCEPT ![n].disposed = TRUE]
  PROVE  /\ IsSequence(next) /\ DOMAIN next = DOMAIN sessions /\ Grows(sessions, next)
         /\ \A m \in DOMAIN sessions :
              /\ IsSession(next[m]) /\ next[m].state = sessions[m].state
              /\ next[m].disposed = IF m = n THEN TRUE ELSE sessions[m].disposed
<1> DEFINE row == [state |-> sessions[n].state, disposed |-> TRUE]
<1>1. IsSession(sessions[n]) /\ IsSequence(sessions)
  BY DEF WebHolds
<1>2. [sessions[n] EXCEPT !.disposed = TRUE] = row
  <2>1. PICK st, d : st = sessions[n].state /\ sessions[n] = [state |-> st, disposed |-> d]
    BY <1>1 DEF IsSession
  <2>2. \A yes : [[state |-> st, disposed |-> d] EXCEPT !.disposed = yes]
                   = [state |-> st, disposed |-> yes]
    OBVIOUS
  <2>3. [[state |-> st, disposed |-> d] EXCEPT !.disposed = TRUE] = [state |-> st, disposed |-> TRUE]
    BY <2>2, Zenon
  <2>4. QED
    BY <2>1, <2>3, Zenon
<1>3. next = [sessions EXCEPT ![n] = row]
  BY <1>2
<1>4. row.state = sessions[n].state /\ IsSession(row) /\ row.disposed = TRUE
  BY <1>1 DEF IsSession
<1> HIDE DEF row
<1>5. /\ IsSequence(next) /\ DOMAIN next = DOMAIN sessions
      /\ \A m \in DOMAIN sessions : next[m] = IF m = n THEN row ELSE sessions[m]
  <2>1. LET t == [sessions EXCEPT ![n] = row] IN
        /\ IsSequence(t) /\ DOMAIN t = DOMAIN sessions
        /\ \A m \in DOMAIN sessions : t[m] = IF m = n THEN row ELSE sessions[m]
    BY <1>1, Replaced, Zenon
  <2>2. QED
    BY <1>3, <2>1, Zenon
<1>6. \A m \in DOMAIN sessions :
        /\ IsSession(next[m]) /\ next[m].state = sessions[m].state
        /\ next[m].disposed = IF m = n THEN TRUE ELSE sessions[m].disposed
  BY <1>4, <1>5 DEF WebHolds
<1>7. QED
  BY <1>5, <1>6 DEF Grows

GoesOn(n, t, next) ==
  /\ n \in DOMAIN sessions /\ IsState(t)
  /\ t = sessions[n].state \/ t.revision = sessions[n].state.revision + 1
  /\ next = [sessions EXCEPT ![n].state = t]

\* A session goes on to the next state.
LEMMA Advanced ==
  ASSUME WebHolds, NEW n, NEW t, NEW next, GoesOn(n, t, next)
  PROVE  /\ IsSequence(next) /\ DOMAIN next = DOMAIN sessions /\ Grows(sessions, next)
         /\ \A m \in DOMAIN sessions :
              /\ IsSession(next[m]) /\ next[m].disposed = sessions[m].disposed
              /\ next[m].state = IF m = n THEN t ELSE sessions[m].state
<1> DEFINE row == [state |-> t, disposed |-> sessions[n].disposed]
<1>1. IsSession(sessions[n]) /\ IsSequence(sessions)
  BY DEF WebHolds, GoesOn
<1>2. [sessions[n] EXCEPT !.state = t] = row
  BY <1>1 DEF IsSession
<1>3. next = [sessions EXCEPT ![n] = row] /\ n \in DOMAIN sessions
  BY <1>2 DEF GoesOn
<1>4. row.state = t /\ row.disposed = sessions[n].disposed /\ IsSession(row)
  BY <1>1 DEF IsSession, GoesOn
<1> HIDE DEF row
<1>5. /\ IsSequence(next) /\ DOMAIN next = DOMAIN sessions
      /\ \A m \in DOMAIN sessions : next[m] = IF m = n THEN row ELSE sessions[m]
  BY <1>1, <1>3, Replaced
<1>6. \A m \in DOMAIN sessions :
        /\ IsSession(next[m]) /\ next[m].disposed = sessions[m].disposed
        /\ next[m].state = IF m = n THEN t ELSE sessions[m].state
  BY <1>4, <1>5 DEF WebHolds
<1>7. QED
  BY <1>5, <1>6 DEF Grows, GoesOn

\* The port has answered, whatever it called in between.
LEMMA MountedKeeps ==
  ASSUME WebHolds, Web!Mounted
  PROVE  WebHolds'
<1> DEFINE x == Web!Last(stack).session
<1>1. /\ stack # <<>> /\ Web!Last(stack).kind = "mount" /\ stack' = Web!Front(stack)
      /\ UNCHANGED <<notifying, webEnded, heard, portCalled>>
      /\ \/ screen' = screen \cup {x} /\ active' = x /\ sessions' = sessions
         \/ /\ sessions' = [sessions EXCEPT ![x].disposed = TRUE]
            /\ UNCHANGED <<screen, active>>
  BY DEF Web!Mounted
<1>2. /\ IsSequence(stack') /\ Len(stack) \in Nat \ {0} /\ DOMAIN stack = 1..Len(stack)
      /\ DOMAIN stack' = 1..(Len(stack) - 1)
      /\ \A n \in 1..(Len(stack) - 1) : stack'[n] = stack[n]
      /\ Web!Last(stack) = stack[Len(stack)]
  BY <1>1, Shortened DEF WebHolds
<1>3. Len(stack) \in DOMAIN stack /\ FrameHolds(Len(stack))
  BY <1>2 DEF WebHolds
<1>4. /\ x \in DOMAIN sessions /\ ~sessions[x].disposed /\ x \notin screen
      /\ ~portCalled => active = 0 /\ ~webEnded
      /\ \A m \in DOMAIN stack : (m # Len(stack) /\ stack[m].kind = "mount") =>
           portCalled /\ stack[m].session # x
  BY <1>1, <1>2, <1>3 DEF FrameHolds, Mounts
<1> HIDE DEF x
<1>5. /\ IsSequence(sessions') /\ DOMAIN sessions' = DOMAIN sessions /\ Grows(sessions, sessions')
      /\ \A m \in DOMAIN sessions : IsSession(sessions'[m])
      /\ \A m \in DOMAIN sessions : m # x => sessions'[m].disposed = sessions[m].disposed
      /\ \A m \in DOMAIN sessions : sessions[m].disposed => sessions'[m].disposed
  <2>1. CASE sessions' = sessions
    BY <2>1 DEF Grows, WebHolds
  <2>2. CASE sessions' = [sessions EXCEPT ![x].disposed = TRUE]
    BY <1>4, <2>2, Closed
  <2>3. QED
    BY <1>1, <2>1, <2>2
<1>6. /\ \A f : Reduces(f, sessions) => Reduces(f, sessions')
      /\ \A f : Tells(f, sessions, heard) => Tells(f, sessions', heard)
      /\ WasSo(sessions', heard)
  BY <1>5, GrowthKeeps DEF WebHolds
<1>7. \A n \in DOMAIN stack' : n \in DOMAIN stack /\ n # Len(stack) /\ stack'[n] = stack[n]
  BY <1>2
<1>8. \A n \in DOMAIN stack' : FrameHolds(n)'
  <2> TAKE n \in DOMAIN stack'
  <2>1. n \in DOMAIN stack /\ n # Len(stack) /\ stack'[n] = stack[n] /\ FrameHolds(n)
    BY <1>7 DEF WebHolds
  <2>2. CASE stack[n].kind \in {"process", "patch"}
    <3>1. Reduces(stack[n], sessions')
      BY <1>6, <2>1, <2>2 DEF FrameHolds
    <3>2. QED
      BY <2>1, <2>2, <3>1 DEF FrameHolds
  <2>3. CASE stack[n].kind = "notify"
    <3>1. /\ notifying /\ Tells(stack[n], sessions', heard)
          /\ \A m \in DOMAIN stack : m > n => stack[m].kind \in {"mount", "release"}
      BY <1>6, <2>1, <2>3 DEF FrameHolds
    <3>2. \A m \in DOMAIN stack' : m > n => stack'[m].kind \in {"mount", "release"}
      BY <1>7, <3>1
    <3>3. QED
      BY <1>1, <2>1, <2>3, <3>1, <3>2 DEF FrameHolds
  <2>4. CASE stack[n].kind = "release"
    BY <1>5, <2>1, <2>4 DEF FrameHolds
  <2>5. CASE stack[n].kind = "mount"
    <3>1. Mounts(n) /\ portCalled /\ stack[n].session # x
      BY <1>4, <2>1, <2>5 DEF FrameHolds
    <3>2. /\ stack[n].session \in DOMAIN sessions' /\ ~sessions'[stack[n].session].disposed
          /\ stack[n].session \notin screen'
      BY <1>1, <1>5, <3>1 DEF Mounts
    <3>3. \A m \in DOMAIN stack' : (m # n /\ stack'[m].kind = "mount") =>
            stack'[m].session # stack[n].session
      BY <1>7, <3>1 DEF Mounts
    <3>4. Mounts(n)'
      BY <1>1, <2>1, <3>1, <3>2, <3>3 DEF Mounts
    <3>5. QED
      BY <2>1, <2>5, <3>4 DEF FrameHolds
  <2>6. QED
    BY <2>1, <2>2, <2>3, <2>4, <2>5 DEF FrameHolds
<1>9. \A n \in DOMAIN stack : stack[n].kind = "release" => n \in DOMAIN stack' /\ stack'[n] = stack[n]
  <2> SUFFICES ASSUME NEW n \in DOMAIN stack, n # Len(stack)
               PROVE  n \in DOMAIN stack' /\ stack'[n] = stack[n]
    BY <1>1, <1>2
  <2>1. n \in 1..(Len(stack) - 1)
    BY <1>2
  <2>2. QED
    BY <1>2, <2>1
<1>10. /\ Web!ScreenIsActive' /\ active' \in {0} \cup DOMAIN sessions'
       /\ screen' \subseteq DOMAIN sessions'
  <2>1. CASE screen' = screen \cup {x} /\ active' = x /\ sessions' = sessions
    <3>1. active' # 0 => active' \in screen' /\ ~sessions'[active'].disposed
      BY <1>4, <2>1
    <3>2. ~portCalled => \A s \in screen : \E n \in DOMAIN stack' :
            stack'[n].kind = "release" /\ stack'[n].session = s
      <4> SUFFICES ASSUME ~portCalled, NEW s \in screen
                   PROVE  \E n \in DOMAIN stack' : stack'[n].kind = "release" /\ stack'[n].session = s
        OBVIOUS
      <4>1. s \in DOMAIN sessions /\ s # 0
        BY Appended DEF WebHolds
      <4>2. PICK n \in DOMAIN stack : stack[n].kind = "release" /\ stack[n].session = s
        BY <1>4, <4>1 DEF WebHolds, Web!ScreenIsActive
      <4>3. QED
        BY <1>9, <4>2
    <3>3. screen' \subseteq DOMAIN sessions' /\ active' \in {0} \cup DOMAIN sessions'
      BY <1>4, <2>1 DEF WebHolds
    <3>4. QED
      BY <1>1, <1>4, <2>1, <3>1, <3>2, <3>3 DEF Web!ScreenIsActive
  <2>2. CASE UNCHANGED <<screen, active>>
    <3>1. active # 0 => active # x /\ active \in DOMAIN sessions
      BY <1>4 DEF WebHolds, Web!ScreenIsActive
    <3>2. active' # 0 => active' \in screen' /\ ~sessions'[active'].disposed
      BY <1>5, <2>2, <3>1 DEF WebHolds, Web!ScreenIsActive
    <3>3. ~portCalled' =>
            /\ \A s \in screen' : s = active' \/ \E n \in DOMAIN stack' :
                 stack'[n].kind = "release" /\ stack'[n].session = s
            /\ webEnded' => active' = 0
      BY <1>1, <1>9, <2>2 DEF WebHolds, Web!ScreenIsActive
    <3>4. QED
      BY <1>5, <2>2, <3>2, <3>3 DEF WebHolds, Web!ScreenIsActive
  <2>3. QED
    BY <1>1, <2>1, <2>2
<1>11. Web!ChangesAreHeardInOrder' /\ IsSequence(heard') /\ WasSo(sessions', heard')
  BY <1>1, <1>6 DEF WebHolds, Web!ChangesAreHeardInOrder
<1>12. QED
  BY <1>2, <1>5, <1>8, <1>10, <1>11 DEF WebHolds

\* releaseActive is asked for: alone, or by dispose.
Asked ==
  \/ UNCHANGED <<webEnded, portCalled>>
  \/ webEnded' = TRUE /\ portCalled' = (portCalled \/ Web!Mounting)

LEMMA AskedFacts ==
  ASSUME Asked
  PROVE  /\ ~portCalled' => ~portCalled
         /\ (~portCalled' /\ Web!Mounting) => webEnded' = webEnded
<1>1. CASE UNCHANGED <<webEnded, portCalled>>
  BY <1>1
<1>2. CASE webEnded' = TRUE /\ portCalled' = (portCalled \/ Web!Mounting)
  BY <1>2
<1>3. QED
  BY <1>1, <1>2 DEF Asked

\* There is no active experience: nothing is taken down.
LEMMA NothingReleased ==
  ASSUME WebHolds, active = 0, Asked, UNCHANGED <<sessions, active, screen, notifying, stack, heard>>
  PROVE  WebHolds'
<1>1. \A n \in DOMAIN stack : FrameHolds(n)'
  <2> TAKE n \in DOMAIN stack
  <2>1. FrameHolds(n)
    BY DEF WebHolds
  <2>2. CASE stack[n].kind = "mount"
    <3>1. Mounts(n) /\ Web!Mounting
      BY <2>1, <2>2 DEF FrameHolds, Web!Mounting
    <3>2. ~portCalled' => ~portCalled /\ ~webEnded'
      BY <3>1, AskedFacts DEF Mounts
    <3>3. \A m \in DOMAIN stack : (m # n /\ stack[m].kind = "mount") =>
            portCalled' /\ stack[m].session # stack[n].session
      BY <3>1, <3>2 DEF Mounts
    <3>4. Mounts(n)'
      BY <3>1, <3>2, <3>3 DEF Mounts
    <3>5. QED
      BY <2>2, <3>4 DEF FrameHolds
  <2>3. CASE stack[n].kind # "mount"
    BY <2>1, <2>3 DEF FrameHolds
  <2>4. QED
    BY <2>2, <2>3
<1>2. Web!ScreenIsActive'
  BY AskedFacts DEF WebHolds, Web!ScreenIsActive
<1>3. Web!ChangesAreHeardInOrder'
  BY DEF WebHolds, Web!ChangesAreHeardInOrder
<1>4. QED
  BY <1>1, <1>2, <1>3 DEF WebHolds

LEMMA ReleaseKeeps ==
  ASSUME WebHolds, Web!Release, Asked
  PROVE  WebHolds'
<1>1. CASE active = 0
  <2>1. UNCHANGED <<sessions, active, screen, notifying, stack, heard>>
    BY <1>1 DEF Web!Release
  <2>2. QED
    BY <1>1, <2>1, NothingReleased
<1>2. CASE active # 0
  <2> DEFINE frame == [kind |-> "release", session |-> active]
  <2>1. /\ active' = 0 /\ sessions' = [sessions EXCEPT ![active].disposed = TRUE]
        /\ stack' = Append(stack, frame) /\ UNCHANGED <<screen, notifying, heard>>
    BY <1>2 DEF Web!Release, Web!Push
  <2>2. frame.kind = "release" /\ frame.session = active
    OBVIOUS
  <2> HIDE DEF frame
  <2>3. active \in DOMAIN sessions /\ active \in screen
    BY <1>2 DEF WebHolds, Web!ScreenIsActive
  <2>4. /\ IsSequence(sessions') /\ DOMAIN sessions' = DOMAIN sessions /\ Grows(sessions, sessions')
        /\ \A m \in DOMAIN sessions :
             /\ IsSession(sessions'[m])
             /\ sessions'[m].disposed = IF m = active THEN TRUE ELSE sessions[m].disposed
    BY <2>1, <2>3, Closed
  <2>5. /\ \A f : Reduces(f, sessions) => Reduces(f, sessions')
        /\ \A f : Tells(f, sessions, heard) => Tells(f, sessions', heard)
        /\ WasSo(sessions', heard)
    BY <2>4, GrowthKeeps DEF WebHolds
  <2>6. /\ IsSequence(stack') /\ DOMAIN stack = 1..Len(stack) /\ Len(stack) \in Nat
        /\ DOMAIN stack' = 1..(Len(stack) + 1)
        /\ \A n \in 1..Len(stack) : stack'[n] = stack[n]
        /\ stack'[Len(stack) + 1] = frame
    BY <2>1, Appended DEF WebHolds
  <2>7. /\ \A n \in DOMAIN stack : n \in DOMAIN stack' /\ stack'[n] = stack[n]
        /\ \A n \in DOMAIN stack' : n \in DOMAIN stack \/ n = Len(stack) + 1
        /\ Len(stack) + 1 \in DOMAIN stack'
    BY <2>6
  <2>8. \A n \in DOMAIN stack' : FrameHolds(n)'
    <3> TAKE n \in DOMAIN stack'
    <3>1. CASE n = Len(stack) + 1
      <4>1. stack'[n] = frame
        BY <2>6, <3>1
      <4>2. QED
        BY <2>2, <2>3, <2>4, <4>1 DEF FrameHolds
    <3>2. CASE n \in DOMAIN stack
      <4>1. stack'[n] = stack[n] /\ FrameHolds(n)
        BY <2>7, <3>2 DEF WebHolds
      <4>2. CASE stack[n].kind \in {"process", "patch"}
        <5>1. Reduces(stack[n], sessions')
          BY <2>5, <4>1, <4>2 DEF FrameHolds
        <5>2. QED
          BY <4>1, <4>2, <5>1 DEF FrameHolds
      <4>3. CASE stack[n].kind = "notify"
        <5>1. /\ notifying /\ Tells(stack[n], sessions', heard)
              /\ \A m \in DOMAIN stack : m > n => stack[m].kind \in {"mount", "release"}
          BY <2>5, <4>1, <4>3 DEF FrameHolds
        <5>2. \A m \in DOMAIN stack' : m > n => stack'[m].kind \in {"mount", "release"}
          BY <2>2, <2>6, <2>7, <5>1
        <5>3. QED
          BY <2>1, <4>1, <4>3, <5>1, <5>2 DEF FrameHolds
      <4>4. CASE stack[n].kind = "release"
        BY <2>4, <4>1, <4>4 DEF FrameHolds
      <4>5. CASE stack[n].kind = "mount"
        <5>1. Mounts(n) /\ portCalled
          BY <1>2, <4>1, <4>5 DEF FrameHolds, Mounts
        <5>2. portCalled' /\ stack[n].session # active
          BY <2>3, <5>1, AskedFacts DEF Mounts
        <5>3. \A m \in DOMAIN stack' : (m # n /\ stack'[m].kind = "mount") =>
                stack'[m].session # stack[n].session
          BY <2>2, <2>6, <2>7, <5>1 DEF Mounts
        <5>4. Mounts(n)'
          BY <2>1, <2>4, <4>1, <5>1, <5>2, <5>3 DEF Mounts
        <5>5. QED
          BY <4>1, <4>5, <5>4 DEF FrameHolds
      <4>6. QED
        BY <4>1, <4>2, <4>3, <4>4, <4>5 DEF FrameHolds
    <3>3. QED
      BY <2>7, <3>1, <3>2
  <2>9. Web!ScreenIsActive'
    <3> SUFFICES ASSUME ~portCalled', NEW s \in screen
                 PROVE  \E n \in DOMAIN stack' : stack'[n].kind = "release" /\ stack'[n].session = s
      BY <2>1 DEF Web!ScreenIsActive
    <3>1. CASE s = active
      BY <2>2, <2>6, <2>7, <3>1
    <3>2. CASE s # active
      <4>1. PICK n \in DOMAIN stack : stack[n].kind = "release" /\ stack[n].session = s
        BY <3>2, AskedFacts DEF WebHolds, Web!ScreenIsActive
      <4>2. QED
        BY <2>7, <4>1
    <3>3. QED
      BY <3>1, <3>2
  <2>10. Web!ChangesAreHeardInOrder' /\ IsSequence(heard') /\ WasSo(sessions', heard')
    BY <2>1, <2>5 DEF WebHolds, Web!ChangesAreHeardInOrder
  <2>11. active' \in {0} \cup DOMAIN sessions' /\ screen' \subseteq DOMAIN sessions'
    BY <2>1, <2>4 DEF WebHolds
  <2>12. QED
    BY <2>4, <2>6, <2>8, <2>9, <2>10, <2>11 DEF WebHolds
<1>3. QED
  BY <1>1, <1>2

\* The host has disposed of the handles of an experience that is not active.
LEMMA ReleasedKeeps ==
  ASSUME WebHolds, Web!Released
  PROVE  WebHolds'
<1> DEFINE x == Web!Last(stack).session
<1>1. /\ stack # <<>> /\ Web!Last(stack).kind = "release" /\ stack' = Web!Front(stack)
      /\ screen' = screen \ {x}
      /\ UNCHANGED <<sessions, active, notifying, webEnded, heard, portCalled>>
  BY DEF Web!Released
<1>2. /\ IsSequence(stack') /\ Len(stack) \in Nat \ {0} /\ DOMAIN stack = 1..Len(stack)
      /\ DOMAIN stack' = 1..(Len(stack) - 1)
      /\ \A n \in 1..(Len(stack) - 1) : stack'[n] = stack[n]
      /\ Web!Last(stack) = stack[Len(stack)]
  BY <1>1, Shortened DEF WebHolds
<1>3. Len(stack) \in DOMAIN stack /\ FrameHolds(Len(stack))
  BY <1>2 DEF WebHolds
<1>4. x \in DOMAIN sessions /\ sessions[x].disposed /\ stack[Len(stack)].session = x
  BY <1>1, <1>2, <1>3 DEF FrameHolds
<1> HIDE DEF x
<1>5. /\ \A n \in DOMAIN stack' : n \in DOMAIN stack /\ stack'[n] = stack[n]
      /\ \A n \in DOMAIN stack : n \in DOMAIN stack' \/ n = Len(stack)
  BY <1>2
<1>6. \A n \in DOMAIN stack' : FrameHolds(n)'
  <2> TAKE n \in DOMAIN stack'
  <2>1. FrameHolds(n) /\ stack'[n] = stack[n] /\ n \in DOMAIN stack
    BY <1>5 DEF WebHolds
  <2>2. CASE stack[n].kind = "notify"
    <3>1. \A m \in DOMAIN stack' : m > n => stack'[m].kind \in {"mount", "release"}
      BY <1>5, <2>1, <2>2 DEF FrameHolds
    <3>2. QED
      BY <1>1, <2>1, <2>2, <3>1 DEF FrameHolds
  <2>3. CASE stack[n].kind = "mount"
    <3>1. Mounts(n)
      BY <2>1, <2>3 DEF FrameHolds
    <3>2. \A m \in DOMAIN stack' : (m # n /\ stack'[m].kind = "mount") =>
            portCalled /\ stack'[m].session # stack[n].session
      BY <1>5, <3>1 DEF Mounts
    <3>3. Mounts(n)'
      BY <1>1, <2>1, <3>1, <3>2 DEF Mounts
    <3>4. QED
      BY <2>1, <2>3, <3>3 DEF FrameHolds
  <2>4. CASE stack[n].kind \notin {"notify", "mount"}
    BY <1>1, <2>1, <2>4 DEF FrameHolds
  <2>5. QED
    BY <2>2, <2>3, <2>4
<1>7. Web!ScreenIsActive'
  <2>1. active # 0 => active # x
    BY <1>4 DEF WebHolds, Web!ScreenIsActive
  <2>2. ASSUME ~portCalled, NEW s \in screen, s # x, s # active
        PROVE  \E n \in DOMAIN stack' : stack'[n].kind = "release" /\ stack'[n].session = s
    <3>1. PICK n \in DOMAIN stack : stack[n].kind = "release" /\ stack[n].session = s
      BY <2>2 DEF WebHolds, Web!ScreenIsActive
    <3>2. n # Len(stack)
      BY <1>4, <2>2, <3>1
    <3>3. QED
      BY <1>5, <3>1, <3>2
  <2>3. QED
    BY <1>1, <2>1, <2>2 DEF WebHolds, Web!ScreenIsActive
<1>8. Web!ChangesAreHeardInOrder' /\ screen' \subseteq DOMAIN sessions'
  BY <1>1 DEF WebHolds, Web!ChangesAreHeardInOrder
<1>9. QED
  BY <1>1, <1>2, <1>6, <1>7, <1>8 DEF WebHolds

\* What is published tells of a change last.
AtMostOne(s, x) == s \in Seq({x}) /\ Len(s) \in {0, 1} /\ \A k \in 1..Len(s) : s[k] = x

LEMMA Single ==
  ASSUME NEW x
  PROVE  <<x>> \in Seq({x}) /\ Len(<<x>>) = 1 /\ <<x>>[1] = x
OBVIOUS

LEMMA OneOrNone ==
  ASSUME NEW x, NEW p
  PROVE  /\ AtMostOne(IF p THEN <<>> ELSE <<x>>, x) /\ AtMostOne(IF p THEN <<x>> ELSE <<>>, x)
         /\ Len(IF p THEN <<x>> ELSE <<>>) = 1 => p
<1>1. AtMostOne(<<>>, x)
  BY DEF AtMostOne
<1>2. AtMostOne(<<x>>, x)
  BY Single DEF AtMostOne
<1>3. Len(<<>>) = 0
  OBVIOUS
<1>4. QED
  BY <1>1, <1>2, <1>3

LEMMA Joined ==
  ASSUME NEW a, NEW b, IsSequence(a), IsSequence(b)
  PROVE  /\ IsSequence(a \o b) /\ Len(a) \in Nat /\ Len(b) \in Nat
         /\ Len(a \o b) = Len(a) + Len(b) /\ DOMAIN (a \o b) = 1..(Len(a) + Len(b))
         /\ \A k \in 1..Len(a) : (a \o b)[k] = a[k]
         /\ \A k \in 1..Len(b) : (a \o b)[Len(a) + k] = b[k]
<1>1. PICK S : a \in Seq(S)
  BY DEF IsSequence
<1>2. PICK T : b \in Seq(T)
  BY DEF IsSequence
<1>3. a \in Seq(S \cup T) /\ b \in Seq(S \cup T)
  BY <1>1, <1>2
<1> HIDE <1>1, <1>2
<1>4. a \o b \in Seq(S \cup T) /\ Len(a \o b) = Len(a) + Len(b) /\ Len(a) \in Nat /\ Len(b) \in Nat
  BY <1>3
<1>5. /\ \A k \in 1..Len(a) : (a \o b)[k] = a[k]
      /\ \A k \in 1..Len(b) : (a \o b)[Len(a) + k] = b[k]
  BY <1>3, <1>4
<1>6. DOMAIN (a \o b) = 1..(Len(a) + Len(b))
  BY <1>4
<1>7. QED
  BY <1>4, <1>5, <1>6 DEF IsSequence

Parts(x, y, z, b, c, left) ==
  /\ x.event # "statechange" /\ y.event # "statechange" /\ AtMostOne(b, y) /\ AtMostOne(c, z)
  /\ left = <<x>> \o b \o c

LEMMA ChangeComesLast ==
  ASSUME NEW x, NEW y, NEW z, NEW b, NEW c, NEW left, Parts(x, y, z, b, c, left)
  PROVE  /\ IsSequence(left)
         /\ \A k \in DOMAIN left : left[k].event = "statechange" =>
              k = Len(left) /\ Len(c) = 1 /\ left[k] = z
<1>1. IsSequence(<<x>>) /\ Len(<<x>>) = 1 /\ <<x>>[1] = x
  BY Single DEF IsSequence
<1>2. IsSequence(b) /\ IsSequence(c)
  BY DEF AtMostOne, IsSequence, Parts
<1> DEFINE ab == <<x>> \o b
           abc == ab \o c
<1>3. /\ IsSequence(ab) /\ Len(ab) = 1 + Len(b) /\ Len(b) \in {0, 1}
      /\ ab[1] = x /\ \A k \in 1..Len(b) : ab[1 + k] = b[k]
  BY <1>1, <1>2, Joined DEF AtMostOne, Parts
<1> HIDE DEF ab
<1>4. /\ IsSequence(abc) /\ Len(abc) = Len(ab) + Len(c) /\ Len(c) \in {0, 1}
      /\ DOMAIN abc = 1..(Len(ab) + Len(c))
      /\ \A k \in 1..Len(ab) : abc[k] = ab[k]
      /\ \A k \in 1..Len(c) : abc[Len(ab) + k] = c[k]
  BY <1>2, <1>3, Joined DEF AtMostOne, Parts
<1> HIDE DEF abc
<1>5. \A k \in 1..Len(ab) : ab[k] \in {x, y}
  <2> TAKE k \in 1..Len(ab)
  <2>1. k = 1 \/ (k = 2 /\ 1 \in 1..Len(b))
    BY <1>3
  <2>2. CASE k = 1
    BY <1>3, <2>2
  <2>3. CASE k = 2 /\ 1 \in 1..Len(b)
    <3>1. ab[1 + 1] = b[1] /\ b[1] = y
      BY <1>3, <2>3 DEF AtMostOne, Parts
    <3>2. QED
      BY <2>3, <3>1
  <2>4. QED
    BY <2>1, <2>2, <2>3
<1>6. \A k \in DOMAIN abc : abc[k].event = "statechange" =>
        k = Len(abc) /\ Len(c) = 1 /\ abc[k] = z
  <2> SUFFICES ASSUME NEW k \in DOMAIN abc, abc[k].event = "statechange"
               PROVE  k = Len(abc) /\ Len(c) = 1 /\ abc[k] = z
    OBVIOUS
  <2>1. k \notin 1..Len(ab)
    <3> SUFFICES ASSUME k \in 1..Len(ab) PROVE FALSE
      OBVIOUS
    <3>1. abc[k] \in {x, y}
      BY <1>4, <1>5
    <3>2. QED
      BY <3>1 DEF Parts
  <2>2. Len(ab) \in Nat
    BY <1>3
  <2>3. k = Len(ab) + 1 /\ Len(c) = 1
    BY <1>4, <2>1, <2>2
  <2>4. abc[Len(ab) + 1] = c[1] /\ c[1] = z
    BY <1>4, <2>3 DEF AtMostOne, Parts
  <2>5. QED
    BY <1>4, <2>3, <2>4
<1>7. left = abc
  BY DEF abc, ab, Parts
<1>8. QED
  BY <1>4, <1>6, <1>7

\* The innermost call has reduced, and the listeners are to be told of it.
LEMMA PublishKeeps ==
  ASSUME WebHolds, stack # <<>>, Web!Last(stack).kind \in {"process", "patch"},
         NEW left, Web!Publish(left), UNCHANGED <<active, screen, webEnded, heard, portCalled>>,
         IsSequence(sessions'), \A n \in DOMAIN sessions' : IsSession(sessions'[n]),
         DOMAIN sessions' = DOMAIN sessions, Grows(sessions, sessions'),
         \A n \in DOMAIN sessions : sessions'[n].disposed = sessions[n].disposed,
         \A frame : frame.left = left => Tells(frame, sessions', heard)
  PROVE  WebHolds'
<1> DEFINE frame == [kind |-> "notify", left |-> left]
<1>1. stack' = Append(Web!Front(stack), frame) /\ notifying' = TRUE
  BY DEF Web!Publish
<1>2. frame.kind = "notify" /\ frame.left = left
  OBVIOUS
<1> HIDE DEF frame
<1>3. /\ IsSequence(Web!Front(stack)) /\ Len(stack) \in Nat \ {0}
      /\ Len(Web!Front(stack)) = Len(stack) - 1
      /\ \A n \in 1..(Len(stack) - 1) : Web!Front(stack)[n] = stack[n]
  BY Shortened DEF WebHolds
<1>4. /\ IsSequence(stack') /\ DOMAIN stack' = 1..(Len(stack) - 1 + 1)
      /\ \A n \in 1..(Len(stack) - 1) : stack'[n] = stack[n]
      /\ stack'[Len(stack) - 1 + 1] = frame
  BY <1>1, <1>3, Appended
<1>5. /\ \A n \in DOMAIN stack' : n \in 1..(Len(stack) - 1) \/ n = Len(stack) - 1 + 1
      /\ \A m \in DOMAIN stack' : ~(m > Len(stack) - 1 + 1)
  BY <1>3, <1>4
<1>6. \A n \in 1..(Len(stack) - 1) :
        /\ n \in DOMAIN stack /\ n \in DOMAIN stack' /\ stack'[n] = stack[n]
        /\ stack[n].kind # "notify"
  <2>1. \A n \in 1..(Len(stack) - 1) : n \in 1..(Len(stack) - 1 + 1)
    BY <1>3
  <2>2. QED
    BY <1>4, <2>1, NothingTellsBelow
<1>7. (\A f : Reduces(f, sessions) => Reduces(f, sessions')) /\ WasSo(sessions', heard)
  BY GrowthKeeps DEF WebHolds
<1>8. \A n \in DOMAIN stack' : FrameHolds(n)'
  <2> TAKE n \in DOMAIN stack'
  <2>1. CASE n \in 1..(Len(stack) - 1)
    <3>1. \A m \in DOMAIN stack' : stack'[m].kind = "mount" => m \in DOMAIN stack /\ stack'[m] = stack[m]
      BY <1>2, <1>4, <1>5, <1>6
    <3>2. QED
      BY <1>6, <2>1, <3>1, CallStays
  <2>2. CASE n = Len(stack) - 1 + 1
    <3>1. stack'[n] = frame /\ Tells(frame, sessions', heard)
      BY <1>2, <1>4, <2>2
    <3>2. \A m \in DOMAIN stack' : ~(m > n)
      BY <1>5, <2>2
    <3>3. QED
      BY <1>1, <1>2, <3>1, <3>2 DEF FrameHolds
  <2>3. QED
    BY <1>5, <2>1, <2>2
<1>9. Web!ScreenIsActive'
  <2>1. \A n \in DOMAIN stack : stack[n].kind = "release" => n \in DOMAIN stack' /\ stack'[n] = stack[n]
    <3>1. DOMAIN stack = 1..Len(stack) /\ Web!Last(stack) = stack[Len(stack)]
      BY Shortened DEF WebHolds
    <3>2. \A n \in DOMAIN stack : n = Len(stack) \/ n \in 1..(Len(stack) - 1)
      BY <1>3, <3>1
    <3>3. QED
      BY <1>6, <3>1, <3>2
  <2>2. QED
    BY <2>1, ScreenStays
<1>10. Web!ChangesAreHeardInOrder'
  BY DEF WebHolds, Web!ChangesAreHeardInOrder
<1>11. /\ IsSequence(heard') /\ WasSo(sessions', heard') /\ active' \in {0} \cup DOMAIN sessions'
       /\ screen' \subseteq DOMAIN sessions'
  BY <1>7 DEF WebHolds
<1>12. QED
  BY <1>4, <1>8, <1>9, <1>10, <1>11 DEF WebHolds

\* What a call reduces, and what becomes of its session.
Base(frame) == IF frame.kind = "process" THEN frame.seen ELSE sessions[frame.session].state
Outcome(frame) == Web!Reduce(Base(frame), frame.action, Rules)

Leads(frame, old, r) ==
  /\ Reduces(frame, sessions) /\ old = sessions[frame.session].state
  /\ r = Outcome(frame) /\ r.ok /\ Web!Binds(old, r.state)

LEMMA OutcomeFollows ==
  ASSUME WebHolds, NEW frame, NEW old, NEW r, Leads(frame, old, r)
  PROVE  /\ IsState(r.state) /\ old.revision \in Nat
         /\ r.state = old \/ r.state.revision = old.revision + 1
         /\ r.state # old =>
              Web!Reduce(old, frame.action, Rules) = [ok |-> TRUE, state |-> r.state,
                effect |-> "none"]
<1>1. IsState(old) /\ old.revision \in Nat
  BY DEF WebHolds, IsSession, Reduces, IsState, Leads
<1>2. PICK base : base = Base(frame)
  OBVIOUS
<1>3. /\ IsState(base) /\ base.revision <= old.revision
      /\ base.revision = old.revision => base = old
  <2>1. CASE frame.kind = "process"
    BY <1>2, <2>1 DEF Reduces, Base, Leads
  <2>2. CASE frame.kind # "process"
    <3>1. base = old
      BY <1>2, <2>2 DEF Base, Leads
    <3>2. old.revision <= old.revision
      BY <1>1
    <3>3. QED
      BY <1>1, <3>1, <3>2
  <2>3. QED
    BY <2>1, <2>2
<1>4. ReducesTo(base, frame.action, r) /\ r = Web!Reduce(base, frame.action, Rules)
  BY <1>2, <1>3 DEF Outcome, Leads, ReducesTo
<1>5. /\ IsState(r.state)
      /\ r.state = base \/ r.state.revision = base.revision + 1
      /\ r.state # base => r = [ok |-> TRUE, state |-> r.state, effect |-> "none"]
  BY <1>4, ReduceFacts
<1>6. r.state.revision \in {old.revision, old.revision + 1} /\ (r.state.revision
        = old.revision => r.state = old)
  BY DEF Web!Binds, Leads
<1>7. base.revision \in Nat
  BY <1>3 DEF IsState
<1>8. r.state # old => r.state.revision = old.revision + 1
  BY <1>6
<1>9. r.state # old => r.state # base
  <2> SUFFICES ASSUME r.state # old, r.state = base PROVE FALSE
    OBVIOUS
  <2>1. base.revision = old.revision + 1
    BY <1>8
  <2>2. QED
    BY <1>1, <1>3, <1>7, <2>1
<1>10. r.state # old => base = old
  <2> SUFFICES ASSUME r.state # old PROVE base.revision = old.revision
    BY <1>3
  <2>1. r.state.revision = base.revision + 1 /\ r.state.revision = old.revision + 1
    BY <1>5, <1>8, <1>9
  <2>2. QED
    BY <1>1, <1>7, <2>1
<1>11. QED
  BY <1>1, <1>4, <1>5, <1>8, <1>9, <1>10

\* What a step of the reducer makes of the sessions.
LEMMA ReducedIs ==
  ASSUME WebHolds, Web!Reduced
  PROVE  LET frame == Web!Last(stack)
             old == sessions[frame.session].state
             result == Outcome(frame)
         IN  /\ stack # <<>> /\ frame.kind \in {"process", "patch"} /\ Reduces(frame, sessions)
             /\ UNCHANGED <<active, screen, webEnded, heard, portCalled>>
             /\ \/ /\ result.ok /\ Web!Binds(old, result.state)
                   /\ sessions' = [sessions EXCEPT ![frame.session].state = result.state]
                   /\ Web!Publish(<<Web!Notice(frame.session, "action", result.state.revision)>>
                        \o (IF result.effect = "none" THEN <<>>
                            ELSE <<Web!Notice(frame.session, "effect", result.state.revision)>>)
                        \o (IF result.state.revision = old.revision + 1
                            THEN <<Web!Notice(frame.session, "statechange", result.state.revision)>>
                            ELSE <<>>))
                \/ /\ sessions' = sessions
                   /\ Web!Publish(<<Web!Notice(frame.session, "error", 0)>>)
<1> DEFINE frame == Web!Last(stack)
<1>1. stack # <<>> /\ frame.kind \in {"process", "patch"}
  BY DEF Web!Reduced
<1>2. /\ Len(stack) \in DOMAIN stack /\ frame = stack[Len(stack)]
  BY <1>1, Shortened DEF WebHolds
<1>3. Reduces(frame, sessions)
  <2>1. FrameHolds(Len(stack))
    BY <1>2 DEF WebHolds
  <2>2. QED
    BY <1>1, <1>2, <2>1 DEF FrameHolds
<1>4. QED
  BY <1>1, <1>3 DEF Web!Reduced, Outcome, Base

LEMMA ReducedKeeps ==
  ASSUME WebHolds, Web!Reduced
  PROVE  WebHolds'
<1>1. PICK frame, old, result :
        /\ frame = Web!Last(stack) /\ old = sessions[frame.session].state
        /\ result = Outcome(frame)
  OBVIOUS
<1>2. /\ stack # <<>> /\ frame.kind \in {"process", "patch"} /\ Reduces(frame, sessions)
      /\ UNCHANGED <<active, screen, webEnded, heard, portCalled>>
  BY <1>1, ReducedIs
<1>3. CASE /\ result.ok /\ Web!Binds(old, result.state)
           /\ sessions' = [sessions EXCEPT ![frame.session].state = result.state]
           /\ Web!Publish(<<Web!Notice(frame.session, "action", result.state.revision)>>
                \o (IF result.effect = "none" THEN <<>>
                    ELSE <<Web!Notice(frame.session, "effect", result.state.revision)>>)
                \o (IF result.state.revision = old.revision + 1
                    THEN <<Web!Notice(frame.session, "statechange", result.state.revision)>>
                    ELSE <<>>))
  <2>1. PICK new, x, y, z :
          /\ new = result.state
          /\ x = Web!Notice(frame.session, "action", new.revision)
          /\ y = Web!Notice(frame.session, "effect", new.revision)
          /\ z = Web!Notice(frame.session, "statechange", new.revision)
    OBVIOUS
  <2>2. PICK b, c :
          /\ b = IF result.effect = "none" THEN <<>> ELSE <<y>>
          /\ c = IF new.revision = old.revision + 1 THEN <<z>> ELSE <<>>
    OBVIOUS
  <2>3. PICK left : left = <<x>> \o b \o c
    OBVIOUS
  <2>4. IsState(new) /\ old.revision \in Nat /\ (new = old \/ new.revision = old.revision + 1)
    <3>1. Leads(frame, old, result)
      BY <1>1, <1>2, <1>3 DEF Leads
    <3>2. QED
      BY <2>1, <3>1, OutcomeFollows
  <2>5. frame.session \in DOMAIN sessions
    BY <1>2 DEF Reduces
  <2>6. x.event # "statechange" /\ y.event # "statechange"
        /\ z.session = frame.session /\ z.revision = new.revision
    BY <2>1 DEF Web!Notice
  <2>7. Web!Publish(left)
    BY <1>3, <2>1, <2>2, <2>3
  <2>8. sessions' = [sessions EXCEPT ![frame.session].state = new]
    BY <1>3, <2>1
  <2>9. /\ IsSequence(left)
        /\ \A k \in DOMAIN left : left[k].event = "statechange" =>
             k = Len(left) /\ new.revision = old.revision + 1 /\ left[k] = z
    <3>1. AtMostOne(b, y) /\ AtMostOne(c, z) /\ (Len(c) = 1 => new.revision = old.revision + 1)
      BY <2>2, OneOrNone
    <3>2. Parts(x, y, z, b, c, left)
      BY <2>3, <2>6, <3>1 DEF Parts
    <3>3. QED
      BY <3>1, <3>2, ChangeComesLast
  <2>10. /\ IsSequence(sessions') /\ DOMAIN sessions' = DOMAIN sessions /\ Grows(sessions, sessions')
         /\ \A m \in DOMAIN sessions :
              /\ IsSession(sessions'[m]) /\ sessions'[m].disposed = sessions[m].disposed
              /\ sessions'[m].state = IF m = frame.session THEN new ELSE sessions[m].state
    <3>1. PICK next : next = sessions'
      OBVIOUS
    <3>2. GoesOn(frame.session, new, next)
      BY <1>1, <2>4, <2>5, <2>8, <3>1 DEF GoesOn
    <3>3. /\ IsSequence(next) /\ DOMAIN next = DOMAIN sessions /\ Grows(sessions, next)
          /\ \A m \in DOMAIN sessions :
               /\ IsSession(next[m]) /\ next[m].disposed = sessions[m].disposed
               /\ next[m].state = IF m = frame.session THEN new ELSE sessions[m].state
      BY <3>2, Advanced
    <3>4. QED
      BY <3>1, <3>3
  <2>11. \A h \in DOMAIN heard :
           (heard[h].event = "statechange" /\ heard[h].session = frame.session) =>
             heard[h].revision \in Nat /\ heard[h].revision <= old.revision
    BY <1>1 DEF WebHolds, WasSo
  <2>12. \A f : f.left = left => Tells(f, sessions', heard)
    <3> SUFFICES ASSUME NEW f, f.left = left,
                        NEW k \in DOMAIN left, left[k].event = "statechange"
                 PROVE  /\ k = Len(left) /\ left[k].session \in DOMAIN sessions'
                        /\ left[k].revision \in Nat
                        /\ left[k].revision <= sessions'[left[k].session].state.revision
                        /\ \A h \in DOMAIN heard :
                             (heard[h].event = "statechange" /\ heard[h].session = left[k].session) =>
                               heard[h].revision < left[k].revision
      BY <2>9 DEF Tells
    <3>1. /\ k = Len(left) /\ left[k].session = frame.session
          /\ left[k].revision = new.revision /\ new.revision = old.revision + 1
      BY <2>6, <2>9
    <3>2. sessions'[frame.session].state = new /\ frame.session \in DOMAIN sessions'
      BY <2>5, <2>10
    <3>3. new.revision \in Nat /\ new.revision <= new.revision
      BY <2>4, <3>1
    <3>4. \A h \in DOMAIN heard :
            (heard[h].event = "statechange" /\ heard[h].session = frame.session) =>
              heard[h].revision < new.revision
      BY <2>4, <2>11, <3>1
    <3>5. QED
      BY <3>1, <3>2, <3>3, <3>4
  <2>13. QED
    BY <1>1, <1>2, <2>7, <2>10, <2>12, PublishKeeps
<1>4. CASE sessions' = sessions /\ Web!Publish(<<Web!Notice(frame.session, "error", 0)>>)
  <2>1. \A f : f.left = <<Web!Notice(frame.session, "error", 0)>> => Tells(f, sessions', heard)
    BY OneNotice
  <2>2. Grows(sessions, sessions')
    BY <1>4 DEF Grows
  <2>3. IsSequence(sessions') /\ \A n \in DOMAIN sessions' : IsSession(sessions'[n])
    BY <1>4 DEF WebHolds
  <2>4. QED
    BY <1>1, <1>2, <1>4, <2>1, <2>2, <2>3, PublishKeeps
<1>5. QED
  BY <1>1, <1>3, <1>4, ReducedIs

\* Listeners were told the changes of a session in their order.
InOrder(told) ==
  \A m, n \in DOMAIN told :
    (/\ m < n /\ told[m].session = told[n].session
     /\ told[m].event = "statechange" /\ told[n].event = "statechange")
      => told[m].revision < told[n].revision

\* One more listener is told, or would be if the instance were not disposed.
TellsNext(f, g, all, told, next) ==
  /\ f.left # <<>> /\ g.left = Tail(f.left)
  /\ Tells(f, all, told) /\ WasSo(all, told) /\ InOrder(told) /\ IsSequence(told)
  /\ next = told \/ next = Append(told, Head(f.left))

LEMMA Shifted ==
  ASSUME NEW s, IsSequence(s), s # <<>>
  PROVE  /\ IsSequence(Tail(s)) /\ Len(s) \in Nat \ {0} /\ DOMAIN s = 1..Len(s)
         /\ Len(Tail(s)) = Len(s) - 1 /\ DOMAIN Tail(s) = 1..(Len(s) - 1)
         /\ \A k \in 1..(Len(s) - 1) : Tail(s)[k] = s[k + 1]
         /\ Head(s) = s[1]
<1>1. PICK S : s \in Seq(S)
  BY DEF IsSequence
<1>2. Len(s) \in Nat \ {0} /\ DOMAIN s = 1..Len(s)
  BY <1>1
<1>3. /\ Tail(s) \in Seq(S) /\ Len(Tail(s)) = Len(s) - 1 /\ Head(s) = s[1]
      /\ DOMAIN Tail(s) = 1..(Len(s) - 1)
      /\ \A k \in 1..(Len(s) - 1) : Tail(s)[k] = s[k + 1]
  BY <1>1, <1>2
<1>4. QED
  BY <1>2, <1>3 DEF IsSequence

LEMMA ToldNext ==
  ASSUME NEW f, NEW g, NEW all, NEW told, NEW next, TellsNext(f, g, all, told, next)
  PROVE  Tells(g, all, next) /\ WasSo(all, next) /\ InOrder(next) /\ IsSequence(next)
<1> DEFINE x == Head(f.left)
<1>1. /\ f.left # <<>> /\ g.left = Tail(f.left) /\ IsSequence(f.left) /\ IsSequence(told)
      /\ next = told \/ next = Append(told, x)
      /\ Tells(f, all, told) /\ WasSo(all, told) /\ InOrder(told)
  BY DEF TellsNext, Tells
<1>2. /\ IsSequence(g.left) /\ Len(f.left) \in Nat \ {0} /\ DOMAIN f.left = 1..Len(f.left)
      /\ Len(g.left) = Len(f.left) - 1 /\ DOMAIN g.left = 1..(Len(f.left) - 1)
      /\ \A k \in 1..(Len(f.left) - 1) : g.left[k] = f.left[k + 1]
      /\ x = f.left[1]
  BY <1>1, Shifted
<1>3. 1 \in DOMAIN f.left
  BY <1>2
<1>4. x.event = "statechange" =>
        /\ Len(f.left) = 1 /\ x.session \in DOMAIN all /\ x.revision \in Nat
        /\ x.revision <= all[x.session].state.revision
        /\ \A h \in DOMAIN told :
             (told[h].event = "statechange" /\ told[h].session = x.session) =>
               told[h].revision < x.revision
  BY <1>1, <1>2, <1>3 DEF Tells
<1> HIDE DEF x
<1>5. /\ Len(told) \in Nat /\ DOMAIN told = 1..Len(told) /\ IsSequence(next)
      /\ \A h \in DOMAIN told : h \in DOMAIN next /\ next[h] = told[h]
      /\ \A h \in DOMAIN next : h \in DOMAIN told \/ (h = Len(told) + 1 /\ next[h] = x)
  <2>1. CASE next = told
    <3>1. Len(told) \in Nat /\ DOMAIN told = 1..Len(told)
      BY <1>1, Appended
    <3>2. QED
      BY <1>1, <2>1, <3>1
  <2>2. CASE next = Append(told, x)
    <3>1. /\ IsSequence(next) /\ Len(told) \in Nat /\ DOMAIN told = 1..Len(told)
          /\ DOMAIN next = 1..(Len(told) + 1)
          /\ \A h \in 1..Len(told) : next[h] = told[h]
          /\ next[Len(told) + 1] = x
      BY <1>1, <2>2, Appended
    <3>2. QED
      BY <3>1
  <2>3. QED
    BY <1>1, <2>1, <2>2
<1>6. Tells(g, all, next)
  <2> SUFFICES ASSUME NEW k \in DOMAIN g.left, g.left[k].event = "statechange"
               PROVE  /\ k = Len(g.left) /\ g.left[k].session \in DOMAIN all
                      /\ g.left[k].revision \in Nat
                      /\ g.left[k].revision <= all[g.left[k].session].state.revision
                      /\ \A h \in DOMAIN next :
                           (next[h].event = "statechange" /\ next[h].session = g.left[k].session) =>
                             next[h].revision < g.left[k].revision
    BY <1>2 DEF Tells
  <2>1. PICK l \in Nat \ {0} : l = Len(f.left)
    BY <1>2
  <2>2. /\ k \in 1..(l - 1) /\ k + 1 \in DOMAIN f.left /\ g.left[k] = f.left[k + 1]
        /\ l # 1 /\ Len(g.left) = l - 1
    BY <1>2, <2>1
  <2>3. /\ k + 1 = l /\ g.left[k].session \in DOMAIN all /\ g.left[k].revision \in Nat
        /\ g.left[k].revision <= all[g.left[k].session].state.revision
        /\ \A h \in DOMAIN told :
             (told[h].event = "statechange" /\ told[h].session = g.left[k].session) =>
               told[h].revision < g.left[k].revision
    BY <1>1, <2>1, <2>2 DEF Tells
  <2>4. k = Len(g.left)
    BY <2>1, <2>2, <2>3
  <2>5. x.event # "statechange"
    BY <1>4, <2>1, <2>2
  <2>6. \A h \in DOMAIN next : next[h].event = "statechange" => h \in DOMAIN told /\ next[h] = told[h]
    BY <1>5, <2>5
  <2>7. QED
    BY <2>3, <2>4, <2>6
<1>7. WasSo(all, next)
  <2> SUFFICES ASSUME NEW h \in DOMAIN next, next[h].event = "statechange"
               PROVE  /\ next[h].session \in DOMAIN all /\ next[h].revision \in Nat
                      /\ next[h].revision <= all[next[h].session].state.revision
    BY DEF WasSo
  <2>1. CASE h \in DOMAIN told
    BY <1>1, <1>5, <2>1 DEF WasSo
  <2>2. CASE next[h] = x
    BY <1>4, <2>2
  <2>3. QED
    BY <1>5, <2>1, <2>2
<1>8. InOrder(next)
  <2> SUFFICES ASSUME NEW m \in DOMAIN next, NEW n \in DOMAIN next, m < n,
                      next[m].session = next[n].session,
                      next[m].event = "statechange", next[n].event = "statechange"
               PROVE  next[m].revision < next[n].revision
    BY DEF InOrder
  <2>1. CASE n \in DOMAIN told
    <3>1. m \in DOMAIN told /\ next[m] = told[m] /\ next[n] = told[n]
      BY <1>5, <2>1
    <3>2. QED
      BY <1>1, <2>1, <3>1 DEF InOrder
  <2>2. CASE n = Len(told) + 1 /\ next[n] = x
    <3>1. m \in DOMAIN told /\ next[m] = told[m]
      BY <1>5, <2>2
    <3>2. QED
      BY <1>4, <2>2, <3>1
  <2>3. QED
    BY <1>5, <2>1, <2>2
<1>9. QED
  BY <1>5, <1>6, <1>7, <1>8

LEMMA NotifyKeeps ==
  ASSUME WebHolds, Web!Notify
  PROVE  WebHolds'
<1>1. PICK f : f = Web!Last(stack)
  OBVIOUS
<1>2. /\ stack # <<>> /\ f.kind = "notify" /\ UNCHANGED <<sessions, active, screen, webEnded, portCalled>>
      /\ \/ stack' = Web!Front(stack) /\ notifying' = FALSE /\ UNCHANGED heard
         \/ /\ f.left # <<>> /\ UNCHANGED notifying
            /\ stack' = Append(Web!Front(stack), [kind |-> "notify", left |-> Tail(f.left)])
            /\ heard' = IF webEnded THEN heard ELSE Append(heard, Head(f.left))
  BY <1>1 DEF Web!Notify
<1>3. /\ IsSequence(Web!Front(stack)) /\ Len(stack) \in Nat \ {0} /\ DOMAIN stack = 1..Len(stack)
      /\ DOMAIN Web!Front(stack) = 1..(Len(stack) - 1) /\ Len(Web!Front(stack)) = Len(stack) - 1
      /\ \A n \in 1..(Len(stack) - 1) : Web!Front(stack)[n] = stack[n]
      /\ f = stack[Len(stack)]
  BY <1>1, <1>2, Shortened DEF WebHolds
<1>4. /\ \A n \in 1..(Len(stack) - 1) : n \in DOMAIN stack /\ stack[n].kind # "notify"
      /\ \A n \in DOMAIN stack : n \in 1..(Len(stack) - 1) \/ stack[n].kind = "notify"
  <2>1. Web!Last(stack).kind \notin {"mount", "release"}
    BY <1>1, <1>2
  <2>2. \A n \in DOMAIN stack : n \in 1..(Len(stack) - 1) \/ n = Len(stack)
    BY <1>3
  <2>3. QED
    BY <1>2, <1>3, <2>1, <2>2, NothingTellsBelow
<1>5. notifying /\ Tells(f, sessions, heard)
  <2>1. FrameHolds(Len(stack))
    BY <1>3 DEF WebHolds
  <2>2. QED
    BY <1>2, <1>3, <2>1 DEF FrameHolds
<1>6. active' \in {0} \cup DOMAIN sessions' /\ screen' \subseteq DOMAIN sessions'
  BY <1>2 DEF WebHolds
<1>7. IsSequence(sessions') /\ \A n \in DOMAIN sessions' : IsSession(sessions'[n])
  BY <1>2 DEF WebHolds
<1>8. CASE stack' = Web!Front(stack) /\ notifying' = FALSE /\ UNCHANGED heard
  <2>1. \A n \in DOMAIN stack' : FrameHolds(n)'
    <3> TAKE n \in DOMAIN stack'
    <3>1. \A m \in DOMAIN stack' :
            m \in 1..(Len(stack) - 1) /\ m \in DOMAIN stack /\ stack'[m] = stack[m]
      BY <1>3, <1>4, <1>8
    <3>2. Grows(sessions, sessions')
      BY <1>2 DEF Grows
    <3>3. QED
      BY <1>2, <1>4, <3>1, <3>2, CallStays
  <2>2. Web!ChangesAreHeardInOrder' /\ IsSequence(heard') /\ WasSo(sessions', heard')
    BY <1>2, <1>8 DEF WebHolds, Web!ChangesAreHeardInOrder
  <2>3. Web!ScreenIsActive'
    <3>1. \A n \in DOMAIN stack : stack[n].kind = "release" =>
            n \in DOMAIN stack' /\ stack'[n] = stack[n]
      BY <1>3, <1>4, <1>8
    <3>2. QED
      BY <1>2, <3>1, ScreenStays
  <2>4. QED
    BY <1>3, <1>6, <1>7, <1>8, <2>1, <2>2, <2>3 DEF WebHolds
<1>9. CASE /\ f.left # <<>> /\ UNCHANGED notifying
           /\ stack' = Append(Web!Front(stack), [kind |-> "notify", left |-> Tail(f.left)])
           /\ heard' = IF webEnded THEN heard ELSE Append(heard, Head(f.left))
  <2> DEFINE g == [kind |-> "notify", left |-> Tail(f.left)]
  <2>1. g.kind = "notify" /\ g.left = Tail(f.left) /\ stack' = Append(Web!Front(stack), g)
    BY <1>9
  <2> HIDE DEF g
  <2>2. PICK next : next = heard'
    OBVIOUS
  <2>3. TellsNext(f, g, sessions, heard, next)
    <3>1. InOrder(heard) /\ WasSo(sessions, heard) /\ IsSequence(heard)
      BY DEF WebHolds, Web!ChangesAreHeardInOrder, InOrder
    <3>2. QED
      BY <1>5, <1>9, <2>1, <2>2, <3>1 DEF TellsNext
  <2>4. Tells(g, sessions, next) /\ WasSo(sessions, next) /\ InOrder(next) /\ IsSequence(next)
    BY <2>3, ToldNext
  <2>5. Web!ChangesAreHeardInOrder'
    BY <2>2, <2>4 DEF Web!ChangesAreHeardInOrder, InOrder
  <2>6. Tells(g, sessions', heard') /\ WasSo(sessions', heard') /\ IsSequence(heard')
    BY <1>2, <2>2, <2>4
  <2>7. /\ IsSequence(stack') /\ DOMAIN stack' = 1..(Len(stack) - 1 + 1)
        /\ \A n \in 1..(Len(stack) - 1) : stack'[n] = stack[n]
        /\ stack'[Len(stack) - 1 + 1] = g
    <3>1. PICK front : front = Web!Front(stack)
      OBVIOUS
    <3>2. /\ IsSequence(Append(front, g)) /\ DOMAIN Append(front, g) = 1..(Len(front) + 1)
          /\ \A n \in 1..Len(front) : Append(front, g)[n] = front[n]
          /\ Append(front, g)[Len(front) + 1] = g
      BY <1>3, <3>1, Appended
    <3>3. stack' = Append(front, g) /\ Len(front) = Len(stack) - 1
          /\ \A n \in 1..(Len(stack) - 1) : front[n] = stack[n]
      BY <1>3, <2>1, <3>1
    <3>4. QED
      BY <3>2, <3>3
  <2>8. /\ \A n \in DOMAIN stack' : n \in 1..(Len(stack) - 1) \/ n = Len(stack) - 1 + 1
        /\ \A m \in DOMAIN stack' : ~(m > Len(stack) - 1 + 1)
    BY <1>3, <2>7
  <2>9. \A n \in DOMAIN stack' : FrameHolds(n)'
    <3> TAKE n \in DOMAIN stack'
    <3>1. CASE n \in 1..(Len(stack) - 1)
      <4>1. Grows(sessions, sessions')
        BY <1>2 DEF Grows
      <4>2. \A m \in DOMAIN stack' : stack'[m].kind = "mount" =>
              m \in DOMAIN stack /\ stack'[m] = stack[m]
        BY <1>4, <2>1, <2>7, <2>8
      <4>3. QED
        BY <1>2, <1>4, <2>7, <3>1, <4>1, <4>2, CallStays
    <3>2. CASE n = Len(stack) - 1 + 1
      <4>1. stack'[n] = g /\ notifying' /\ \A m \in DOMAIN stack' : ~(m > n)
        BY <1>5, <1>9, <2>7, <2>8, <3>2
      <4>2. QED
        BY <2>1, <2>6, <4>1 DEF FrameHolds
    <3>3. QED
      BY <2>8, <3>1, <3>2
  <2>10. Web!ScreenIsActive'
    <3>1. \A n \in 1..(Len(stack) - 1) : n \in DOMAIN stack'
      <4>1. PICK l \in Nat : l = Len(stack)
        BY <1>3
      <4>2. \A n \in 1..(l - 1) : n \in 1..(l - 1 + 1)
        BY <4>1
      <4>3. QED
        BY <2>7, <4>1, <4>2
    <3>2. \A n \in DOMAIN stack : stack[n].kind = "release" =>
            n \in DOMAIN stack' /\ stack'[n] = stack[n]
      BY <1>4, <2>7, <3>1
    <3>3. QED
      BY <1>2, <3>2, ScreenStays
  <2>11. QED
    BY <1>6, <1>7, <2>5, <2>6, <2>7, <2>9, <2>10 DEF WebHolds
<1>10. QED
  BY <1>2, <1>8, <1>9

LEMMA WebStarts ==
  ASSUME Web!Init
  PROVE  WebHolds
<1>1. sessions = <<>> /\ active = 0 /\ screen = {} /\ webEnded = FALSE /\ stack = <<>> /\ heard = <<>>
  BY DEF Web!Init
<1>2. IsSequence(<<>>) /\ DOMAIN <<>> = {}
  <2>1. <<>> \in Seq({})
    OBVIOUS
  <2>2. QED
    BY <2>1 DEF IsSequence
<1>3. QED
  BY <1>1, <1>2 DEF WebHolds, WasSo, Web!ScreenIsActive, Web!ChangesAreHeardInOrder

LEMMA WebStep ==
  ASSUME WebHolds, [Web!Next]_(Web!vars)
  PROVE  WebHolds'
<1>1. CASE Web!Mount
  BY <1>1, MountKeeps
<1>2. CASE Web!Mounted
  BY <1>2, MountedKeeps
<1>3. CASE Web!NotMounted
  BY <1>3, NotMountedKeeps
<1>4. CASE Web!Reduced
  BY <1>4, ReducedKeeps
<1>5. CASE Web!Notify
  BY <1>5, NotifyKeeps
<1>6. CASE Web!Unmount \/ Web!Dispose
  BY <1>6, ReleaseKeeps DEF Web!Unmount, Web!Dispose, Asked
<1>7. CASE Web!Released
  BY <1>7, ReleasedKeeps
<1>8. ASSUME NEW action \in Action, Web!Dispatch(action) PROVE WebHolds'
  BY <1>8, DispatchKeeps
<1>9. ASSUME NEW patch \in Patch, Web!HostPatch(patch) PROVE WebHolds'
  BY <1>9, HostPatchKeeps
<1>10. CASE UNCHANGED Web!vars
  <2>1. UNCHANGED <<sessions, active, screen, notifying, webEnded, stack, heard, portCalled>>
    BY <1>10 DEF Web!vars
  <2>2. QED
    BY <2>1 DEF WebHolds, FrameHolds, Mounts, Web!ScreenIsActive, Web!ChangesAreHeardInOrder
<1>11. QED
  BY <1>1, <1>2, <1>3, <1>4, <1>5, <1>6, <1>7, <1>8, <1>9, <1>10 DEF Web!Next

\* The inductive invariant of the web SDK, whatever the host calls from its callbacks.
THEOREM WebHoldsAlways == Web!Spec => []WebHolds
<1>1. Web!Init => WebHolds
  BY WebStarts
<1>2. WebHolds /\ [Web!Next]_(Web!vars) => WebHolds'
  BY WebStep
<1>3. QED
  BY <1>1, <1>2, PTL DEF Web!Spec

\* The active experience is on the screen with its session open, whatever the host calls
\* from any callback; and while the DOM port did not itself mount or dispose, what is on
\* the screen is active or being taken down, and a disposed instance has no experience.
THEOREM TheScreenIsTheActive == Web!Spec => []Web!ScreenIsActive
<1>1. WebHolds => Web!ScreenIsActive
  BY DEF WebHolds
<1>2. QED
  BY <1>1, WebHoldsAlways, PTL

\* The listeners of the web SDK hear of the revisions of an experience in order, each once,
\* whatever they call while they are told.
THEOREM RevisionsAreHeardInOrder == Web!Spec => []Web!ChangesAreHeardInOrder
<1>1. WebHolds => Web!ChangesAreHeardInOrder
  BY DEF WebHolds
<1>2. QED
  BY <1>1, WebHoldsAlways, PTL

Lossless ==
  \A n \in DOMAIN sessions :
    sessions'[n].state # sessions[n].state =>
      \E action \in Reducible :
        Web!Reduce(sessions[n].state, action, Rules)
          = [ok |-> TRUE, state |-> sessions'[n].state, effect |-> "none"]

\* A session that is closed, or none: no state changes.
LEMMA ClosingChangesNothing ==
  ASSUME WebHolds, NEW x \in DOMAIN sessions,
         sessions' = sessions \/ sessions' = [sessions EXCEPT ![x].disposed = TRUE]
  PROVE  \A n \in DOMAIN sessions : sessions'[n].state = sessions[n].state
<1>1. CASE sessions' = sessions
  BY <1>1
<1>2. CASE sessions' = [sessions EXCEPT ![x].disposed = TRUE]
  <2>1. PICK next : next = sessions'
    OBVIOUS
  <2>2. \A n \in DOMAIN sessions : next[n].state = sessions[n].state
    BY <1>2, <2>1, Closed
  <2>3. QED
    BY <2>1, <2>2
<1>3. QED
  BY <1>1, <1>2

LEMMA OnlyReducedChanges ==
  ASSUME WebHolds, [Web!Next]_(Web!vars), ~Web!Reduced
  PROVE  Lossless
<1> SUFFICES \A n \in DOMAIN sessions : sessions'[n].state = sessions[n].state
  BY DEF Lossless
<1>1. CASE Web!Mount
  <2>1. sessions' = Append(sessions, [state |-> Web!NewState(FirstPlan), disposed |-> FALSE])
    BY <1>1 DEF Web!Mount
  <2>2. \A n \in DOMAIN sessions : sessions'[n] = sessions[n]
    BY <2>1, Appended DEF WebHolds
  <2>3. QED
    BY <2>2
<1>2. CASE Web!Mounted
  <2>1. stack # <<>> /\ Web!Last(stack).kind = "mount"
    BY <1>2 DEF Web!Mounted
  <2>2. Len(stack) \in DOMAIN stack /\ Web!Last(stack) = stack[Len(stack)]
    BY <2>1, Shortened DEF WebHolds
  <2>3. Web!Last(stack).session \in DOMAIN sessions
    BY <2>1, <2>2 DEF WebHolds, FrameHolds, Mounts
  <2>4. sessions' = sessions \/ sessions'
          = [sessions EXCEPT ![Web!Last(stack).session].disposed = TRUE]
    BY <1>2 DEF Web!Mounted
  <2>5. QED
    BY <2>3, <2>4, ClosingChangesNothing
<1>3. CASE Web!Release
  <2>1. sessions' = sessions \/ (active # 0 /\ sessions' = [sessions EXCEPT ![active].disposed = TRUE])
    BY <1>3 DEF Web!Release
  <2>2. active # 0 => active \in DOMAIN sessions
    BY DEF WebHolds
  <2>3. CASE sessions' = sessions
    BY <2>3
  <2>4. CASE active # 0 /\ sessions' = [sessions EXCEPT ![active].disposed = TRUE]
    BY <2>2, <2>4, ClosingChangesNothing
  <2>5. QED
    BY <2>1, <2>3, <2>4
<1>4. CASE sessions' = sessions
  BY <1>4
<1>5. QED
  BY <1>1, <1>2, <1>3, <1>4 DEF Web!Next, Web!vars, Web!NotMounted, Web!Notify, Web!Unmount,
                                Web!Dispose, Web!Released, Web!Dispatch, Web!HostPatch

LEMMA ReducedIsLossless ==
  ASSUME WebHolds, Web!Reduced
  PROVE  Lossless
<1>1. PICK frame, old, result :
        /\ frame = Web!Last(stack) /\ old = sessions[frame.session].state
        /\ result = Outcome(frame)
  OBVIOUS
<1>2. frame.kind \in {"process", "patch"} /\ Reduces(frame, sessions)
  BY <1>1, ReducedIs
<1>3. CASE sessions' = sessions
  BY <1>3 DEF Lossless
<1>4. CASE /\ result.ok /\ Web!Binds(old, result.state)
           /\ sessions' = [sessions EXCEPT ![frame.session].state = result.state]
  <2>1. Leads(frame, old, result)
    BY <1>1, <1>2, <1>4 DEF Leads
  <2>2. /\ IsState(result.state)
        /\ result.state = old \/ result.state.revision = old.revision + 1
        /\ result.state # old =>
             Web!Reduce(old, frame.action, Rules) = [ok |-> TRUE, state |-> result.state,
               effect |-> "none"]
    BY <2>1, OutcomeFollows
  <2>3. frame.session \in DOMAIN sessions /\ frame.action \in Reducible
    BY <1>2 DEF Reduces
  <2>4. PICK next, new : next = sessions' /\ new = result.state
    OBVIOUS
  <2>5. GoesOn(frame.session, new, next)
    BY <1>1, <1>4, <2>2, <2>3, <2>4 DEF GoesOn
  <2>6. \A m \in DOMAIN sessions : next[m].state = IF m = frame.session THEN new ELSE sessions[m].state
    BY <2>5, Advanced
  <2>7. \A n \in DOMAIN sessions : sessions'[n].state # sessions[n].state =>
          n = frame.session /\ sessions[n].state = old /\ sessions'[n].state = new
    BY <1>1, <2>4, <2>6
  <2>8. QED
    BY <2>2, <2>3, <2>4, <2>7 DEF Lossless
<1>5. QED
  BY <1>1, <1>3, <1>4, ReducedIs

\* No change of an experience's state in the web SDK is lost: each is computed from the
\* state it replaces, although a user event is reduced from a state read before the host's
\* id factory was called.
THEOREM NoChangeIsEverLost == Web!Spec => Web!NoChangeIsLost
<1>1. WebHolds /\ [Web!Next]_(Web!vars) => Lossless
  BY OnlyReducedChanges, ReducedIsLossless
<1>2. Lossless =>
        \A n \in DOMAIN sessions :
          LET old == sessions[n].state  new == sessions'[n].state
          IN  new # old =>
                \E action \in Action \cup {[type |-> "runtime.patch.apply",
                  patch |-> p] : p \in Patch} :
                  Web!Reduce(old, action, Rules) = [ok |-> TRUE, state |-> new, effect |-> "none"]
  BY DEF Lossless, Reducible
<1>3. WebHolds /\ [Web!Next]_(Web!vars) =>
        [\A n \in DOMAIN sessions :
          LET old == sessions[n].state  new == sessions'[n].state
          IN  new # old =>
                \E action \in Action \cup {[type |-> "runtime.patch.apply",
                  patch |-> p] : p \in Patch} :
                  Web!Reduce(old, action, Rules) = [ok |-> TRUE, state |-> new,
                    effect |-> "none"]]_sessions
  BY <1>1, <1>2
<1>4. QED
  BY <1>3, WebHoldsAlways, PTL DEF Web!Spec, Web!NoChangeIsLost

-----------------------------------------------------------------------------
(* The runtime core on iOS and on the web.                                     *)

Upto(S, n) == {s \in SUBSET S : Cardinality(s) <= n}

\* A question q: which of the two works, on what plan, and what its patch is.
StepOf(q, sofar, i) ==
  IF q.on = "ios"
  THEN IF sofar.ok THEN Native!NativeOperate(sofar.state, q.patch[i]) ELSE Native!Refused
  ELSE IF ~sofar.ok \/ ~Native!OperationApplies(sofar.state, q.patch[i]) THEN Native!Refused
       ELSE Native!Done(Native!Operate(sofar.state, q.patch[i]))

Beginning(q) == Native!Done(q.plan)

\* The equation that defines the fold over the sets of indices in D.
Follows(q, g, D) ==
  g = [s \in D |-> IF s = {} THEN Beginning(q)
                   ELSE LET i == Native!Max(s) IN StepOf(q, g[s \ {i}], i)]

FollowOf(q, S) == CHOOSE g : Follows(q, g, SUBSET S)

LEMMA LargestOf ==
  ASSUME NEW n \in Nat, NEW s \in SUBSET (1..n), s # {}
  PROVE  Native!Max(s) \in s /\ \A x \in s : x <= Native!Max(s)
<1> DEFINE Bounds == {m \in Nat : \A x \in s : x <= m}
<1>1. n \in Bounds /\ Bounds \subseteq Nat
  OBVIOUS
<1>2. PICK m \in Bounds : \A k \in Bounds : m <= k
  BY <1>1, LeastOf
<1>3. m \in s
  <2> SUFFICES ASSUME m \notin s PROVE FALSE
    OBVIOUS
  <2>1. \A x \in s : x \in Nat /\ x >= 1 /\ x <= m /\ x # m
    BY <1>2
  <2>2. m - 1 \in Nat /\ \A x \in s : x <= m - 1
    <3>1. m \in Nat
      BY <1>2
    <3>2. PICK x \in s : TRUE
      OBVIOUS
    <3>3. m >= 1
      BY <2>1, <3>1, <3>2
    <3> HIDE DEF Bounds
    <3>4. QED
      BY <2>1, <3>1, <3>3
  <2>3. m - 1 \in Bounds
    BY <2>2
  <2>4. QED
    BY <1>2, <2>3
<1>4. \A x \in s : m >= x
  BY <1>2
<1>5. Native!Max(s) \in s /\ \A y \in s : Native!Max(s) >= y
  BY <1>3, <1>4 DEF Native!Max
<1>6. QED
  BY <1>5

LEMMA FollowMore ==
  ASSUME NEW q, NEW l \in Nat, NEW n \in Nat, NEW g, Follows(q, g, Upto(1..l, n))
  PROVE  \E h : Follows(q, h, Upto(1..l, n + 1))
<1> DEFINE S == 1..l
           next(f, s) == IF s = {} THEN Beginning(q)
                         ELSE StepOf(q, f[s \ {Native!Max(s)}], Native!Max(s))
           h == [s \in Upto(S, n + 1) |-> next(g, s)]
<1>0. IsFiniteSet(S)
  BY FS_Interval
<1>1. \A s \in Upto(S, n) : s \in Upto(S, n + 1) /\ g[s] = next(g, s)
  <2> TAKE s \in Upto(S, n)
  <2>1. Cardinality(s) \in Nat
    BY <1>0, FS_Subset, FS_CardinalityType DEF Upto
  <2>2. s \in Upto(S, n + 1)
    BY <2>1 DEF Upto
  <2>3. g[s] = next(g, s)
    BY DEF Follows
  <2>4. QED
    BY <2>2, <2>3
<1>2. \A s \in Upto(S, n) : h[s] = g[s]
  BY <1>1
<1>3. \A s \in Upto(S, n + 1) : \A x \in s : s \ {x} \in Upto(S, n)
  <2> TAKE s \in Upto(S, n + 1)
  <2> TAKE x \in s
  <2>1. IsFiniteSet(s) /\ Cardinality(s) \in Nat /\ Cardinality(s) <= n + 1
    BY <1>0, FS_Subset, FS_CardinalityType DEF Upto
  <2>2. Cardinality(s \ {x}) = Cardinality(s) - 1
    BY <2>1, FS_RemoveElement
  <2>3. QED
    BY <2>1, <2>2 DEF Upto
<1>4. \A s \in Upto(S, n + 1) : next(g, s) = next(h, s)
  <2> TAKE s \in Upto(S, n + 1)
  <2>1. CASE s = {}
    BY <2>1
  <2>2. CASE s # {}
    <3> DEFINE x == Native!Max(s)
    <3>1. s \in SUBSET (1..l)
      BY DEF Upto
    <3>2. x \in s
      BY <2>2, <3>1, LargestOf
    <3>3. h[s \ {x}] = g[s \ {x}]
      BY <3>2, <1>2, <1>3
    <3> HIDE DEF h
    <3>4. QED
      BY <2>2, <3>3
  <2>3. QED
    BY <2>1, <2>2
<1>5. h = [s \in Upto(S, n + 1) |-> next(h, s)]
  BY <1>4
<1>6. Follows(q, h, Upto(S, n + 1))
  BY <1>5 DEF Follows
<1>7. QED
  BY <1>6

LEMMA FollowIsThere ==
  ASSUME NEW q, NEW l \in Nat
  PROVE  Follows(q, FollowOf(q, 1..l), SUBSET (1..l))
<1> DEFINE S == 1..l
           Bad == {n \in Nat : ~ \E g : Follows(q, g, Upto(S, n))}
<1>0. IsFiniteSet(S)
  BY FS_Interval
<1>1. Bad = {}
  <2> SUFFICES ASSUME Bad # {} PROVE FALSE
    OBVIOUS
  <2>1. PICK n \in Bad : \A m \in Bad : n <= m
    BY LeastOf
  <2>2. n # 0
    <3>1. Upto(S, 0) = {{}}
      <4> HIDE DEF S
      <4>1. \A s \in SUBSET S : Cardinality(s) <= 0 <=> s = {}
        BY <1>0, FS_Subset, FS_CardinalityType, FS_EmptySet
      <4>2. QED
        BY <4>1 DEF Upto
    <3>2. Follows(q, [s \in {{}} |-> Beginning(q)], {{}})
      BY DEF Follows
    <3>3. QED
      BY <3>1, <3>2
  <2>3. n - 1 \in Nat /\ ~(n - 1 \in Bad)
    BY <2>1, <2>2
  <2>4. PICK g : Follows(q, g, Upto(S, n - 1))
    BY <2>3
  <2>5. \E h : Follows(q, h, Upto(S, (n - 1) + 1))
    BY <2>3, <2>4, FollowMore
  <2>6. (n - 1) + 1 = n
    BY <2>1
  <2>7. QED
    BY <2>1, <2>5, <2>6
<1>2. Cardinality(S) \in Nat /\ Upto(S, Cardinality(S)) = SUBSET S
  <2>1. \A s \in SUBSET S : Cardinality(s) <= Cardinality(S)
    BY <1>0, FS_Subset
  <2>2. QED
    BY <1>0, <2>1, FS_CardinalityType DEF Upto
<1>3. \E g : Follows(q, g, Upto(S, Cardinality(S)))
  <2>1. Cardinality(S) \notin Bad
    BY <1>1
  <2>2. QED
    BY <2>1, <1>2
<1>4. \E g : Follows(q, g, SUBSET S)
  BY <1>2, <1>3
<1>5. QED
  BY <1>4 DEF FollowOf

\* What it has come to after n operations.
After(q, n) == FollowOf(q, 1..Len(q.patch))[1..n]

LEMMA AfterStep ==
  ASSUME NEW q, Len(q.patch) \in Nat
  PROVE  /\ After(q, 0) = Beginning(q)
         /\ \A n \in Nat : n < Len(q.patch) => After(q, n + 1) = StepOf(q, After(q, n), n + 1)
<1>0. PICK l \in Nat : l = Len(q.patch)
  OBVIOUS
<1>1. PICK f : f = FollowOf(q, 1..l)
  OBVIOUS
<1>2. f = [s \in SUBSET (1..l) |-> IF s = {} THEN Beginning(q)
             ELSE LET i == Native!Max(s) IN StepOf(q, f[s \ {i}], i)]
  <2>1. Follows(q, f, SUBSET (1..l))
    BY <1>1, FollowIsThere
  <2>2. QED
    BY <2>1 DEF Follows
<1>3. 1..0 = {} /\ f[{}] = Beginning(q)
  BY <1>2
<1>4. ASSUME NEW n \in Nat, n < l
      PROVE  f[1..(n + 1)] = StepOf(q, f[1..n], n + 1)
  <2> DEFINE s == 1..(n + 1)
  <2>1. s \in SUBSET (1..l) /\ s # {} /\ n + 1 \in s
    BY <1>4
  <2>2. Native!Max(s) \in s /\ \A x \in s : x <= Native!Max(s)
    BY <2>1, LargestOf
  <2>3. Native!Max(s) = n + 1
    BY <2>1, <2>2
  <2>4. s \ {n + 1} = 1..n
    BY <1>4
  <2>5. f[s] = StepOf(q, f[s \ {n + 1}], n + 1)
    <3> HIDE DEF s
    <3>1. QED
      BY <1>2, <2>1, <2>3
  <2>6. QED
    BY <2>4, <2>5
<1>5. QED
  BY <1>0, <1>1, <1>3, <1>4 DEF After

IsPlan(p) ==
  /\ p = [b \in Native!Bucket |-> p[b]]
  /\ \A b \in Native!Bucket : IsSequence(p[b])

IsOperation(o) ==
  /\ o.op \in {"append", "set", "remove", "replace"}
  /\ o.bucket \in Native!Bucket /\ o.at \in Nat

LEMMA ChangedIs ==
  ASSUME NEW s, IsSequence(s), NEW i \in 1..Len(s), NEW x
  PROVE  IsSequence(Native!RemoveAt(s, i)) /\ IsSequence([s EXCEPT ![i] = x])
<1>1. PICK S : s \in Seq(S)
  BY DEF IsSequence
<1>2. /\ SubSeq(s, 1, i - 1) \in Seq(S)
      /\ SubSeq(s, i + 1, Len(s)) \in Seq(S)
  BY <1>1
<1>3. Native!RemoveAt(s, i) \in Seq(S)
  BY <1>2 DEF Native!RemoveAt
<1>4. [s EXCEPT ![i] = x] \in Seq(S \cup {x})
  <2>1. s \in Seq(S \cup {x})
    BY <1>1
  <2>2. QED
    BY <2>1
<1>5. QED
  BY <1>3, <1>4 DEF IsSequence

\* Both make the same of an operation.
LEMMA OperateAgrees ==
  ASSUME NEW p, IsPlan(p), NEW o, IsOperation(o)
  PROVE  /\ Native!NativeOperate(p, o) = IF Native!OperationApplies(p, o)
                                         THEN Native!Done(Native!Operate(p, o)) ELSE Native!Refused
         /\ Native!OperationApplies(p, o) => IsPlan(Native!Operate(p, o))
<1> DEFINE list == p[o.bucket]
           i == o.at + 1
<1>1. PICK s : s = p[o.bucket]
  OBVIOUS
<1>2. IsSequence(s) /\ Len(s) \in Nat /\ DOMAIN s = 1..Len(s)
  BY <1>1, Appended DEF IsPlan, IsOperation
<1>3. i \in DOMAIN s <=> o.at < Len(s)
  BY <1>2 DEF IsOperation
<1>4. \A t : IsSequence(t) => IsPlan([p EXCEPT ![o.bucket] = t])
  BY DEF IsPlan, IsOperation
<1>5. CASE o.op = "append"
  <2>1. Native!Operate(p, o) = [p EXCEPT ![o.bucket] = Append(s, o.value)]
    BY <1>1, <1>5 DEF Native!Operate, IsPlan, IsOperation
  <2>2. Native!NativeOperate(p, o) = Native!Done([p EXCEPT ![o.bucket] = Append(s, o.value)])
    BY <1>1, <1>5 DEF Native!NativeOperate
  <2>3. Native!OperationApplies(p, o)
    BY <1>5 DEF Native!OperationApplies
  <2>4. IsSequence(Append(s, o.value))
    BY <1>2, Appended
  <2>5. QED
    BY <1>4, <2>1, <2>2, <2>3, <2>4
<1>6. CASE o.op = "remove"
  <2>1. Native!Operate(p, o) = [p EXCEPT ![o.bucket] = Native!RemoveAt(s, i)]
    BY <1>1, <1>6 DEF Native!Operate, IsPlan, IsOperation
  <2>2. Native!NativeOperate(p, o)
          = IF i \notin DOMAIN s THEN Native!Refused
            ELSE Native!Done([p EXCEPT ![o.bucket] = Native!RemoveAt(s, i)])
    BY <1>1, <1>6 DEF Native!NativeOperate
  <2>3. Native!OperationApplies(p, o) <=> o.at < Len(s)
    BY <1>1, <1>6 DEF Native!OperationApplies
  <2>4. i \in DOMAIN s => IsSequence(Native!RemoveAt(s, i))
    BY <1>2, ChangedIs
  <2>5. QED
    BY <1>3, <1>4, <2>1, <2>2, <2>3, <2>4
<1>7. CASE o.op \in {"set", "replace"}
  <2>1. Native!Operate(p, o) = [p EXCEPT ![o.bucket] = [s EXCEPT ![i] = o.value]]
    BY <1>1, <1>7 DEF Native!Operate, IsPlan, IsOperation
  <2>2. Native!NativeOperate(p, o)
          = IF i \notin DOMAIN s THEN Native!Refused
            ELSE Native!Done([p EXCEPT ![o.bucket] = [s EXCEPT ![i] = o.value]])
    BY <1>1, <1>7 DEF Native!NativeOperate
  <2>3. Native!OperationApplies(p, o) <=> o.at < Len(s)
    BY <1>1, <1>7 DEF Native!OperationApplies
  <2>4. i \in DOMAIN s => IsSequence([s EXCEPT ![i] = o.value])
    BY <1>2, ChangedIs
  <2>5. QED
    BY <1>3, <1>4, <2>1, <2>2, <2>3, <2>4
<1>8. QED
  BY <1>5, <1>6, <1>7 DEF IsOperation

Asks(on, plan, patch) == [on |-> on, plan |-> plan, patch |-> patch]

\* ... and of a patch, operation after operation.
LEMMA PatchesAgree ==
  ASSUME NEW p, IsPlan(p), NEW patch, Len(patch) \in Nat,
         \A i \in 1..Len(patch) : IsOperation(patch[i]),
         NEW n \in Nat, n <= Len(patch)
  PROVE  /\ After(Asks("ios", p, patch), n) = After(Asks("web", p, patch), n)
         /\ \/ After(Asks("ios", p, patch), n) = Native!Refused
            \/ \E plan : IsPlan(plan) /\ After(Asks("ios", p, patch), n) = Native!Done(plan)
<1> DEFINE a == Asks("ios", p, patch)
           b == Asks("web", p, patch)
           Right(k) == /\ After(a, k) = After(b, k)
                       /\ \/ After(a, k) = Native!Refused
                          \/ \E plan : IsPlan(plan) /\ After(a, k) = Native!Done(plan)
           Bad == {k \in Nat : k <= Len(patch) /\ ~Right(k)}
<1>1. /\ a.on = "ios" /\ b.on = "web" /\ a.plan = p /\ b.plan = p
      /\ a.patch = patch /\ b.patch = patch
  BY DEF Asks
<1> HIDE DEF a, b
<1>2. Bad = {}
  <2> SUFFICES ASSUME Bad # {} PROVE FALSE
    OBVIOUS
  <2>1. PICK k \in Bad : \A j \in Bad : k <= j
    BY LeastOf
  <2>2. k # 0
    <3>1. After(a, 0) = Native!Done(p) /\ After(b, 0) = Native!Done(p)
      BY <1>1, AfterStep DEF Beginning
    <3>2. Right(0)
      BY <3>1
    <3>3. QED
      BY <2>1, <3>2
  <2>3. PICK m \in Nat : k = m + 1
    <3>1. k \in Nat
      BY <2>1
    <3>2. k - 1 \in Nat /\ k = (k - 1) + 1
      BY <2>2, <3>1
    <3>3. QED
      BY <3>2
  <2>4. m < Len(patch) /\ m <= Len(patch) /\ m < k /\ m + 1 \in 1..Len(patch)
    BY <2>1, <2>3
  <2>5. Right(m)
    BY <2>1, <2>3, <2>4
  <2>6. /\ After(a, m + 1) = StepOf(a, After(a, m), m + 1)
        /\ After(b, m + 1) = StepOf(b, After(b, m), m + 1)
    BY <1>1, <2>4, AfterStep
  <2>7. \A sofar : StepOf(a, sofar, m + 1) =
                     IF sofar.ok THEN Native!NativeOperate(sofar.state, patch[m + 1])
                     ELSE Native!Refused
    BY <1>1 DEF StepOf
  <2>8. \A sofar : StepOf(b, sofar, m + 1) =
                     IF ~sofar.ok \/ ~Native!OperationApplies(sofar.state, patch[m + 1])
                     THEN Native!Refused
                     ELSE Native!Done(Native!Operate(sofar.state, patch[m + 1]))
    BY <1>1 DEF StepOf
  <2>9. CASE After(a, m) = Native!Refused
    <3>1. ~Native!Refused.ok
      BY DEF Native!Refused
    <3>2. After(a, m + 1) = Native!Refused /\ After(b, m + 1) = Native!Refused
      BY <2>5, <2>6, <2>7, <2>8, <2>9, <3>1
    <3>3. QED
      BY <2>1, <2>3, <3>2
  <2>10. CASE After(a, m) # Native!Refused
    <3>1. PICK plan : IsPlan(plan) /\ After(a, m) = Native!Done(plan)
      BY <2>5, <2>10
    <3>2. After(b, m) = Native!Done(plan)
      BY <2>5, <3>1
    <3>3. Native!Done(plan).ok = TRUE /\ Native!Done(plan).state = plan
      BY DEF Native!Done
    <3>4. IsOperation(patch[m + 1])
      BY <2>4
    <3>5. After(a, m + 1) = Native!NativeOperate(plan, patch[m + 1])
      BY <2>6, <2>7, <3>1, <3>3
    <3>6. After(b, m + 1) = IF ~Native!OperationApplies(plan, patch[m + 1]) THEN Native!Refused
                            ELSE Native!Done(Native!Operate(plan, patch[m + 1]))
      BY <2>6, <2>8, <3>2, <3>3
    <3>7. Right(m + 1)
      BY <3>1, <3>4, <3>5, <3>6, OperateAgrees
    <3>8. QED
      BY <2>1, <2>3, <3>7
  <2>11. QED
    BY <2>9, <2>10
<1>3. n \notin Bad
  BY <1>2
<1> HIDE DEF Right
<1>4. Right(n)
  BY <1>3
<1>5. QED
  BY <1>4 DEF Right, a, b

LEMMA FoldsAreAfter ==
  ASSUME NEW T, NEW patch \in Seq(T), NEW p
  PROVE  /\ Native!ApplyOperations(p, patch) = After(Asks("web", p, patch), Len(patch))
         /\ Native!FoldLeft(LAMBDA sofar, operation :
                              IF sofar.ok THEN Native!NativeOperate(sofar.state, operation)
                              ELSE Native!Refused,
                            Native!Done(p), patch) = After(Asks("ios", p, patch), Len(patch))
<1> DEFINE S == 1..Len(patch)
           OnWeb(g) == g = [s \in SUBSET S |->
             IF s = {} THEN Native!Done(p)
             ELSE LET i == Native!Max(s) IN
                  IF ~g[s \ {i}].ok \/ ~Native!OperationApplies(g[s \ {i}].state, patch[i])
                  THEN Native!Refused
                  ELSE Native!Done(Native!Operate(g[s \ {i}].state, patch[i]))]
           OnIos(g) == g = [s \in SUBSET S |->
             IF s = {} THEN Native!Done(p)
             ELSE LET i == Native!Max(s) IN
                  IF g[s \ {i}].ok THEN Native!NativeOperate(g[s \ {i}].state, patch[i])
                  ELSE Native!Refused]
<1>1. DOMAIN patch = S
  OBVIOUS
<1>2. Native!ApplyOperations(p, patch) = (CHOOSE g : OnWeb(g))[S]
  BY <1>1 DEF Native!ApplyOperations, Native!FoldLeft, Native!MapThenFoldSet
<1>3. Native!FoldLeft(LAMBDA sofar, operation :
                              IF sofar.ok THEN Native!NativeOperate(sofar.state, operation)
                              ELSE Native!Refused,
                            Native!Done(p), patch) = (CHOOSE g : OnIos(g))[S]
  BY <1>1 DEF Native!FoldLeft, Native!MapThenFoldSet
<1>4. PICK a : a = Asks("ios", p, patch)
  OBVIOUS
<1>5. PICK b : b = Asks("web", p, patch)
  OBVIOUS
<1>6. /\ a.on = "ios" /\ b.on = "web" /\ a.plan = p /\ b.plan = p
      /\ a.patch = patch /\ b.patch = patch
  BY <1>4, <1>5 DEF Asks
<1>7. \A g : OnWeb(g) <=> Follows(b, g, SUBSET S)
  BY <1>6 DEF Follows, StepOf, Beginning
<1>8. \A g : OnIos(g) <=> Follows(a, g, SUBSET S)
  BY <1>6 DEF Follows, StepOf, Beginning
<1>9. (CHOOSE g : OnWeb(g)) = FollowOf(b, S) /\ (CHOOSE g : OnIos(g)) = FollowOf(a, S)
  BY <1>7, <1>8 DEF FollowOf
<1>10. QED
  BY <1>2, <1>3, <1>4, <1>5, <1>6, <1>9 DEF After

LEMMA ConcatIs ==
  ASSUME NEW G, NEW s \in Seq(G), NEW t \in Seq(G)
  PROVE  /\ s \o t \in Seq(G) /\ Len(s \o t) = Len(s) + Len(t)
         /\ \A j \in 1..(Len(s) + Len(t)) :
              (s \o t)[j] = IF j <= Len(s) THEN s[j] ELSE t[j - Len(s)]
OBVIOUS

\* Where the list of a bucket begins among all the capabilities of a plan.
Before(p, x) ==
  CASE x = "required"  -> 0
    [] x = "available" -> Len(p["required"])
    [] x = "future"    -> Len(p["required"]) + Len(p["available"])

LEMMA LengthsAre ==
  ASSUME NEW p, IsPlan(p)
  PROVE  \A x \in Native!Bucket : Len(p[x]) \in Nat /\ DOMAIN p[x] = 1..Len(p[x])
BY Appended DEF IsPlan

AllOf(p) == p["required"] \o p["available"] \o p["future"]

\* All the capabilities are those of the buckets, each at a place of its own.
Placed(p, all) ==
  /\ Len(all) = Len(p["required"]) + Len(p["available"]) + Len(p["future"])
  /\ DOMAIN all = 1..Len(all)
  /\ \A x \in Native!Bucket : \A i \in DOMAIN p[x] :
       Before(p, x) + i \in DOMAIN all /\ all[Before(p, x) + i] = p[x][i]
  /\ \A k \in DOMAIN all : \E x \in Native!Bucket : \E i \in DOMAIN p[x] :
       k = Before(p, x) + i
  /\ \A x, y \in Native!Bucket : \A i \in DOMAIN p[x], j \in DOMAIN p[y] :
       Before(p, x) + i = Before(p, y) + j => x = y /\ i = j

LEMMA PlacesAre ==
  ASSUME NEW p, IsPlan(p), NEW all, all = AllOf(p)
  PROVE  Placed(p, all)
<1>1. PICK a : a = p["required"]
  OBVIOUS
<1>2. PICK b : b = p["available"]
  OBVIOUS
<1>3. PICK c : c = p["future"]
  OBVIOUS
<1>4. IsSequence(a) /\ IsSequence(b) /\ IsSequence(c)
  BY <1>1, <1>2, <1>3 DEF IsPlan, Native!Bucket
<1>5. PICK T : a \in Seq(T) /\ b \in Seq(T) /\ c \in Seq(T)
  <2>1. PICK A : a \in Seq(A)
    BY <1>4 DEF IsSequence
  <2>2. PICK B : b \in Seq(B)
    BY <1>4 DEF IsSequence
  <2>3. PICK C : c \in Seq(C)
    BY <1>4 DEF IsSequence
  <2>4. /\ a \in Seq(A \cup B \cup C) /\ b \in Seq(A \cup B \cup C)
        /\ c \in Seq(A \cup B \cup C)
    BY <2>1, <2>2, <2>3
  <2>5. QED
    BY <2>4
<1>6. PICK l \in Nat, m \in Nat, n \in Nat : l = Len(a) /\ m = Len(b) /\ n = Len(c)
  BY <1>5
<1>7. DOMAIN a = 1..l /\ DOMAIN b = 1..m /\ DOMAIN c = 1..n
  BY <1>5, <1>6
<1>8. /\ all \in Seq(T) /\ Len(all) = l + m + n
      /\ \A j \in 1..(l + m + n) :
           all[j] = IF j <= l THEN a[j] ELSE IF j <= l + m THEN b[j - l] ELSE c[j - (l + m)]
  <2> DEFINE ab == a \o b
  <2>1. /\ ab \in Seq(T) /\ Len(ab) = l + m
        /\ \A j \in 1..(l + m) : ab[j] = IF j <= l THEN a[j] ELSE b[j - l]
    BY <1>5, <1>6, ConcatIs
  <2>2. all = ab \o c
    BY <1>1, <1>2, <1>3 DEF AllOf
  <2> HIDE DEF ab
  <2>3. /\ all \in Seq(T) /\ Len(all) = (l + m) + n
        /\ \A j \in 1..((l + m) + n) :
             all[j] = IF j <= l + m THEN ab[j] ELSE c[j - (l + m)]
    <3>1. /\ ab \o c \in Seq(T) /\ Len(ab \o c) = Len(ab) + Len(c)
          /\ \A j \in 1..(Len(ab) + Len(c)) :
               (ab \o c)[j] = IF j <= Len(ab) THEN ab[j] ELSE c[j - Len(ab)]
      BY <1>5, <2>1, ConcatIs
    <3>2. Len(ab) = l + m /\ Len(c) = n
      BY <1>6, <2>1
    <3>3. QED
      BY <2>2, <3>1, <3>2
  <2>4. \A j \in 1..((l + m) + n) :
          all[j] = IF j <= l THEN a[j] ELSE IF j <= l + m THEN b[j - l] ELSE c[j - (l + m)]
    <3> TAKE j \in 1..((l + m) + n)
    <3>1. CASE j <= l + m
      <4>1. j \in 1..(l + m)
        BY <3>1
      <4>2. QED
        BY <2>1, <2>3, <3>1, <4>1
    <3>2. CASE ~(j <= l + m)
      <4>1. ~(j <= l)
        BY <1>6, <3>2
      <4>2. QED
        BY <2>3, <3>2, <4>1
    <3>3. QED
      BY <3>1, <3>2
  <2>5. QED
    BY <2>3, <2>4
<1>9. DOMAIN all = 1..(l + m + n)
  <2>1. IsSequence(all)
    BY <1>8 DEF IsSequence
  <2>2. DOMAIN all = 1..Len(all)
    BY <2>1, Appended
  <2>3. QED
    BY <1>8, <2>2
<1>10. /\ Before(p, "required") = 0 /\ Before(p, "available") = l /\ Before(p, "future") = l + m
  BY <1>1, <1>2, <1>6 DEF Before
<1>11. /\ p["required"] = a /\ p["available"] = b /\ p["future"] = c
  BY <1>1, <1>2, <1>3
<1>12. ASSUME NEW x \in Native!Bucket, NEW i \in DOMAIN p[x]
       PROVE  Before(p, x) + i \in DOMAIN all /\ all[Before(p, x) + i] = p[x][i]
  <2>1. CASE x = "required"
    <3>1. i \in 1..l
      BY <1>7, <1>11, <1>12, <2>1
    <3>2. i \in 1..(l + m + n) /\ i <= l
      BY <3>1
    <3>3. QED
      BY <1>8, <1>9, <1>10, <1>11, <2>1, <3>2
  <2>2. CASE x = "available"
    <3>1. i \in 1..m
      BY <1>7, <1>11, <1>12, <2>2
    <3>2. l + i \in 1..(l + m + n) /\ ~(l + i <= l) /\ l + i <= l + m /\ (l + i) - l = i
      BY <3>1
    <3>3. all[l + i] = b[i]
      BY <1>8, <3>2
    <3>4. QED
      BY <1>9, <1>10, <1>11, <2>2, <3>2, <3>3
  <2>3. CASE x = "future"
    <3>1. i \in 1..n
      BY <1>7, <1>11, <1>12, <2>3
    <3>2. /\ (l + m) + i \in 1..(l + m + n) /\ ~((l + m) + i <= l) /\ ~((l + m) + i <= l + m)
          /\ ((l + m) + i) - (l + m) = i
      BY <3>1
    <3>3. all[(l + m) + i] = c[i]
      BY <1>8, <3>2
    <3>4. QED
      BY <1>9, <1>10, <1>11, <2>3, <3>2, <3>3
  <2>4. QED
    BY <2>1, <2>2, <2>3 DEF Native!Bucket
<1>13. ASSUME NEW k \in DOMAIN all
       PROVE  \E x \in Native!Bucket : \E i \in DOMAIN p[x] : k = Before(p, x) + i
  <2>1. k \in 1..(l + m + n)
    BY <1>9
  <2>2. CASE k <= l
    <3>1. k \in DOMAIN p["required"] /\ k = Before(p, "required") + k
      BY <1>7, <1>10, <1>11, <2>1, <2>2
    <3>2. QED
      BY <3>1 DEF Native!Bucket
  <2>3. CASE ~(k <= l) /\ k <= l + m
    <3>1. k - l \in 1..m /\ k = l + (k - l)
      BY <2>1, <2>3
    <3>2. QED
      BY <1>7, <1>10, <1>11, <3>1 DEF Native!Bucket
  <2>4. CASE ~(k <= l + m)
    <3>1. k - (l + m) \in 1..n /\ k = (l + m) + (k - (l + m))
      BY <2>1, <2>4
    <3>2. QED
      BY <1>7, <1>10, <1>11, <3>1 DEF Native!Bucket
  <2>5. QED
    BY <2>2, <2>3, <2>4
<1>14. ASSUME NEW x \in Native!Bucket, NEW y \in Native!Bucket,
              NEW i \in DOMAIN p[x], NEW j \in DOMAIN p[y],
              Before(p, x) + i = Before(p, y) + j
       PROVE  x = y /\ i = j
  <2>1. \/ x = "required" /\ Before(p, x) = 0 /\ i \in 1..l
        \/ x = "available" /\ Before(p, x) = l /\ i \in 1..m
        \/ x = "future" /\ Before(p, x) = l + m /\ i \in 1..n
    BY <1>7, <1>10, <1>11 DEF Native!Bucket
  <2>2. \/ y = "required" /\ Before(p, y) = 0 /\ j \in 1..l
        \/ y = "available" /\ Before(p, y) = l /\ j \in 1..m
        \/ y = "future" /\ Before(p, y) = l + m /\ j \in 1..n
    BY <1>7, <1>10, <1>11 DEF Native!Bucket
  <2>3. QED
    BY <1>14, <2>1, <2>2
<1>15. Len(all) = Len(p["required"]) + Len(p["available"]) + Len(p["future"])
  BY <1>6, <1>8, <1>11
<1>16. DOMAIN all = 1..Len(all)
  BY <1>8, <1>9
<1>17. QED
  BY <1>12, <1>13, <1>14, <1>15, <1>16 DEF Placed

\* Both take the same for a plan.
LEMMA PlansAgree ==
  ASSUME NEW p, IsPlan(p)
  PROVE  Native!NativePlanIsValid(p) <=> Native!PlanIsValid(p)
<1>1. PICK all : all = AllOf(p)
  OBVIOUS
<1>2. /\ Len(all) = Len(p["required"]) + Len(p["available"]) + Len(p["future"])
      /\ \A x \in Native!Bucket : \A i \in DOMAIN p[x] :
           Before(p, x) + i \in DOMAIN all /\ all[Before(p, x) + i] = p[x][i]
      /\ \A k \in DOMAIN all : \E x \in Native!Bucket : \E i \in DOMAIN p[x] :
           k = Before(p, x) + i
      /\ \A x, y \in Native!Bucket : \A i \in DOMAIN p[x], j \in DOMAIN p[y] :
           Before(p, x) + i = Before(p, y) + j => x = y /\ i = j
  <2>1. Placed(p, all)
    BY <1>1, PlacesAre
  <2>2. QED
    BY <2>1 DEF Placed
<1> DEFINE Apart == \A x, y \in Native!Bucket : \A i \in DOMAIN p[x], j \in DOMAIN p[y] :
                      p[x][i] = p[y][j] => x = y /\ i = j
<1>3. ASSUME Apart PROVE \A k, h \in DOMAIN all : all[k] = all[h] => k = h
  <2> TAKE k, h \in DOMAIN all
  <2> HAVE all[k] = all[h]
  <2>1. PICK x \in Native!Bucket : \E i \in DOMAIN p[x] : k = Before(p, x) + i
    BY <1>2
  <2>2. PICK i \in DOMAIN p[x] : k = Before(p, x) + i
    BY <2>1
  <2>3. PICK y \in Native!Bucket : \E j \in DOMAIN p[y] : h = Before(p, y) + j
    BY <1>2
  <2>4. PICK j \in DOMAIN p[y] : h = Before(p, y) + j
    BY <2>3
  <2>5. all[k] = p[x][i] /\ all[h] = p[y][j]
    BY <1>2, <2>2, <2>4
  <2>6. x = y /\ i = j
    BY <1>3, <2>1, <2>2, <2>3, <2>4, <2>5
  <2>7. QED
    BY <2>2, <2>4, <2>6
<1>4. ASSUME \A k, h \in DOMAIN all : all[k] = all[h] => k = h PROVE Apart
  <2> SUFFICES ASSUME NEW x \in Native!Bucket, NEW y \in Native!Bucket,
                      NEW i \in DOMAIN p[x], NEW j \in DOMAIN p[y], p[x][i] = p[y][j]
               PROVE  x = y /\ i = j
    OBVIOUS
  <2>1. /\ Before(p, x) + i \in DOMAIN all /\ all[Before(p, x) + i] = p[x][i]
        /\ Before(p, y) + j \in DOMAIN all /\ all[Before(p, y) + j] = p[y][j]
    BY <1>2
  <2>2. Before(p, x) + i = Before(p, y) + j
    BY <1>4, <2>1
  <2>3. QED
    BY <1>2, <2>2
<1>5. Native!PlanIsValid(p) <=> /\ Len(all) <= MaxCapabilities
                                /\ \A k, h \in DOMAIN all : all[k] = all[h] => k = h
  BY <1>1 DEF AllOf, Native!PlanIsValid, Native!IsInjective
<1>6. Native!NativePlanIsValid(p) <=>
        /\ Len(p["required"]) + Len(p["available"]) + Len(p["future"]) <= MaxCapabilities
        /\ Apart
  BY DEF Native!NativePlanIsValid
<1> HIDE DEF Apart
<1>7. QED
  BY <1>2, <1>3, <1>4, <1>5, <1>6

CoreIs(c) ==
  /\ c = [revision |-> c.revision, lifecycle |-> c.lifecycle, plan |-> c.plan]
  /\ Native!StateIsValid(c)
  /\ IsPlan(c.plan)

\* The inductive invariant.
CoreHolds == Native!PolicyIsValid /\ CoreIs(core)

LEMMA ListsAre ==
  ASSUME NEW s, Native!IsList(s)
  PROVE  IsSequence(s) /\ Len(s) \in Nat /\ DOMAIN s = 1..Len(s)
<1>1. IsSequence(s)
  BY DEF Native!IsList, IsSequence
<1>2. QED
  BY <1>1, Appended

\* With one rule for an action it does not matter which is the first.
LEMMA EffectIsDecision ==
  ASSUME Native!CoreConstants, Native!PolicyIsValid, NEW type
  PROVE  /\ Native!Effect(type) = Native!Decision(Rules, type)
         /\ Native!Effect(type) \in {"allow", "confirm", "deny"}
<1> DEFINE Matching == {n \in DOMAIN Rules : Rules[n].id = type}
<1>1. Len(Rules) \in Nat /\ DOMAIN Rules = 1..Len(Rules)
  BY ListsAre DEF Native!CoreConstants
<1>2. \A n \in DOMAIN Rules : Rules[n].effect \in {"allow", "confirm", "deny"}
  BY DEF Native!CoreConstants
<1>3. \A m, n \in DOMAIN Rules : Rules[m].id = Rules[n].id => m = n
  BY DEF Native!PolicyIsValid
<1>4. CASE Matching = {}
  BY <1>4 DEF Native!Effect, Native!Decision
<1>5. CASE Matching # {}
  <2>1. PICK k : k \in DOMAIN Rules /\ Rules[k].id = type
    BY <1>5
  <2>2. \A n \in DOMAIN Rules : Rules[n].id = type <=> n = k
    BY <1>3, <2>1
  <2>3. (CHOOSE n \in DOMAIN Rules : Rules[n].id = type) = k
    BY <2>1, <2>2
  <2>4. Native!Effect(type) = Rules[k].effect
    BY <2>1, <2>3 DEF Native!Effect
  <2>5. Matching = {k} /\ k <= k
    BY <1>1, <2>1, <2>2
  <2>6. (CHOOSE n \in Matching : \A m \in Matching : n <= m) = k
    <3> HIDE DEF Matching
    <3>1. QED
      BY <2>5
  <2>7. Native!Decision(Rules, type) = Rules[k].effect
    BY <1>5, <2>6 DEF Native!Decision
  <2>8. QED
    BY <1>2, <2>1, <2>4, <2>7
<1>6. QED
  BY <1>4, <1>5

\* A patch that is published.
IsPatch(patch) == IsSequence(patch) /\ \A i \in 1..Len(patch) : IsOperation(patch[i])

LEMMA PatchesArePatches ==
  ASSUME Native!CoreConstants, NEW x \in NativeInteraction, x.action.type = "runtime.patch.apply"
  PROVE  IsPatch(x.action.patch)
<1>1. Native!IsList(x.action.patch)
  BY DEF Native!CoreConstants
<1>2. IsSequence(x.action.patch) /\ DOMAIN x.action.patch = 1..Len(x.action.patch)
  BY <1>1, ListsAre
<1>3. \A n \in DOMAIN x.action.patch : IsOperation(x.action.patch[n])
  BY DEF Native!CoreConstants, IsOperation
<1>4. QED
  BY <1>2, <1>3 DEF IsPatch

LEMMA PatchIs ==
  ASSUME NEW p, IsPlan(p), NEW patch, IsPatch(patch)
  PROVE  /\ Native!NativePatch(p, patch)
              = IF /\ Native!ApplyOperations(p, patch).ok
                   /\ Native!PlanIsValid(Native!ApplyOperations(p, patch).state)
                THEN Native!ApplyOperations(p, patch) ELSE Native!Refused
         /\ \/ Native!ApplyOperations(p, patch) = Native!Refused
            \/ \E plan : IsPlan(plan) /\ Native!ApplyOperations(p, patch) = Native!Done(plan)
<1>1. PICK T : patch \in Seq(T)
  BY DEF IsPatch, IsSequence
<1>2. Len(patch) \in Nat /\ \A i \in 1..Len(patch) : IsOperation(patch[i])
  BY <1>1 DEF IsPatch
<1>3. PICK ios : ios = After(Asks("ios", p, patch), Len(patch))
  OBVIOUS
<1>4. PICK web : web = Native!ApplyOperations(p, patch)
  OBVIOUS
<1>5. /\ ios = web
      /\ ios = Native!Refused \/ \E plan : IsPlan(plan) /\ ios = Native!Done(plan)
  <2>1. web = After(Asks("web", p, patch), Len(patch))
    BY <1>1, <1>4, FoldsAreAfter
  <2>2. Len(patch) <= Len(patch)
    BY <1>2
  <2>3. QED
    BY <1>2, <1>3, <2>1, <2>2, PatchesAgree
<1>6. Native!NativePatch(p, patch)
        = IF ios.ok /\ Native!NativePlanIsValid(ios.state) THEN ios ELSE Native!Refused
  BY <1>1, <1>3, FoldsAreAfter DEF Native!NativePatch
<1>7. ios.ok => (Native!NativePlanIsValid(ios.state) <=> Native!PlanIsValid(ios.state))
  <2>1. CASE ios = Native!Refused
    BY <2>1 DEF Native!Refused
  <2>2. CASE \E plan : IsPlan(plan) /\ ios = Native!Done(plan)
    <3>1. PICK plan : IsPlan(plan) /\ ios = Native!Done(plan)
      BY <2>2
    <3>2. ios.state = plan
      BY <3>1 DEF Native!Done
    <3>3. QED
      BY <3>1, <3>2, PlansAgree
  <2>3. QED
    BY <1>5, <2>1, <2>2
<1>8. QED
  BY <1>4, <1>5, <1>6, <1>7

LEMMA PreparedIsPreflight ==
  ASSUME CoreIs(core), NEW action
  PROVE  Native!Prepared(action) <=> Native!Preflight(core, action)
<1>1. core.lifecycle \in Native!Lifecycle
  BY DEF CoreIs, Native!StateIsValid
<1>2. \A to : Native!NativeCanTransition(core.lifecycle, to)
                <=> Native!CanTransition(core.lifecycle, to)
  BY <1>1 DEF Native!Lifecycle, Native!NativeCanTransition, Native!CanTransition
<1>3. CASE action.type = "runtime.patch.apply"
  BY <1>3 DEF Native!Prepared, Native!Preflight
<1>4. CASE action.type = "runtime.lifecycle.transition"
  BY <1>2, <1>4 DEF Native!Prepared, Native!Preflight
<1>5. CASE ~Native!BuiltIn(action)
  <2>1. action.type # "runtime.patch.apply" /\ action.type # "runtime.lifecycle.transition"
    BY <1>5 DEF Native!BuiltIn
  <2>2. QED
    BY <2>1 DEF Native!Prepared, Native!Preflight
<1>6. QED
  BY <1>3, <1>4, <1>5 DEF Native!BuiltIn

LEMMA ChangedState ==
  ASSUME NEW c, c = [revision |-> c.revision, lifecycle |-> c.lifecycle, plan |-> c.plan],
         NEW next, NEW x
  PROVE  /\ [c EXCEPT !.revision = next, !.plan = x]
              = [revision |-> next, lifecycle |-> c.lifecycle, plan |-> x]
         /\ [c EXCEPT !.revision = next, !.lifecycle = x]
              = [revision |-> next, lifecycle |-> x, plan |-> c.plan]
<1> DEFINE one == [revision |-> next, lifecycle |-> c.lifecycle, plan |-> c.plan]
           two == [revision |-> next, lifecycle |-> c.lifecycle, plan |-> x]
           three == [revision |-> next, lifecycle |-> x, plan |-> c.plan]
<1>1. [c EXCEPT !.revision = next] = one
  OBVIOUS
<1>2. [one EXCEPT !.plan = x] = two /\ [one EXCEPT !.lifecycle = x] = three
  OBVIOUS
<1> HIDE DEF one, two, three
<1>3. QED
  BY <1>1, <1>2 DEF two, three

\* A state that follows another is one, if its plan and lifecycle are.
LEMMA NextIsState ==
  ASSUME CoreIs(core), MaxSafe \in Nat, core.revision < MaxSafe,
         NEW l \in Native!Lifecycle, NEW p, IsPlan(p), Native!PlanIsValid(p)
  PROVE  CoreIs([revision |-> core.revision + 1, lifecycle |-> l, plan |-> p])
<1>1. core.revision + 1 \in 0..MaxSafe
  BY DEF CoreIs, Native!StateIsValid
<1>2. QED
  BY <1>1 DEF CoreIs, Native!StateIsValid

OnTheWeb(action, state, effect) ==
  Native!Reduce(core, action, Rules) = [ok |-> TRUE, state |-> state, effect |-> effect]

Same(action) ==
  \/ /\ Native!ReduceAllowed(action) = Native!Refused
     /\ Native!Reduce(core, action, Rules) = Native!Refused
  \/ \E s, effect : /\ CoreIs(s) /\ effect # "confirmation-required"
                    /\ Native!ReduceAllowed(action) = Native!Done(s)
                    /\ OnTheWeb(action, s, effect)

\* What may be done without a question both do alike.
LEMMA AllowedAgrees ==
  ASSUME Native!CoreConstants, CoreIs(core), NEW x \in NativeInteraction,
         Native!Prepared(x.action), Native!Decision(Rules, x.action.type) = "allow"
  PROVE  Same(x.action)
<1>0. MaxSafe \in Nat
  BY DEF Native!CoreConstants
<1>1. Native!Preflight(core, x.action)
  BY PreparedIsPreflight
<1>2. core = [revision |-> core.revision, lifecycle |-> core.lifecycle, plan |-> core.plan]
  BY DEF CoreIs
<1>3. \A next, y :
        /\ [core EXCEPT !.revision = next, !.plan = y]
             = [revision |-> next, lifecycle |-> core.lifecycle, plan |-> y]
        /\ [core EXCEPT !.revision = next, !.lifecycle = y]
             = [revision |-> next, lifecycle |-> y, plan |-> core.plan]
  BY <1>2, ChangedState
<1>4. /\ IsPlan(core.plan) /\ Native!PlanIsValid(core.plan)
      /\ core.lifecycle \in Native!Lifecycle /\ core.revision \in 0..MaxSafe
  BY DEF CoreIs, Native!StateIsValid
<1>5. CASE x.action.type = "runtime.patch.apply"
  <2>1. core.revision < MaxSafe
    BY <1>5 DEF Native!Prepared
  <2>2. PICK r : r = Native!ApplyPatch(core, x.action.patch)
    OBVIOUS
  <2>3. Native!Reduce(core, x.action, Rules)
          = IF r.ok THEN [ok |-> TRUE, state |-> r.state, effect |-> "none"] ELSE Native!Refused
    BY <1>1, <1>5, <2>2 DEF Native!Reduce
  <2>4. CASE x.action.patch = <<>>
    <3>1. r = Native!Done(core)
      BY <2>2, <2>4 DEF Native!ApplyPatch
    <3>2. Native!ReduceAllowed(x.action) = Native!Done(core)
      BY <1>5, <2>4 DEF Native!ReduceAllowed
    <3>3. OnTheWeb(x.action, core, "none")
      BY <2>3, <3>1 DEF OnTheWeb, Native!Done
    <3>4. QED
      BY <3>2, <3>3 DEF Same
  <2>5. CASE x.action.patch # <<>>
    <3>1. PICK a : a = Native!ApplyOperations(core.plan, x.action.patch)
      OBVIOUS
    <3>2. /\ Native!NativePatch(core.plan, x.action.patch)
               = IF a.ok /\ Native!PlanIsValid(a.state) THEN a ELSE Native!Refused
          /\ a = Native!Refused \/ \E plan : IsPlan(plan) /\ a = Native!Done(plan)
      <4>1. IsPatch(x.action.patch)
        BY <1>5, PatchesArePatches
      <4>2. QED
        BY <1>4, <3>1, <4>1, PatchIs
    <3>3. r = IF a.ok /\ Native!PlanIsValid(a.state)
              THEN Native!Done([core EXCEPT !.revision = core.revision + 1, !.plan = a.state])
              ELSE Native!Refused
      <4>1. core.revision # MaxSafe
        BY <1>0, <1>4, <2>1
      <4>2. QED
        BY <2>2, <2>5, <3>1, <4>1 DEF Native!ApplyPatch
    <3>4. PICK n : n = Native!NativePatch(core.plan, x.action.patch)
      OBVIOUS
    <3>5. Native!ReduceAllowed(x.action)
            = IF n.ok
              THEN Native!Done([core EXCEPT !.revision = core.revision + 1, !.plan = n.state])
              ELSE Native!Refused
      BY <1>5, <2>5, <3>4 DEF Native!ReduceAllowed
    <3>6. ~Native!Refused.ok
      BY DEF Native!Refused
    <3>7. CASE a.ok /\ Native!PlanIsValid(a.state)
      <4>1. PICK plan : IsPlan(plan) /\ a = Native!Done(plan)
        BY <3>2, <3>6, <3>7
      <4>2. a.ok = TRUE /\ a.state = plan
        BY <4>1 DEF Native!Done
      <4>3. n = a
        BY <3>2, <3>4, <3>7
      <4> DEFINE s == [core EXCEPT !.revision = core.revision + 1, !.plan = plan]
      <4>4. r = Native!Done(s) /\ Native!ReduceAllowed(x.action) = Native!Done(s)
        BY <3>3, <3>5, <3>7, <4>2, <4>3
      <4>5. s = [revision |-> core.revision + 1, lifecycle |-> core.lifecycle, plan |-> plan]
        BY <1>3, Zenon
      <4>6. CoreIs([revision |-> core.revision + 1, lifecycle |-> core.lifecycle, plan |-> plan])
        BY <1>0, <1>4, <2>1, <3>7, <4>1, <4>2, NextIsState
      <4> HIDE DEF s
      <4>7. CoreIs(s)
        BY <4>5, <4>6
      <4>8. r.ok = TRUE /\ r.state = s
        BY <4>4 DEF Native!Done
      <4>9. OnTheWeb(x.action, s, "none")
        BY <2>3, <4>8 DEF OnTheWeb
      <4>10. QED
        BY <4>4, <4>7, <4>9 DEF Same
    <3>8. CASE ~(a.ok /\ Native!PlanIsValid(a.state))
      <4>1. n = Native!Refused /\ r = Native!Refused
        BY <3>2, <3>3, <3>4, <3>8
      <4>2. QED
        BY <2>3, <3>5, <3>6, <4>1 DEF Same
    <3>9. QED
      BY <3>7, <3>8
  <2>6. QED
    BY <2>4, <2>5
<1>6. CASE x.action.type = "runtime.lifecycle.transition"
  <2>1. Native!CanTransition(core.lifecycle, x.action.target) /\ core.revision < MaxSafe
    BY <1>1, <1>6 DEF Native!Preflight
  <2> DEFINE s == [core EXCEPT !.revision = core.revision + 1, !.lifecycle = x.action.target]
  <2>2. Native!Transition(core, x.action.target) = Native!Done(s)
    BY <2>1 DEF Native!Transition
  <2>3. Native!ReduceAllowed(x.action) = Native!Done(s)
    BY <1>6 DEF Native!ReduceAllowed
  <2>4. s = [revision |-> core.revision + 1, lifecycle |-> x.action.target, plan |-> core.plan]
    BY <1>3, Zenon
  <2>5. x.action.target \in Native!Lifecycle
    BY <2>1 DEF Native!CanTransition, Native!Lifecycle
  <2> HIDE DEF s
  <2>6. CoreIs(s)
    BY <1>0, <1>4, <2>1, <2>4, <2>5, NextIsState
  <2>7. PICK r : r = Native!Transition(core, x.action.target)
    OBVIOUS
  <2>8. Native!Reduce(core, x.action, Rules)
          = IF r.ok THEN [ok |-> TRUE, state |-> r.state, effect |-> "none"] ELSE Native!Refused
    BY <1>1, <1>6, <2>7 DEF Native!Reduce
  <2>9. r.ok = TRUE /\ r.state = s
    BY <2>2, <2>7 DEF Native!Done
  <2>10. OnTheWeb(x.action, s, "none")
    BY <2>8, <2>9 DEF OnTheWeb
  <2>11. QED
    BY <2>3, <2>6, <2>10 DEF Same
<1>7. CASE ~Native!BuiltIn(x.action)
  <2>1. /\ x.action.type # "runtime.patch.apply"
        /\ x.action.type # "runtime.lifecycle.transition"
    BY <1>7 DEF Native!BuiltIn
  <2>2. Native!ReduceAllowed(x.action) = Native!Done(core)
    BY <2>1 DEF Native!ReduceAllowed
  <2>3. OnTheWeb(x.action, core, "host-action")
    BY <1>1, <2>1 DEF OnTheWeb, Native!Reduce
  <2>4. QED
    BY <2>2, <2>3 DEF Same
<1>8. QED
  BY <1>5, <1>6, <1>7 DEF Native!BuiltIn

\* Of every published action both make the same, and of a state they make a state.
LEMMA ActionsAgree ==
  ASSUME Native!CoreConstants, CoreHolds, NEW x \in NativeInteraction,
         NEW native, native = Native!Process(x.action),
         NEW web, web = Native!Reduce(core, x.action, Rules)
  PROVE  /\ IF web.ok /\ web.effect # "confirmation-required"
            THEN native = Native!Done(web.state) ELSE ~native.ok
         /\ native.ok => CoreIs(native.state)
<1>1. CoreIs(core) /\ Native!PolicyIsValid
  BY DEF CoreHolds
<1>2. PICK effect : effect = Native!Effect(x.action.type)
  OBVIOUS
<1>3. effect = Native!Decision(Rules, x.action.type) /\ effect \in {"allow", "confirm", "deny"}
  BY <1>1, <1>2, EffectIsDecision
<1>4. Native!Prepared(x.action) <=> Native!Preflight(core, x.action)
  BY <1>1, PreparedIsPreflight
<1>5. ~Native!Refused.ok
  BY DEF Native!Refused
<1>6. CASE effect = "deny" \/ ~Native!Preflight(core, x.action)
  <2>1. native = Native!Refused
    BY <1>2, <1>4, <1>6 DEF Native!Process
  <2>2. web = Native!Refused
    BY <1>3, <1>6 DEF Native!Reduce
  <2>3. QED
    BY <1>5, <2>1, <2>2
<1>7. CASE effect = "confirm" /\ Native!Preflight(core, x.action)
  <2>1. native = Native!Refused
    BY <1>2, <1>7 DEF Native!Process
  <2>2. web = [ok |-> TRUE, state |-> core, effect |-> "confirmation-required"]
    BY <1>3, <1>7 DEF Native!Reduce
  <2>3. web.effect = "confirmation-required"
    BY <2>2
  <2>4. QED
    BY <1>5, <2>1, <2>3
<1>8. CASE effect = "allow" /\ Native!Preflight(core, x.action)
  <2>1. native = Native!ReduceAllowed(x.action)
    BY <1>2, <1>4, <1>8 DEF Native!Process
  <2>2. Same(x.action)
    BY <1>1, <1>3, <1>4, <1>8, AllowedAgrees
  <2>3. CASE native = Native!Refused /\ web = Native!Refused
    BY <1>5, <2>3
  <2>4. CASE \E s, e : /\ CoreIs(s) /\ e # "confirmation-required"
                       /\ native = Native!Done(s) /\ OnTheWeb(x.action, s, e)
    <3>1. PICK s, e : /\ CoreIs(s) /\ e # "confirmation-required"
                      /\ native = Native!Done(s) /\ OnTheWeb(x.action, s, e)
      BY <2>4
    <3>2. web.ok = TRUE /\ web.effect = e /\ web.state = s
      BY <3>1 DEF OnTheWeb
    <3>3. native.ok = TRUE /\ native.state = s
      BY <3>1 DEF Native!Done
    <3>4. QED
      BY <3>1, <3>2, <3>3
  <2>5. QED
    BY <2>1, <2>2, <2>3, <2>4 DEF Same
<1>9. QED
  BY <1>3, <1>6, <1>7, <1>8

LEMMA CoreStarts ==
  ASSUME Native!CoreConstants, Native!Init
  PROVE  CoreHolds
<1>1. Native!PolicyIsValid /\ Native!NativePlanIsValid(FirstPlan)
  BY DEF Native!Init
<1>2. IsPlan(FirstPlan)
  <2>1. \A b \in Native!Bucket : IsSequence(FirstPlan[b])
    BY ListsAre DEF Native!CoreConstants
  <2>2. QED
    BY <2>1 DEF IsPlan, Native!CoreConstants
<1>3. Native!PlanIsValid(FirstPlan)
  BY <1>1, <1>2, PlansAgree
<1>4. PICK l \in {"active", "updating"} : core = [Native!NewState(FirstPlan) EXCEPT !.lifecycle = l]
  BY DEF Native!Init
<1>5. core = [revision |-> 0, lifecycle |-> l, plan |-> FirstPlan]
  BY <1>4 DEF Native!NewState
<1>6. core.revision = 0 /\ core.lifecycle = l /\ core.plan = FirstPlan
  BY <1>5
<1>7. core = [revision |-> core.revision, lifecycle |-> core.lifecycle, plan |-> core.plan]
  BY <1>5
<1>8. Native!StateIsValid(core)
  BY <1>3, <1>4, <1>6 DEF Native!StateIsValid, Native!Lifecycle, Native!CoreConstants
<1>9. QED
  BY <1>1, <1>2, <1>6, <1>7, <1>8 DEF CoreHolds, CoreIs

LEMMA CoreStep ==
  ASSUME Native!CoreConstants, CoreHolds, [Native!Next]_(Native!vars)
  PROVE  CoreHolds'
<1>1. core' = core \/ CoreIs(core')
  <2>1. CASE UNCHANGED Native!vars
    BY <2>1 DEF Native!vars, Native!sessionVars
  <2>2. ASSUME NEW x \in NativeInteraction, Native!Emit(x) PROVE CoreIs(core')
    <3>1. PICK r : r = Native!Process(x.action)
      OBVIOUS
    <3>2. r.ok /\ core' = r.state
      BY <2>2, <3>1 DEF Native!Emit, Native!Begin
    <3>3. QED
      BY <3>1, <3>2, ActionsAgree
  <2>3. ASSUME NEW x \in NativeInteraction, Native!EmitRefused(x) PROVE core' = core
    BY <2>3 DEF Native!EmitRefused, Native!sessionVars
  <2>4. CASE Native!HostMoves
    BY <2>4 DEF Native!HostMoves, Native!sessionVars
  <2>5. ASSUME NEW revision \in pushes, Native!Receive(revision) \/ Native!Lose(revision)
        PROVE  core' = core
    BY <2>5 DEF Native!Receive, Native!Lose, Native!sessionVars
  <2>6. ASSUME NEW outcome \in Native!Outcome, NEW moves \in BOOLEAN,
               Native!HostAnswers(outcome, moves)
        PROVE  core' = core
    BY <2>6 DEF Native!HostAnswers
  <2>7. CASE Native!AnswerTaken \/ Native!HostThrows
    BY <2>7 DEF Native!AnswerTaken, Native!HostThrows
  <2>8. CASE Native!DisposeExperience \/ Native!DisposeAdapter
    BY <2>8 DEF Native!DisposeExperience, Native!DisposeAdapter, Native!sessionVars
  <2>9. QED
    BY <2>1, <2>2, <2>3, <2>4, <2>5, <2>6, <2>7, <2>8 DEF Native!Next
<1>2. Native!PolicyIsValid' = Native!PolicyIsValid
  BY DEF Native!PolicyIsValid
<1>3. CoreIs(core)
  BY DEF CoreHolds
<1>4. CoreIs(core')
  BY <1>1, <1>3
<1>5. CoreIs(core)'
  BY <1>4 DEF CoreIs, Native!StateIsValid, Native!PlanIsValid, Native!IsInjective, IsPlan, IsSequence,
     Native!Lifecycle, Native!Bucket
<1>6. QED
  BY <1>2, <1>5 DEF CoreHolds

\* The session's state stays what the parser of a state accepts.
THEOREM CoreHoldsAlways ==
  ASSUME Native!CoreConstants
  PROVE  Native!Spec => []CoreHolds
<1>1. Native!Init => CoreHolds
  BY CoreStarts
<1>2. CoreHolds /\ [Native!Next]_(Native!vars) => CoreHolds'
  BY CoreStep
<1>3. QED
  BY <1>1, <1>2, PTL DEF Native!Spec

\* Whatever is published, and whatever has happened to the plan, the SDK of iOS makes of
\* an action what the web runtime makes of it, or refuses it where that refuses it or asks
\* (CoreAgreesWithWeb).
THEOREM TheCoresAgree ==
  ASSUME Native!CoreConstants
  PROVE  Native!Spec => []Native!CoreAgreesWithWeb
<1>1. CoreHolds => Native!CoreAgreesWithWeb
  BY ActionsAgree DEF Native!CoreAgreesWithWeb
<1>2. QED
  BY <1>1, CoreHoldsAlways, PTL
=============================================================================

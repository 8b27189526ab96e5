--------------------------- MODULE NativeExperience ---------------------------
(* An experience on iOS (sdk/ios): the runtime session, the adapter of the     *)
(* enterprise host, and the UIKit surface.  All run on the main actor, so what *)
(* interleaves is what the host does while an action of it is awaited: it      *)
(* pushes snapshots, early, late and out of order, and answers with one.       *)
EXTENDS RuntimeCore

CONSTANTS
  View, EntryView,  \* the views of the document
  Interaction,      \* published: [view, event, action, routes: [outcome -> view]]
  Rules, FirstPlan,
  MaxHost,       \* bound on the revision of the host's state
  MaxGeneration  \* VIRA_IOS_MAX_SAFE_INTEGER

VARIABLES
  hostAt, pushes,             \* the host's revision, and snapshots on their way
  held, fault, adapterEnded,  \* the adapter: currentSnapshot's revision, subscriptionFault, disposed
  core, view, generation, ended,
  flight,                     \* the action that the host has, or NoFlight
  painted, issue, surfaceEnded,  \* the surface: what it shows, lastIssue, disposed
  past                        \* the last action that came back: [from, said, at, taken]

hostVars    == <<hostAt, pushes>>
adapterVars == <<held, fault, adapterEnded>>
sessionVars == <<core, view, generation, ended, flight, past>>
surfaceVars == <<painted, issue, surfaceEnded>>
vars        == <<hostVars, adapterVars, sessionVars, surfaceVars>>

NoFlight == [at |-> "none"]
NoAnswer == [outcome |-> "none", revision |-> 0]
Nothing  == [said |-> "none"]
Outcome  == {"success", "empty", "error"}

\* What the parsers let through: a rule has one of three effects, a plan has lists
\* of capabilities, and a patch is a list of operations at positions of buckets.
IsList(s) == s \in Seq({s[i] : i \in DOMAIN s})

CoreConstants ==
  /\ MaxSafe \in Nat
  /\ IsList(Rules) /\ \A n \in DOMAIN Rules : Rules[n].effect \in {"allow", "confirm", "deny"}
  /\ FirstPlan = [b \in Bucket |-> FirstPlan[b]] /\ \A b \in Bucket : IsList(FirstPlan[b])
  /\ \A x \in Interaction : x.action.type = "runtime.patch.apply" =>
       /\ IsList(x.action.patch)
       /\ \A n \in DOMAIN x.action.patch :
            LET operation == x.action.patch[n] IN
            /\ operation.op \in {"append", "set", "remove", "replace"}
            /\ operation.bucket \in Bucket /\ operation.at \in Nat

-----------------------------------------------------------------------------
(* What the SDK computes.  It is not the web's code, nor generated from it.    *)

\* viraIOSNormalizeExperiencePlan: bucket after bucket, nothing in two places.
NativePlanIsValid(plan) ==
  /\ Len(plan["required"]) + Len(plan["available"]) + Len(plan["future"]) <= MaxCapabilities
  /\ \A a, b \in Bucket : \A i \in DOMAIN plan[a], j \in DOMAIN plan[b] :
       plan[a][i] = plan[b][j] => a = b /\ i = j

NativeCanTransition(from, to) ==
  CASE from = "created"  -> to \in {"mounting", "cancelled", "failed"}
    [] from = "mounting" -> to \in {"active", "cancelled", "failed"}
    [] from = "active"   -> to \in {"updating", "completed", "cancelled", "failed"}
    [] from = "updating" -> to \in {"active", "completed", "cancelled", "failed"}
    [] from \in {"completed", "cancelled", "failed"} -> to = "disposed"
    [] from = "disposed" -> FALSE

\* viraIOSPatchTarget, at a bucket: positions are those of what is there.
NativeOperate(plan, operation) ==
  LET entries == plan[operation.bucket]
      index == operation.at + 1
      becomes(next) == Done([plan EXCEPT ![operation.bucket] = next])
  IN  IF operation.op = "append" THEN becomes(Append(entries, operation.value))
      ELSE IF index \notin DOMAIN entries THEN Refused
      ELSE IF operation.op = "remove" THEN becomes(RemoveAt(entries, index))
      ELSE becomes([entries EXCEPT ![index] = operation.value])

\* Mutant: what comes out of a patch is taken for a plan.
PatchUnchecked(plan, patch) ==
  FoldLeft(LAMBDA sofar, operation :
             IF sofar.ok THEN NativeOperate(sofar.state, operation) ELSE Refused,
           Done(plan), patch)

\* viraIOSApplyPatch: the result must be a plan, what is on the way need not.
NativePatch(plan, patch) ==
  LET result == FoldLeft(LAMBDA sofar, operation :
                           IF sofar.ok THEN NativeOperate(sofar.state, operation) ELSE Refused,
                         Done(plan), patch)
  IN  IF result.ok /\ NativePlanIsValid(result.state) THEN result ELSE Refused

\* ViraIOSPermissionPolicy: one rule for an action; effect, denied without one.
PolicyIsValid == \A m, n \in DOMAIN Rules : Rules[m].id = Rules[n].id => m = n

Effect(type) ==
  IF \E n \in DOMAIN Rules : Rules[n].id = type
  THEN Rules[CHOOSE n \in DOMAIN Rules : Rules[n].id = type].effect
  ELSE "deny"

\* validateViraIOSDocumentProjectionIntegrity: an event of a view has one
\* interaction, and the routes of an interaction lead to views.
InteractionsFit ==
  \A x, y \in Interaction :
    /\ x.view \in View
    /\ \A outcome \in DOMAIN x.routes : x.routes[outcome] \in View
    /\ x.view = y.view /\ x.event = y.event => x = y

\* What an envelope must be to be mounted.
EnvelopeIsValid == EntryView \in View /\ InteractionsFit

\* What the renderers make of a view of a generation and the host's data.
Picture(v, g, revision) == [view |-> v, generation |-> g, revision |-> revision]

\* The adapter reads the host once, and then subscribes to it.
AdapterInit == held = 0 /\ fault = FALSE /\ adapterEnded = FALSE

\* create, of which an envelope, a policy or a state that is invalid makes nothing.
Init ==
  /\ EnvelopeIsValid /\ PolicyIsValid /\ NativePlanIsValid(FirstPlan)
  /\ hostAt = 0 /\ pushes = {}
  /\ AdapterInit
  /\ core \in {[NewState(FirstPlan) EXCEPT !.lifecycle = l] : l \in {"active", "updating"}}
  /\ view = EntryView /\ generation = 0 /\ ended = FALSE
  /\ flight = NoFlight
  /\ painted = Picture(EntryView, 0, 0)
  /\ issue = FALSE /\ surfaceEnded = FALSE
  /\ past = Nothing

Healthy == ~fault /\ ~adapterEnded

\* currentView: what is bound to data is read from the host.
CanView == ~ended /\ Healthy

-----------------------------------------------------------------------------
\* Mutant: a refresh that fails raises no issue.
RefreshSilently ==
  \/ ~fault' /\ ~adapterEnded /\ ~ended /\ ~surfaceEnded
     /\ painted' = Picture(view', generation', held')
     /\ issue' = FALSE
     /\ UNCHANGED surfaceEnded
  \/ UNCHANGED surfaceVars

\* The surface: refresh, over what is held and viewed after the step; without a
\* snapshot, or when a renderer fails, the old picture stays and an issue is raised.
Refresh ==
  \/ surfaceEnded /\ UNCHANGED surfaceVars
  \/ /\ ~surfaceEnded /\ ~fault' /\ ~adapterEnded /\ ~ended
     /\ painted' = Picture(view', generation', held')
     /\ issue' = FALSE
     /\ UNCHANGED surfaceEnded
  \/ /\ ~surfaceEnded
     /\ issue' = TRUE
     /\ UNCHANGED <<painted, surfaceEnded>>

-----------------------------------------------------------------------------
\* The host moves, and pushes what it moved to.
HostMoves ==
  /\ hostAt < MaxHost
  /\ hostAt' = hostAt + 1
  /\ pushes' = pushes \cup {hostAt + 1}
  /\ UNCHANGED <<adapterVars, sessionVars, surfaceVars>>

\* Mutant: whatever is pushed is taken.
ReceiveAnything(revision) ==
  /\ revision \in pushes
  /\ pushes' = pushes \ {revision}
  /\ IF ~Healthy \/ revision = held
     THEN UNCHANGED <<adapterVars, surfaceVars>>
     ELSE held' = revision /\ UNCHANGED <<fault, adapterEnded, view, generation>> /\ Refresh
  /\ UNCHANGED <<hostAt, sessionVars>>

\* receive: acceptSnapshot with poisonOnFailure.  A revision from before the
\* one held, or an invalid snapshot, ends all reading.
Receive(revision) ==
  /\ revision \in pushes
  /\ pushes' = pushes \ {revision}
  /\ IF ~Healthy \/ revision = held
     THEN UNCHANGED <<adapterVars, surfaceVars>>
     ELSE IF revision < held
     THEN fault' = TRUE /\ UNCHANGED <<held, adapterEnded, surfaceVars>>
     ELSE held' = revision /\ UNCHANGED <<fault, adapterEnded, view, generation>> /\ Refresh
  /\ UNCHANGED <<hostAt, sessionVars>>

\* A snapshot is lost on its way.
Lose(revision) ==
  /\ revision \in pushes
  /\ pushes' = pushes \ {revision}
  /\ UNCHANGED <<hostAt, adapterVars, sessionVars, surfaceVars>>

-----------------------------------------------------------------------------
\* Mutant: an action is prepared whatever the lifecycle.
PreparedAlways(action) ==
  action.type \in {"runtime.patch.apply", "runtime.lifecycle.transition"} => core.revision < MaxSafe

\* ViraIOSRuntimeCoreSession.prepare and reduceAllowed
Prepared(action) ==
  CASE action.type = "runtime.patch.apply" ->
         core.lifecycle \notin Terminal /\ core.revision < MaxSafe
    [] action.type = "runtime.lifecycle.transition" ->
         NativeCanTransition(core.lifecycle, action.target) /\ core.revision < MaxSafe
    [] OTHER -> core.lifecycle \notin Terminal

ReduceAllowed(action) ==
  CASE action.type = "runtime.lifecycle.transition" ->
         Done([core EXCEPT !.revision = @ + 1, !.lifecycle = action.target])
    [] action.type = "runtime.patch.apply" ->
         IF action.patch = <<>> THEN Done(core)
         ELSE LET plan == NativePatch(core.plan, action.patch)
              IN  IF plan.ok
                  THEN Done([core EXCEPT !.revision = @ + 1, !.plan = plan.state])
                  ELSE Refused
    [] OTHER -> Done(core)

BuiltIn(action) == action.type \in {"runtime.patch.apply", "runtime.lifecycle.transition"}

\* process: here an action that needs a confirmation is refused.
Process(action) ==
  IF Prepared(action) /\ Effect(action.type) = "allow" THEN ReduceAllowed(action)
  ELSE Refused

\* complete: a route opens another generation of views, if only of the same view.
Complete(routes, outcome) ==
  IF outcome \in DOMAIN routes
  THEN IF generation < MaxGeneration
       THEN view' = routes[outcome] /\ generation' = generation + 1
       ELSE UNCHANGED <<view, generation>>
  ELSE UNCHANGED <<view, generation>>

\* Mutant: an event is taken while the host has an action.
BeginInFlight(interaction) ==
  /\ CanView
  /\ interaction.view = view
  /\ LET result == Process(interaction.action)
     IN  /\ result.ok
         /\ core' = result.state
         /\ IF BuiltIn(interaction.action)
            THEN Complete(interaction.routes, "success") /\ UNCHANGED flight
            ELSE /\ flight' = [at |-> "host", from |-> view, routes |-> interaction.routes,
                               answer |-> NoAnswer]
                 /\ UNCHANGED <<view, generation>>
  /\ UNCHANGED <<hostVars, adapterVars, ended, past>>

\* dispatch, up to the host.  An action of the runtime core is complete at once.
Begin(interaction) ==
  /\ CanView /\ flight = NoFlight
  /\ interaction.view = view
  /\ LET result == Process(interaction.action)
     IN  /\ result.ok
         /\ core' = result.state
         /\ IF BuiltIn(interaction.action)
            THEN Complete(interaction.routes, "success") /\ UNCHANGED flight
            ELSE /\ flight' = [at |-> "host", from |-> view, routes |-> interaction.routes,
                               answer |-> NoAnswer]
                 /\ UNCHANGED <<view, generation>>
  /\ UNCHANGED <<hostVars, adapterVars, ended, past>>

\* An event of what the surface shows: refused when that is not what is current.
Fresh ==
  /\ painted.view = view /\ painted.generation = generation
  /\ Healthy /\ painted.revision = held

Emit(interaction) ==
  /\ ~surfaceEnded
  /\ Fresh
  /\ Begin(interaction)
  /\ IF BuiltIn(interaction.action) THEN Refresh ELSE UNCHANGED surfaceVars

EmitRefused(interaction) ==
  /\ ~surfaceEnded
  /\ Fresh
  /\ flight # NoFlight \/ interaction.view # view \/ ~Process(interaction.action).ok
  /\ UNCHANGED <<hostVars, adapterVars, sessionVars>>
  /\ Refresh

\* The host carries the action out, and answers with or without a snapshot.
HostAnswers(outcome, moves) ==
  /\ flight.at = "host"
  /\ moves => hostAt < MaxHost
  /\ hostAt' = IF moves THEN hostAt + 1 ELSE hostAt
  /\ pushes' \in IF moves THEN {pushes, pushes \cup {hostAt + 1}} ELSE {pushes}
  /\ flight' = [flight EXCEPT !.at = "answered",
                              !.answer = [outcome |-> outcome, revision |-> hostAt']]
  /\ UNCHANGED <<adapterVars, core, view, generation, ended, past, surfaceVars>>

\* The adapter's dispatch returns to the session's: a snapshot of the answer that
\* is older than the one held refuses the answer, and so does an adapter that
\* failed meanwhile; a refused answer takes the route of an error.
AnswerTaken ==
  /\ flight.at = "answered"
  /\ flight' = NoFlight
  /\ LET answer == flight.answer
         accepted == Healthy /\ answer.revision >= held
         taken == IF accepted THEN answer.outcome ELSE "error"
     IN  /\ held' = IF accepted THEN answer.revision ELSE held
         /\ IF ended THEN UNCHANGED <<view, generation, past>>
            ELSE /\ Complete(flight.routes, taken)
                 /\ past' = [from |-> flight.from, said |-> answer.outcome, at |-> answer.revision,
                             taken |-> taken, before |-> view, after |-> view']
  /\ UNCHANGED <<fault, adapterEnded>>
  /\ Refresh
  /\ UNCHANGED <<hostVars, core, ended>>

\* The host throws, or its connection is lost.
HostThrows ==
  /\ flight.at \in {"host", "answered"}
  /\ flight' = NoFlight
  /\ IF ended THEN UNCHANGED <<view, generation, past>>
     ELSE /\ Complete(flight.routes, "error")
          /\ past' = [from |-> flight.from, said |-> "error", at |-> held,
                      taken |-> "error", before |-> view, after |-> view']
  /\ UNCHANGED adapterVars
  /\ Refresh
  /\ UNCHANGED <<hostVars, core, ended>>

\* ViraExperience.dispose, and the adapter's, which is the application's.
DisposeExperience ==
  /\ ~ended
  /\ surfaceEnded' = TRUE /\ ended' = TRUE
  /\ UNCHANGED <<hostVars, adapterVars, core, view, generation, flight, past, painted, issue>>

DisposeAdapter ==
  /\ ~adapterEnded
  /\ adapterEnded' = TRUE
  /\ UNCHANGED <<hostVars, held, fault, sessionVars, surfaceVars>>

Next ==
  \/ HostMoves
  \/ \E revision \in pushes : Receive(revision) \/ Lose(revision)
  \/ \E interaction \in Interaction : Emit(interaction) \/ EmitRefused(interaction)
  \/ \E outcome \in Outcome, moves \in BOOLEAN : HostAnswers(outcome, moves)
  \/ AnswerTaken \/ HostThrows \/ DisposeExperience \/ DisposeAdapter

Spec == Init /\ [][Next]_vars

-----------------------------------------------------------------------------
\* What each part holds has its type.
TypeOK ==
  /\ hostAt \in 0..MaxHost /\ pushes \subseteq 0..MaxHost /\ held \in 0..hostAt
  /\ {fault, adapterEnded, ended, surfaceEnded, issue} \subseteq BOOLEAN
  /\ StateIsValid(core)
  /\ generation \in 0..MaxGeneration
  /\ flight.at \in {"none", "host", "answered"}

\* The screen shows the view, its generation and the host's revision that the
\* session and the adapter have, or it says that it does not; so an event is
\* never taken from a picture that was overtaken, and none is refused for long.
ScreenIsCurrent ==
  (~surfaceEnded /\ Healthy) =>
    issue \/ painted = Picture(view, generation, held)

\* The outcome of an action meets the view it was dispatched from, and it is
\* what the host said, unless the host's state overtook the answer or the
\* adapter failed.
OutcomeIsTheHosts ==
  /\ flight # NoFlight /\ ~ended => flight.from = view
  /\ past # Nothing =>
       /\ past.before = past.from
       /\ past.taken = past.said \/ ~Healthy \/ past.at < held

\* The SDK makes of an action what the web runtime makes of it, but for those
\* that must be confirmed, which here are refused.
CoreAgreesWithWeb ==
  \A interaction \in Interaction :
    LET native == Process(interaction.action)
        web == Reduce(core, interaction.action, Rules)
    IN  IF web.ok /\ web.effect # "confirmation-required"
        THEN native = Done(web.state) ELSE ~native.ok

\* What is shown never goes back to an earlier revision or generation.
ScreenNeverGoesBack ==
  [][/\ painted'.revision >= painted.revision
     /\ painted'.generation >= painted.generation]_painted
=============================================================================

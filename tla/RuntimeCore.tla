----------------------------- MODULE RuntimeCore -----------------------------
(* What the runtime core computes (packages/runtime-core): the permission     *)
(* decision, the lifecycle, a patch of a plan, and the reducer that puts them  *)
(* together.  A plan is its capability buckets, the part of it that a patch    *)
(* can make invalid; a capability is a name.                                   *)
EXTENDS Naturals, Sequences, SequencesExt

CONSTANTS
  MaxCapabilities,   \* EXPERIENCE_PLAN_MAX_CAPABILITIES
  MaxSafe            \* Number.MAX_SAFE_INTEGER

Bucket    == {"required", "available", "future"}
Lifecycle == {"created", "mounting", "active", "updating", "completed", "cancelled",
              "failed", "disposed"}
Terminal  == {"completed", "cancelled", "failed", "disposed"}

\* canTransitionRuntimeLifecycle
CanTransition(from, to) ==
  \/ from = "created" /\ to \in {"mounting", "cancelled", "failed"}
  \/ from = "mounting" /\ to \in {"active", "cancelled", "failed"}
  \/ from = "active" /\ to \in {"updating", "completed", "cancelled", "failed"}
  \/ from = "updating" /\ to \in {"active", "completed", "cancelled", "failed"}
  \/ from \in {"completed", "cancelled", "failed"} /\ to = "disposed"

\* The first rule about the action decides; without one it is denied.
Decision(rules, type) ==
  LET matching == {n \in DOMAIN rules : rules[n].id = type}
  IN  IF matching = {} THEN "deny"
      ELSE rules[CHOOSE n \in matching : \A m \in matching : n <= m].effect

-----------------------------------------------------------------------------
(* Plans and patches.  A bucket may be absent, which a plan normalises to the  *)
(* empty one; positions are the code's, from 0.                                *)

\* parseExperiencePlan: at most so many capabilities, each in one position.
PlanIsValid(plan) ==
  LET all == plan["required"] \o plan["available"] \o plan["future"]
  IN  Len(all) <= MaxCapabilities /\ IsInjective(all)

OperationApplies(plan, operation) ==
  CASE operation.op = "append"                -> TRUE
    [] operation.op \in {"set", "remove", "replace"} -> operation.at < Len(plan[operation.bucket])

Operate(plan, operation) ==
  [plan EXCEPT ![operation.bucket] =
     CASE operation.op = "append" -> Append(@, operation.value)
       [] operation.op = "remove" -> RemoveAt(@, operation.at + 1)
       [] operation.op \in {"set", "replace"} -> [@ EXCEPT ![operation.at + 1] = operation.value]]

\* applyRuntimePatch: the operations in order on a working copy; the first one
\* that does not apply, or a result that is not a plan, refuses the patch.
Refused == [ok |-> FALSE]
Done(state) == [ok |-> TRUE, state |-> state]

ApplyOperations(plan, patch) ==
  FoldLeft(LAMBDA sofar, operation :
             IF ~sofar.ok \/ ~OperationApplies(sofar.state, operation) THEN Refused
             ELSE Done(Operate(sofar.state, operation)),
           Done(plan), patch)

ApplyPatch(state, patch) ==
  IF patch = <<>> THEN Done(state)
  ELSE IF state.revision = MaxSafe THEN Refused
  ELSE LET result == ApplyOperations(state.plan, patch)
       IN  IF result.ok /\ PlanIsValid(result.state)
           THEN Done([state EXCEPT !.revision = @ + 1, !.plan = result.state])
           ELSE Refused

\* transitionRuntimeLifecycle
Transition(state, target) ==
  IF CanTransition(state.lifecycle, target) /\ state.revision < MaxSafe
  THEN Done([state EXCEPT !.revision = @ + 1, !.lifecycle = target])
  ELSE Refused

\* preflight: what is refused whether or not it needs to be confirmed first.
Preflight(state, action) ==
  CASE action.type = "runtime.patch.apply" ->
         state.lifecycle \notin Terminal /\ state.revision < MaxSafe
    [] action.type = "runtime.lifecycle.transition" ->
         CanTransition(state.lifecycle, action.target) /\ state.revision < MaxSafe
    [] OTHER -> state.lifecycle \notin Terminal

\* reduceRuntime: an action that must be confirmed, and one that is the host's,
\* leave the state and answer an effect.
Reduce(state, action, rules) ==
  LET permission == Decision(rules, action.type)
      leaves(effect) == [ok |-> TRUE, state |-> state, effect |-> effect]
      becomes(result) == IF result.ok THEN [ok |-> TRUE, state |-> result.state, effect |-> "none"]
                         ELSE Refused
  IN  IF permission = "deny" \/ ~Preflight(state, action) THEN Refused
      ELSE IF permission = "confirm" THEN leaves("confirmation-required")
      ELSE CASE action.type = "runtime.patch.apply"          -> becomes(ApplyPatch(state, action.patch))
             [] action.type = "runtime.lifecycle.transition" -> becomes(Transition(state, action.target))
             [] OTHER                                        -> leaves("host-action")

\* createRuntimeState
NewState(plan) == [revision |-> 0, lifecycle |-> "created", plan |-> plan]

\* What parseRuntimeState accepts.
StateIsValid(state) ==
  /\ state.revision \in 0..MaxSafe
  /\ state.lifecycle \in Lifecycle
  /\ PlanIsValid(state.plan)

\* Mutant: whatever is not older is taken.
BindsNewer(current, next) == next.revision >= current.revision

\* createStateBindingSession.bindReduction: a reduction is taken when it is one
\* revision further, or the same state; one that was computed from an older
\* state is refused.
Binds(current, next) ==
  /\ next.revision \in {current.revision, current.revision + 1}
  /\ next.revision = current.revision => next = current
=============================================================================

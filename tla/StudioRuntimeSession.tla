------------------------ MODULE StudioRuntimeSession ------------------------
(* One published studio experience while it runs (packages/studio-runtime):    *)
(* at most one interaction waits for the host, the host's outcome chooses the  *)
(* next view, and a view is the published nodes expanded over the data.        *)
(* Answers of the host are messages: they come late, twice, or never.  The     *)
(* session asks the host for the id of an action in the middle of a call, and  *)
(* the host may call the session again before it answers.                      *)
EXTENDS RuntimeCore, Folds

CONSTANTS
  View,           \* the published views: [view -> its nodes, [id, parent, order, source]]
  EntryView,
  Interaction,    \* published: [view, event, action, routes: [outcome -> view]]
  Patch, Rules, FirstPlan,
  Size,           \* lengths that a collection of the data port can have
  MaxRepeat, MaxNodes,   \* STUDIO_RUNTIME_MAX_REPEAT_ITEMS, ..._EXPANDED_NODES
  MaxDispatches, MaxDepth   \* bounds: actions, and calls within calls

VARIABLES
  view,           \* currentViewId
  current,        \* the runtime state of the state binding session
  pending,        \* [id, routes] of the action that waits, or NotPending
  unfinished,     \* the calls of dispatch and applyHostPatch that wait for an id,
                  \*   the innermost last
  ended,          \* disposed
  size,           \* how many items the data port has for a repeated node
  actions         \* history: what was dispatched so far, [from, the outcomes taken,
                  \*   crossed: another action came while it waited for its id]

sessionVars == <<view, current, pending, unfinished, ended, size, actions>>

NotPending == [id |-> 0]
Outcome == {"success", "empty", "error"}

Init ==
  /\ view = EntryView
  /\ current = NewState(FirstPlan)
  /\ pending = NotPending
  /\ unfinished = <<>>
  /\ ended = FALSE
  /\ size \in Size
  /\ actions = <<>>

\* A call is made, and asks the id factory; and the innermost one returns.
Call(call) ==
  /\ Len(unfinished) < MaxDepth
  /\ unfinished' = Append(unfinished, call)
  /\ UNCHANGED <<view, current, pending, ended, size, actions>>

Innermost == unfinished[Len(unfinished)]
Return == unfinished' = SubSeq(unfinished, 1, Len(unfinished) - 1)

\* dispatch, up to the id factory: the checks, the interaction of this view, and the
\* state that the reducer will start from.
Dispatch(interaction) ==
  /\ ~ended /\ pending = NotPending
  /\ interaction.view = view
  /\ Call([kind |-> "dispatch", interaction |-> interaction, seen |-> current,
           before |-> Len(actions)])

\* The id has come: the interaction becomes an action, whatever the reducer makes of
\* it, and takes the place of what waits by now.
Dispatched ==
  /\ unfinished # <<>> /\ Innermost.kind = "dispatch"
  /\ Len(actions) < MaxDispatches
  /\ LET call == Innermost
         result == Reduce(call.seen, call.interaction.action, Rules)
     IN  /\ result.ok /\ Binds(current, result.state)
         /\ current' = result.state
         /\ pending' = [id |-> Len(actions) + 1, routes |-> call.interaction.routes]
         /\ actions' = Append(actions, [from |-> call.interaction.view, outcomes |-> {},
                                        crossed |-> Len(actions) # call.before])
  /\ Return
  /\ UNCHANGED <<view, ended, size>>

\* The factory throws, or the reducer or the binding refuses: the call waits for nothing.
CallFails ==
  /\ unfinished # <<>>
  /\ Return
  /\ UNCHANGED <<view, current, pending, ended, size, actions>>

\* Mutant: an outcome is taken for whatever action waits.
CompleteAny(id, outcome) ==
  /\ ~ended /\ pending # NotPending
  /\ id <= Len(actions)
  /\ view' = IF outcome \in DOMAIN pending.routes THEN pending.routes[outcome] ELSE view
  /\ pending' = NotPending
  /\ actions' = [actions EXCEPT ![id].outcomes = @ \cup {outcome}]
  /\ UNCHANGED <<current, unfinished, ended, size>>

\* complete: only for the action that waits.  An outcome without a route ends
\* the waiting and keeps the view.
Complete(id, outcome) ==
  /\ ~ended /\ pending # NotPending
  /\ id = pending.id
  /\ view' = IF outcome \in DOMAIN pending.routes THEN pending.routes[outcome] ELSE view
  /\ pending' = NotPending
  /\ actions' = [actions EXCEPT ![id].outcomes = @ \cup {outcome}]
  /\ UNCHANGED <<current, unfinished, ended, size>>

\* applyHostPatch, which does not wait for the pending action, and reduces from the
\* state that there is when the id has come.
ApplyHostPatch(patch) ==
  /\ ~ended
  /\ Call([kind |-> "patch", patch |-> patch])

Patched ==
  /\ unfinished # <<>> /\ Innermost.kind = "patch"
  /\ LET result == Reduce(current, [type |-> "runtime.patch.apply", patch |-> Innermost.patch], Rules)
     IN  /\ result.ok /\ Binds(current, result.state)
         /\ current' = result.state
  /\ Return
  /\ UNCHANGED <<view, pending, ended, size, actions>>

Dispose ==
  /\ ended' = TRUE
  /\ pending' = NotPending
  /\ UNCHANGED <<view, current, unfinished, size, actions>>

DataMoves ==
  /\ size' \in Size
  /\ UNCHANGED <<view, current, pending, unfinished, ended, actions>>

Next ==
  \/ \E interaction \in Interaction : Dispatch(interaction)
  \/ \E id \in 1..MaxDispatches, outcome \in Outcome : Complete(id, outcome)
  \/ \E patch \in Patch : ApplyHostPatch(patch)
  \/ Dispatched \/ Patched \/ CallFails
  \/ Dispose \/ DataMoves

Spec == Init /\ [][Next]_sessionVars

-----------------------------------------------------------------------------
(* currentView.  A node is expanded under every copy of its parent, a repeated *)
(* one once for each item; a copy is named by the node and the items above it. *)
Nodes(v) == View[v]
\* Mutant: a stride that the items of one node fill.
SmallStride == MaxRepeat - 1

Stride == MaxRepeat + 1

CopiesUnder(node, parent, items) ==
  IF node.source = "none"
  THEN {[node |-> node.id, items |-> parent.items, parent |-> parent.node, above |-> parent.items,
         order |-> node.order * Stride]}
  ELSE {[node |-> node.id, items |-> Append(parent.items, n), parent |-> parent.node,
         above |-> parent.items, order |-> node.order * Stride + n] : n \in 0..items - 1}

Root == [node |-> "$root", items |-> <<>>]

\* The copies at a depth of the tree, from those of the depth above.
CopiesAt(v, items) ==
  LET at[depth \in 0..Cardinality(Nodes(v))] ==
        IF depth = 0 THEN {Root}
        ELSE UNION {UNION {CopiesUnder(node, parent, items) :
                             node \in {n \in Nodes(v) : n.parent = parent.node}} :
                      parent \in at[depth - 1]}
  IN  UNION {at[depth] : depth \in 1..Cardinality(Nodes(v))}

TooLarge(v, items) ==
  \/ items > MaxRepeat /\ \E n \in Nodes(v) : n.source # "none"
  \/ Cardinality(CopiesAt(v, items)) > MaxNodes

CurrentView ==
  IF ended THEN [ok |-> FALSE]
  ELSE IF TooLarge(view, size) THEN [ok |-> FALSE]
  ELSE [ok |-> TRUE, nodes |-> CopiesAt(view, size)]

-----------------------------------------------------------------------------
\* The session's memory has its types.
TypeOK ==
  /\ view \in DOMAIN View
  /\ StateIsValid(current)
  /\ pending.id \in 0..Len(actions)
  /\ ended \in BOOLEAN

\* An outcome meets the view its action was dispatched from, however late the host
\* answers, an action has one outcome, and none is forgotten before it has one: what a
\* person did on one view never moves another.  The exception is an action that was
\* crossed: the host dispatched another one while the session waited for its id.  It
\* takes the place of what waits, and the view may be another by then.
OutcomeMeetsItsView ==
  /\ pending # NotPending =>
       LET action == actions[pending.id]
       IN  action.outcomes = {} /\ (action.crossed \/ view = action.from)
  /\ \A n \in DOMAIN actions : Cardinality(actions[n].outcomes) <= 1
  /\ \A n \in DOMAIN actions : actions[n].outcomes = {} =>
       ended \/ pending.id = n \/ \E m \in DOMAIN actions : m > n /\ actions[m].crossed

\* A view that is shown is a tree: a copy's parent is a copy of it, copies have
\* their own names, and siblings have their own places, in the order of the
\* published nodes and of the items.
ViewIsATree ==
  CurrentView.ok =>
    LET nodes == CurrentView.nodes
        order(id) == (CHOOSE n \in Nodes(view) : n.id = id).order
    IN  /\ \A a \in nodes : a.parent = "$root" \/ \E b \in nodes : b.node = a.parent /\ b.items = a.above
        /\ \A a, b \in nodes :
             /\ (a.node = b.node /\ a.items = b.items) => a = b
             /\ (a # b /\ a.parent = b.parent /\ a.above = b.above) => a.order # b.order
             /\ (a.parent = b.parent /\ a.above = b.above /\ order(a.node) < order(b.node))
                  => a.order < b.order
        /\ Cardinality(nodes) <= MaxNodes
=============================================================================

------------------------------- MODULE WebSdk -------------------------------
(* One instance of the web SDK (packages/runtime-web: sdk/instance.ts,         *)
(* dom-lifecycle/mount.ts, state-bindings/session.ts).  Everything is          *)
(* synchronous, so what interleaves is re-entrance: while the SDK calls the    *)
(* host (its DOM port, the handles the port returned, its action id factory, a *)
(* listener), the host may call the SDK.  `stack' holds the SDK's unfinished   *)
(* calls, the innermost last.                                                  *)
EXTENDS RuntimeCore

CONSTANTS
  Action,        \* what a user event is adapted to: [type, ...]
  Patch,         \* patches of the host
  Rules,         \* rules of the permission policy
  FirstPlan,     \* the plan that is mounted
  MaxSessions, MaxDepth, MaxHeard    \* bounds

VARIABLES
  sessions,      \* state binding sessions in the order of their creation: [state, disposed]
  active,        \* the session of the active experience, 0 when there is none
  screen,        \* sessions whose DOM root is mounted
  notifying, disposed,
  stack,
  heard,         \* what the listeners were told, in order: [session, event, revision]
  portCalled     \* history: mount or dispose was called while the DOM port mounted

vars == <<sessions, active, screen, notifying, disposed, stack, heard, portCalled>>

Init ==
  /\ sessions = <<>> /\ active = 0 /\ screen = {}
  /\ notifying = FALSE /\ disposed = FALSE
  /\ stack = <<>> /\ heard = <<>> /\ portCalled = FALSE

\* The host has control, at the top level or inside any callback.
HostHasControl == Len(stack) < MaxDepth

\* The DOM port mounts an experience, whatever was called since it was asked to.
Mounting == \E n \in DOMAIN stack : stack[n].kind = "mount"

Push(frame) == stack' = Append(stack, frame)

\* mount, up to the DOM port: a session of its own from the first revision.
Mount ==
  /\ HostHasControl
  /\ ~disposed /\ active = 0
  /\ Len(sessions) < MaxSessions
  /\ sessions' = Append(sessions, [state |-> NewState(FirstPlan), disposed |-> FALSE])
  /\ Push([kind |-> "mount", session |-> Len(sessions) + 1])
  /\ portCalled' = (portCalled \/ Mounting)
  /\ UNCHANGED <<active, screen, notifying, disposed, heard>>

\* mount, from the DOM port's last answer: it is the active experience, or it
\* was rolled back.
Mounted ==
  /\ stack # <<>> /\ Last(stack).kind = "mount"
  /\ stack' = Front(stack)
  /\ \/ /\ screen' = screen \cup {Last(stack).session}
        /\ active' = Last(stack).session
        /\ UNCHANGED sessions
     \/ /\ sessions' = [sessions EXCEPT ![Last(stack).session].disposed = TRUE]
        /\ UNCHANGED <<screen, active>>
  /\ UNCHANGED <<notifying, disposed, heard, portCalled>>

\* Mutant: a listener may dispatch while it is told of a change.
DispatchWhileTelling(action) ==
  /\ HostHasControl
  /\ ~disposed /\ active # 0
  /\ Push([kind |-> "process", session |-> active, action |-> action,
           seen |-> sessions[active].state])
  /\ UNCHANGED <<sessions, active, screen, notifying, disposed, heard, portCalled>>

\* dispatch and patch, up to the id factory: a user event is reduced from the
\* state that was current here, a host patch from the one that is current later.
Dispatch(action) ==
  /\ HostHasControl
  /\ ~disposed /\ ~notifying /\ active # 0
  /\ Push([kind |-> "process", session |-> active, action |-> action,
           seen |-> sessions[active].state])
  /\ UNCHANGED <<sessions, active, screen, notifying, disposed, heard, portCalled>>

HostPatch(patch) ==
  /\ HostHasControl
  /\ ~disposed /\ ~notifying /\ active # 0
  /\ Push([kind |-> "patch", session |-> active,
           action |-> [type |-> "runtime.patch.apply", patch |-> patch]])
  /\ UNCHANGED <<sessions, active, screen, notifying, disposed, heard, portCalled>>

Notice(session, event, revision) ==
  [session |-> session, event |-> event, revision |-> revision]

\* dispatch and patch without an active experience only tell the listeners.
NotMounted ==
  /\ HostHasControl
  /\ ~disposed /\ ~notifying /\ active = 0
  /\ Push([kind |-> "notify", left |-> <<Notice(0, "error", 0)>>])
  /\ notifying' = TRUE
  /\ UNCHANGED <<sessions, active, screen, disposed, heard, portCalled>>

\* publish: the listeners are told one thing after the other.
Publish(left) ==
  /\ stack' = Append(Front(stack), [kind |-> "notify", left |-> left])
  /\ notifying' = TRUE

Reduced ==
  /\ stack # <<>> /\ Last(stack).kind \in {"process", "patch"}
  /\ LET frame   == Last(stack)
         session == frame.session
         current == sessions[session].state
         result  == Reduce(IF frame.kind = "process" THEN frame.seen ELSE current,
                           frame.action, Rules)
     IN  IF result.ok /\ Binds(current, result.state)
         THEN LET changed == result.state.revision = current.revision + 1
              IN  /\ sessions' = [sessions EXCEPT ![session].state = result.state]
                  /\ Publish(<<Notice(session, "action", result.state.revision)>>
                             \o (IF result.effect = "none" THEN <<>>
                                 ELSE <<Notice(session, "effect", result.state.revision)>>)
                             \o (IF changed THEN <<Notice(session, "statechange", result.state.revision)>>
                                 ELSE <<>>))
         ELSE Publish(<<Notice(session, "error", 0)>>) /\ UNCHANGED sessions
  /\ UNCHANGED <<active, screen, disposed, heard, portCalled>>

\* The next listener is called; the last one was, and publish ends.
Notify ==
  /\ stack # <<>> /\ Last(stack).kind = "notify"
  /\ LET left == Last(stack).left
     IN  IF left = <<>>
         THEN /\ stack' = Front(stack) /\ notifying' = FALSE /\ UNCHANGED heard
         ELSE /\ stack' = Append(Front(stack), [kind |-> "notify", left |-> Tail(left)])
              /\ heard' = IF disposed THEN heard ELSE Append(heard, Head(left))
              /\ UNCHANGED notifying
  /\ UNCHANGED <<sessions, active, screen, disposed, portCalled>>

\* releaseActive, up to the handles that the port returned: the experience is active no
\* longer and its session is closed before the host is asked to take it down.
Release ==
  /\ active' = 0
  /\ IF active = 0 THEN UNCHANGED <<sessions, stack>>
     ELSE /\ sessions' = [sessions EXCEPT ![active].disposed = TRUE]
          /\ Push([kind |-> "release", session |-> active])
  /\ UNCHANGED <<screen, notifying, heard>>

\* The host has disposed of the handles, or threw, which is ignored.
Released ==
  /\ stack # <<>> /\ Last(stack).kind = "release"
  /\ stack' = Front(stack)
  /\ screen' = screen \ {Last(stack).session}
  /\ UNCHANGED <<sessions, active, notifying, disposed, heard, portCalled>>

Unmount ==
  /\ HostHasControl
  /\ Release
  /\ UNCHANGED <<disposed, portCalled>>

\* Mutant: an instance that is disposed leaves its experience on the screen.
DisposeKeepsScreen ==
  /\ HostHasControl
  /\ ~disposed
  /\ disposed' = TRUE
  /\ portCalled' = (portCalled \/ Mounting)
  /\ UNCHANGED <<sessions, active, screen, notifying, stack, heard>>

Dispose ==
  /\ HostHasControl
  /\ ~disposed
  /\ disposed' = TRUE
  /\ portCalled' = (portCalled \/ Mounting)
  /\ Release

Next ==
  /\ Len(heard) < MaxHeard
  /\ \/ Mount \/ Mounted \/ NotMounted \/ Reduced \/ Notify
     \/ Unmount \/ Dispose \/ Released
     \/ \E action \in Action : Dispatch(action)
     \/ \E patch \in Patch : HostPatch(patch)

Spec == Init /\ [][Next]_vars

-----------------------------------------------------------------------------
\* The sessions hold states of the runtime core, and the stack calls of them.
TypeOK ==
  /\ active \in 0..Len(sessions) /\ screen \subseteq 1..Len(sessions)
  /\ \A n \in DOMAIN sessions : StateIsValid(sessions[n].state) /\ sessions[n].disposed \in BOOLEAN
  /\ \A n \in DOMAIN stack : stack[n].kind \in {"mount", "release", "process", "patch", "notify"}
  /\ {notifying, disposed, portCalled} \subseteq BOOLEAN

\* The active experience is on the screen with its session open, whatever the host
\* calls from its callbacks.  And what is on the screen can be taken down: it is the
\* active experience, or is being taken down; and a disposed instance has none.  The
\* exception is a DOM port that itself mounts or disposes while it mounts: the
\* experience that it was mounting is made the active one all the same.
ScreenIsActive ==
  /\ active # 0 => active \in screen /\ ~sessions[active].disposed
  /\ ~portCalled =>
       /\ \A s \in screen : s = active \/ \E n \in DOMAIN stack :
            stack[n].kind = "release" /\ stack[n].session = s
       /\ disposed => active = 0

\* Listeners hear of the revisions of an experience in their order, each once,
\* however the host calls back.
ChangesAreHeardInOrder ==
  \A m, n \in DOMAIN heard :
    (/\ m < n /\ heard[m].session = heard[n].session
     /\ heard[m].event = "statechange" /\ heard[n].event = "statechange")
      => heard[m].revision < heard[n].revision

\* A change is computed from the state it replaces: none is lost to one that
\* was computed before it.
NoChangeIsLost ==
  [][\A n \in DOMAIN sessions :
       LET old == sessions[n].state  new == sessions'[n].state
       IN  new # old =>
             \E action \in Action \cup {[type |-> "runtime.patch.apply", patch |-> p] : p \in Patch} :
               Reduce(old, action, Rules) = [ok |-> TRUE, state |-> new, effect |-> "none"]]_sessions
=============================================================================

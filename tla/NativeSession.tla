---------------------------- MODULE NativeSession ----------------------------
(* The session controller of the iOS SDK (sdk/ios: Session.swift,              *)
(* SessionController.swift) over the lifecycle of the application.  A change   *)
(* is made under the lock and told to the listeners after it, so another       *)
(* change, on another thread or from a listener, may be made and told in       *)
(* between.  The application keeps a copy, dies, and restores it.              *)
EXTENDS Naturals

CONSTANTS
  MaxSafe,      \* Number.MAX_SAFE_INTEGER
  Listener,
  Thread,       \* calls that can be at work at once; a listener that calls back is one of them
  MaxRevision,  \* bound
  MaxLives      \* bound on how often the application dies

-----------------------------------------------------------------------------
(* The state of a session (packages/runtime-core/src/session). *)

SessionState ==
  [revision : 0..MaxSafe, visibility : {"foreground", "background"},
   connectivity : {"connected", "disconnected"},
   continuity : {"live", "restored"}, cache : {"inactive", "verification-required"}]

SessionEvent == {"background", "foreground", "resume", "disconnect", "reconnect"}

\* createRuntimeSessionState
CreatedSession(visibility, connectivity) ==
  [revision |-> 0, visibility |-> visibility, connectivity |-> connectivity,
   continuity |-> "live", cache |-> "inactive"]

\* What parseRuntimeSessionState accepts.
SessionIsConsistent(state) ==
  /\ state.continuity = "live" => state.cache = "inactive"
  /\ state.continuity = "restored" => state.cache = "verification-required"

NoSession == [ok |-> FALSE]
Session(state, changed) == [ok |-> TRUE, state |-> state, changed |-> changed]

\* nextState
NextSession(state, event) ==
  CASE event = "background"               -> [state EXCEPT !.visibility = "background"]
    [] event \in {"foreground", "resume"} -> [state EXCEPT !.visibility = "foreground"]
    [] event = "disconnect"               -> [state EXCEPT !.connectivity = "disconnected"]
    [] event = "reconnect"                -> [state EXCEPT !.connectivity = "connected"]

\* transitionRuntimeSession: an event that changes nothing keeps the revision.
TransitionSession(state, event) ==
  LET next == NextSession(state, event)
  IN  IF ~SessionIsConsistent(state) THEN NoSession
      ELSE IF next = state THEN Session(state, FALSE)
      ELSE IF state.revision = MaxSafe THEN NoSession
      ELSE Session([next EXCEPT !.revision = @ + 1], TRUE)

\* restoreRuntimeSessionState
RestoreSession(state) ==
  IF ~SessionIsConsistent(state) \/ state.revision = MaxSafe THEN NoSession
  ELSE Session([state EXCEPT !.revision = @ + 1, !.continuity = "restored",
                             !.cache = "verification-required"], TRUE)

-----------------------------------------------------------------------------
VARIABLES
  state,        \* stateValue
  disposed,
  listeners,    \* [Listener -> the revision it has been subscribed since, Never, or Gone]
  telling,      \* [Thread -> [next, left] or Quiet]
  heard,        \* {<<listener, revision>>} of this life
  kept,         \* the copy that the application has kept, or NoCopy
  lives         \* how often it was restored

vars == <<state, disposed, listeners, telling, heard, kept, lives>>

Never == MaxRevision + 1
Gone == MaxRevision + 2
Quiet == [left |-> {}]
NoCopy == [revision |-> Never]

\* ViraIOSSessionState: what a copy that is decoded must be, and what is created.
NativeIsValid(s) ==
  /\ s.revision \in 0..MaxSafe
  /\ <<s.continuity, s.cache>> \in {<<"live", "inactive">>, <<"restored", "verification-required">>}

NativeCreated(visibility, connectivity) ==
  [revision |-> 0, visibility |-> visibility, connectivity |-> connectivity,
   continuity |-> "live", cache |-> "inactive"]

\* Mutant: an application that comes to the foreground is connected.
TransitionForgets(s, event) ==
  LET visibility == CASE event = "background" -> "background"
                      [] event \in {"foreground", "resume"} -> "foreground"
                      [] OTHER -> s.visibility
      connectivity == CASE event = "disconnect" -> "disconnected"
                        [] event \in {"reconnect", "resume"} -> "connected"
                        [] OTHER -> s.connectivity
  IN  IF visibility = s.visibility /\ connectivity = s.connectivity THEN Session(s, FALSE)
      ELSE IF s.revision = MaxSafe THEN NoSession
      ELSE Session([revision |-> s.revision + 1, visibility |-> visibility,
                    connectivity |-> connectivity, continuity |-> s.continuity, cache |-> s.cache],
                   TRUE)

\* ViraIOSSessionState.transition
NativeTransition(s, event) ==
  LET visibility == CASE event = "background" -> "background"
                      [] event \in {"foreground", "resume"} -> "foreground"
                      [] OTHER -> s.visibility
      connectivity == CASE event = "disconnect" -> "disconnected"
                        [] event = "reconnect" -> "connected"
                        [] OTHER -> s.connectivity
  IN  IF visibility = s.visibility /\ connectivity = s.connectivity THEN Session(s, FALSE)
      ELSE IF s.revision = MaxSafe THEN NoSession
      ELSE Session([revision |-> s.revision + 1, visibility |-> visibility,
                    connectivity |-> connectivity, continuity |-> s.continuity, cache |-> s.cache],
                   TRUE)

\* Mutant: a session is restored as it was kept.
RestoreAsItWas(s) ==
  IF s.revision = MaxSafe THEN NoSession
  ELSE Session([s EXCEPT !.revision = @ + 1], TRUE)

\* ViraIOSSessionState.restore
NativeRestore(s) ==
  IF s.revision = MaxSafe THEN NoSession
  ELSE Session([revision |-> s.revision + 1, visibility |-> s.visibility,
                connectivity |-> s.connectivity, continuity |-> "restored",
                cache |-> "verification-required"], TRUE)

\* create, from what the lifecycle source tells of the application.
Init ==
  /\ state \in {NativeCreated(v, "connected") : v \in {"foreground", "background"}}
  /\ disposed = FALSE
  /\ listeners = [x \in Listener |-> Never]
  /\ telling = [t \in Thread |-> Quiet]
  /\ heard = {}
  /\ kept = NoCopy
  /\ lives = 0

Subscribed == {x \in Listener : listeners[x] \notin {Never, Gone}}

\* Mutant: a change that is made while another is told is not told.
ChangeUntold(t, event) ==
  /\ telling[t] = Quiet
  /\ ~disposed
  /\ state.revision < MaxRevision
  /\ LET transition == NativeTransition(state, event)
     IN  /\ transition.ok /\ transition.changed
         /\ state' = transition.state
         /\ telling' = IF \E u \in Thread : telling[u] # Quiet THEN telling
                       ELSE [telling EXCEPT ![t] = [next |-> transition.state.revision, left |-> Subscribed]]
  /\ UNCHANGED <<disposed, listeners, heard, kept, lives>>

\* receive and transition, under the lock.
Change(t, event) ==
  /\ telling[t] = Quiet
  /\ ~disposed
  /\ state.revision < MaxRevision
  /\ LET transition == NativeTransition(state, event)
     IN  /\ transition.ok /\ transition.changed
         /\ state' = transition.state
         /\ telling' = [telling EXCEPT ![t] = [next |-> transition.state.revision, left |-> Subscribed]]
  /\ UNCHANGED <<disposed, listeners, heard, kept, lives>>

\* ... and after it: one callback after the other.
Tell(t, x) ==
  /\ telling[t] # Quiet /\ x \in telling[t].left
  /\ telling' = [telling EXCEPT ![t].left = @ \ {x}]
  /\ heard' = heard \cup {<<x, telling[t].next>>}
  /\ UNCHANGED <<state, disposed, listeners, kept, lives>>

Told(t) ==
  /\ telling[t] # Quiet /\ telling[t].left = {}
  /\ telling' = [telling EXCEPT ![t] = Quiet]
  /\ UNCHANGED <<state, disposed, listeners, heard, kept, lives>>

Subscribe(x) ==
  /\ ~disposed
  /\ listeners[x] = Never
  /\ listeners' = [listeners EXCEPT ![x] = state.revision]
  /\ UNCHANGED <<state, disposed, telling, heard, kept, lives>>

Unsubscribe(x) ==
  /\ x \in Subscribed
  /\ listeners' = [listeners EXCEPT ![x] = Gone]
  /\ UNCHANGED <<state, disposed, telling, heard, kept, lives>>

Dispose ==
  /\ ~disposed
  /\ disposed' = TRUE
  /\ listeners' = [x \in Listener |-> Gone]
  /\ UNCHANGED <<state, telling, heard, kept, lives>>

Keep ==
  /\ ~disposed
  /\ kept' = state
  /\ UNCHANGED <<state, disposed, listeners, telling, heard, lives>>

\* The application dies and restores what it kept.
Restore ==
  /\ kept # NoCopy /\ lives < MaxLives
  /\ kept.revision < MaxRevision
  /\ NativeIsValid(kept) /\ NativeRestore(kept).ok
  /\ state' = NativeRestore(kept).state
  /\ lives' = lives + 1
  /\ disposed' = FALSE
  /\ listeners' = [x \in Listener |-> Never]
  /\ telling' = [t \in Thread |-> Quiet]
  /\ heard' = {}
  /\ UNCHANGED kept

Next ==
  \/ \E t \in Thread, event \in SessionEvent : Change(t, event)
  \/ \E t \in Thread, x \in Listener : Tell(t, x)
  \/ \E t \in Thread : Told(t)
  \/ \E x \in Listener : Subscribe(x) \/ Unsubscribe(x)
  \/ Dispose \/ Keep \/ Restore

Spec == Init /\ [][Next]_vars

-----------------------------------------------------------------------------
\* The session's memory has its types, and the state is one that a parser of
\* another platform accepts.
TypeOK ==
  /\ state \in SessionState /\ SessionIsConsistent(state)
  /\ kept # NoCopy => kept \in SessionState
  /\ disposed \in BOOLEAN /\ lives \in 0..MaxLives
  /\ \A x \in Listener : listeners[x] \in 0..Gone

\* A listener hears of the changes since it subscribed and of no other, and
\* when all is told of every one, whatever is changed while others are told.
ListenersHearTheChanges ==
  \A x \in Subscribed :
    LET told == {r \in 0..MaxRevision : <<x, r>> \in heard}
    IN  /\ told \subseteq listeners[x] + 1..state.revision
        /\ (\A t \in Thread : telling[t] = Quiet) => told = listeners[x] + 1..state.revision

\* Once the application came back, what it cached stays to be verified, in every
\* later life, and what it kept is never ahead of it.
RestoredStaysUnverified ==
  /\ lives > 0 => state.cache = "verification-required"
  /\ kept # NoCopy => kept.revision <= state.revision

\* The SDK makes of an event, and of a copy, what the web runtime makes of it.
SessionAgreesWithWeb ==
  /\ NativeIsValid(state) /\ SessionIsConsistent(state)
  /\ NativeCreated(state.visibility, state.connectivity) =
       CreatedSession(state.visibility, state.connectivity)
  /\ \A event \in SessionEvent : NativeTransition(state, event) = TransitionSession(state, event)
  /\ NativeRestore(state) = RestoreSession(state)
=============================================================================

--------------------------- MODULE ActionBoundary ---------------------------
(* The protected boundary between an experience and the enterprise executor   *)
(* (packages/action-boundary).  One boundary object serves one instance; its  *)
(* methods run to the executor's promise without interruption, so what        *)
(* interleaves is the time between the crossing and the answer, during which  *)
(* other calls cross, the state revision moves and the boundary is disposed.  *)
EXTENDS Naturals, FiniteSets

CONSTANTS
  Caller,        \* calls to execute that can be in flight at once
  Intent,        \* [id, key, type, expects]: an ActionIntent of this instance
  Definitions,   \* the catalog's records [type, effect, idempotency]
  Rules,         \* sequence of [id, effect]: the rules about actions of the permission policy
  MaxRevision    \* bound on the state revision

VARIABLES
  revision,      \* the state revision that the trusted provider answers
  lastSeen,      \* lastProviderRevision (0 before the first observation: nothing is below it)
  usedIds, usedKeys,
  reserved,      \* reservedEffectRevisions
  disposed,
  granted,       \* intents that a person has confirmed
  flight,        \* [Caller -> the crossing it waits for, or NoCall]
  crossings      \* every crossing so far: [intent, fate]

vars == <<revision, lastSeen, usedIds, usedKeys, reserved, disposed, granted, flight, crossings>>

NoCall == [id |-> "none"]

\* What the constants must be: an intent names the revision it was made at.
BoundaryConstants ==
  /\ MaxRevision \in Nat \ {0}
  /\ NoCall \notin Intent
  /\ \A i \in Intent : i.expects \in Nat

Effectful(type) == \E d \in Definitions : d.type = type /\ d.effect # "read"

\* The first rule about the action decides; without one it is denied.
Permission(type) ==
  LET matching == {n \in DOMAIN Rules : Rules[n].id = type}
  IN  IF matching = {} THEN "deny"
      ELSE Rules[CHOOSE n \in matching : \A m \in matching : n <= m].effect

\* parseCatalog: what has an effect must be named by its action id, once per type.
CatalogAccepted ==
  /\ \A d \in Definitions : d.effect # "read" => d.idempotency = "action-id"
  /\ \A d, e \in Definitions : d.type = e.type => d = e

\* createRuntimePermissionPolicy: no two rules about one subject.
PolicyAccepted == \A m, n \in DOMAIN Rules : Rules[m].id = Rules[n].id => m = n

\* createViraActionBoundary
Init ==
  /\ CatalogAccepted /\ PolicyAccepted
  /\ revision \in 0..1
  /\ lastSeen = 0
  /\ usedIds = {} /\ usedKeys = {} /\ reserved = {}
  /\ disposed = FALSE
  /\ granted = {}
  /\ flight = [c \in Caller |-> NoCall]
  /\ crossings = {}

-----------------------------------------------------------------------------
Evaluated(i) == ~disposed /\ (\E d \in Definitions : d.type = i.type) /\ Permission(i.type) # "deny"

\* preflight answers a challenge, which a person may approve.  It looks at the
\* revision without recording the observation.
Preflight(i) ==
  /\ Evaluated(i)
  /\ Permission(i.type) = "confirm"
  /\ revision >= lastSeen
  /\ i.expects = revision
  /\ granted' = granted \cup {i}
  /\ UNCHANGED <<revision, lastSeen, usedIds, usedKeys, reserved, disposed, flight, crossings>>

\* readRevision: an observation is recorded, and the reservations of earlier
\* revisions are dropped; a regressed revision is refused.
ReadRevision ==
  /\ revision >= lastSeen
  /\ lastSeen' = revision

StillReserved == {r \in reserved : r >= revision}

Confirmed(i, grant) == Permission(i.type) = "confirm" => grant = i

\* Mutant: an idempotency key that has crossed is not looked for.
CrossesByIdOnly(i) ==
  /\ i.expects = revision
  /\ i.id \notin usedIds
  /\ Effectful(i.type) => i.expects \notin StillReserved

\* execute, refused after the revision was read: stale, a duplicate, or the
\* revision is another action's.
Crosses(i) ==
  /\ i.expects = revision
  /\ i.id \notin usedIds
  /\ i.key \notin usedKeys
  /\ Effectful(i.type) => i.expects \notin StillReserved

ExecuteRefused(i) ==
  /\ Evaluated(i)
  /\ \E grant \in granted \cup {NoCall} : Confirmed(i, grant)
  /\ ReadRevision
  /\ ~Crosses(i)
  /\ reserved' = StillReserved
  /\ UNCHANGED <<revision, usedIds, usedKeys, disposed, granted, flight, crossings>>

\* execute, up to the call of the executor.
Execute(c, i) ==
  /\ flight[c] = NoCall
  /\ Evaluated(i)
  /\ \E grant \in granted \cup {NoCall} : Confirmed(i, grant)
  /\ ReadRevision
  /\ Crosses(i)
  /\ usedIds' = usedIds \cup {i.id}
  /\ usedKeys' = usedKeys \cup {i.key}
  /\ reserved' = StillReserved \cup (IF Effectful(i.type) THEN {i.expects} ELSE {})
  /\ flight' = [flight EXCEPT ![c] = i]
  /\ crossings' = crossings \cup {[intent |-> i, fate |-> "open"]}
  /\ UNCHANGED <<revision, disposed, granted>>

CurrentRevision ==
  /\ ReadRevision
  /\ reserved' = StillReserved
  /\ UNCHANGED <<revision, usedIds, usedKeys, disposed, granted, flight, crossings>>

\* parseAdapterResult: no answer from before the intent's revision, and a
\* success of what has an effect is at a later one.
AnswerAccepted(i, outcome, at) ==
  /\ at >= i.expects
  /\ outcome = "success" /\ Effectful(i.type) => at > i.expects

Fated(i, old, new) ==
  (crossings \ {[intent |-> i, fate |-> old]}) \cup {[intent |-> i, fate |-> new]}

\* Mutant: any answer but a success gives the revision back.
AnswerReleases(c, outcome, at) ==
  LET i == flight[c]
      trusted == ~disposed /\ AnswerAccepted(i, outcome, at)
      idle == trusted /\ outcome # "success"
  IN  /\ i # NoCall
      /\ flight' = [flight EXCEPT ![c] = NoCall]
      /\ reserved' = IF idle /\ Effectful(i.type) THEN reserved \ {i.expects} ELSE reserved
      /\ \E old \in {"open", "landed"} :
           /\ [intent |-> i, fate |-> old] \in crossings
           /\ (outcome = "success" /\ Effectful(i.type)) => old = "landed"
           /\ (outcome # "success" /\ at = i.expects) => old = "open"
           /\ crossings' = IF outcome # "success" /\ at = i.expects THEN Fated(i, old, "no-effect")
                           ELSE IF old = "open" THEN Fated(i, old, "uncertain") ELSE crossings
      /\ UNCHANGED <<revision, lastSeen, usedIds, usedKeys, disposed, granted>>

\* The executor answers.  Only a trusted answer that nothing happened gives the
\* revision back; an answer after dispose, or one that is not accepted, does not.
Answer(c, outcome, at) ==
  LET i == flight[c]
      trusted == ~disposed /\ AnswerAccepted(i, outcome, at)
      idle == trusted /\ outcome # "success" /\ at = i.expects
  IN  /\ i # NoCall
      /\ flight' = [flight EXCEPT ![c] = NoCall]
      /\ reserved' = IF idle /\ Effectful(i.type) THEN reserved \ {i.expects} ELSE reserved
      /\ \E old \in {"open", "landed"} :
           /\ [intent |-> i, fate |-> old] \in crossings
           /\ (outcome = "success" /\ Effectful(i.type)) => old = "landed"
           /\ (outcome # "success" /\ at = i.expects) => old = "open"
           /\ crossings' = IF outcome # "success" /\ at = i.expects THEN Fated(i, old, "no-effect")
                           ELSE IF old = "open" THEN Fated(i, old, "uncertain") ELSE crossings
      /\ UNCHANGED <<revision, lastSeen, usedIds, usedKeys, disposed, granted>>

\* Mutant: an executor that throws gives the revision back.
FailReleases(c) ==
  LET i == flight[c]
  IN  /\ i # NoCall
      /\ flight' = [flight EXCEPT ![c] = NoCall]
      /\ reserved' = reserved \ {i.expects}
      /\ crossings' = IF [intent |-> i, fate |-> "open"] \in crossings
                      THEN Fated(i, "open", "uncertain") ELSE crossings
      /\ UNCHANGED <<revision, lastSeen, usedIds, usedKeys, disposed, granted>>

\* The executor throws, or its answer is lost: whether there is an effect is not known.
Fail(c) ==
  LET i == flight[c]
  IN  /\ i # NoCall
      /\ flight' = [flight EXCEPT ![c] = NoCall]
      /\ crossings' = IF [intent |-> i, fate |-> "open"] \in crossings
                      THEN Fated(i, "open", "uncertain") ELSE crossings
      /\ UNCHANGED <<revision, lastSeen, usedIds, usedKeys, reserved, disposed, granted>>

\* The enterprise carries an effect out, before the answer or long after it was lost.
Land(x) ==
  /\ x \in crossings
  /\ x.fate \in {"open", "uncertain"}
  /\ Effectful(x.intent.type)
  /\ revision < MaxRevision
  /\ revision' = revision + 1
  /\ crossings' = Fated(x.intent, x.fate, "landed")
  /\ UNCHANGED <<lastSeen, usedIds, usedKeys, reserved, disposed, granted, flight>>

\* The state moves for another reason; or the provider answers from an old copy.
Move ==
  /\ revision' \in {r \in 0..MaxRevision : r = revision + 1 \/ r + 1 = revision}
  /\ UNCHANGED <<lastSeen, usedIds, usedKeys, reserved, disposed, granted, flight, crossings>>

Dispose ==
  /\ disposed' = TRUE
  /\ UNCHANGED <<revision, lastSeen, usedIds, usedKeys, reserved, granted, flight, crossings>>

Next ==
  \/ \E i \in Intent : Preflight(i) \/ ExecuteRefused(i)
  \/ \E c \in Caller, i \in Intent : Execute(c, i)
  \/ \E c \in Caller, at \in 0..MaxRevision :
       \E outcome \in {"success", "empty", "error"} : Answer(c, outcome, at)
  \/ \E c \in Caller : Fail(c)
  \/ \E x \in crossings : Land(x)
  \/ CurrentRevision \/ Move \/ Dispose

Spec == Init /\ [][Next]_vars

-----------------------------------------------------------------------------
\* The boundary's memory has its types.
TypeOK ==
  /\ revision \in 0..MaxRevision /\ lastSeen \in 0..MaxRevision
  /\ usedIds \subseteq {i.id : i \in Intent} /\ usedKeys \subseteq {i.key : i \in Intent}
  /\ reserved \subseteq 0..MaxRevision
  /\ disposed \in BOOLEAN
  /\ granted \subseteq Intent
  /\ flight \in [Caller -> Intent \cup {NoCall}]
  /\ crossings \subseteq [intent : Intent, fate : {"open", "uncertain", "no-effect", "landed"}]

\* Of the actions with an effect that crossed from one revision, all but one
\* were answered as having had none: whatever is thrown, lost, late or
\* concurrent, two effects are never computed from the same state.
OneEffectPerRevision ==
  \A x, y \in crossings :
    (/\ Effectful(x.intent.type) /\ Effectful(y.intent.type)
     /\ x.intent.expects = y.intent.expects
     /\ x.fate # "no-effect" /\ y.fate # "no-effect") => x = y

\* A name crosses once: neither an action id nor an idempotency key has been
\* given to the executor for two intents, nor for one intent twice.
NamesCrossOnce ==
  \A x, y \in crossings :
    x.intent.id = y.intent.id \/ x.intent.key = y.intent.key => x = y

\* What keeps OneEffectPerRevision: an effect in doubt at the revision last
\* seen still holds it, and nothing but that revision is held.
DoubtIsReserved ==
  /\ reserved \subseteq {lastSeen}
  /\ \A x \in crossings :
       /\ x.intent.expects <= lastSeen
       /\ (Effectful(x.intent.type) /\ x.fate # "no-effect" /\ x.intent.expects = lastSeen)
            => lastSeen \in reserved

\* Every name that crossed is remembered.
NamesAreUsed == \A x \in crossings : x.intent.id \in usedIds /\ x.intent.key \in usedKeys

\* Together these are inductive: the proofs are in PlatformServiceProofs.
BoundaryHolds ==
  /\ TypeOK
  /\ NamesAreUsed
  /\ NamesCrossOnce
  /\ DoubtIsReserved
  /\ OneEffectPerRevision
=============================================================================

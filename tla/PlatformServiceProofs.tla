----------------------- MODULE PlatformServiceProofs -----------------------
(* Proofs about eight of the platform's services, each on its own: the        *)
(* boundary of an action (ActionBoundary), the authority to act               *)
(* (TransactionApproval), the drafts and publications of an experience        *)
(* (StudioLifecycle), the session of a browser (BrowserSession), what is      *)
(* billed of an application (CommercialBilling), what it may use and is       *)
(* entitled to (CommercialAccess), pages of a federated source                *)
(* (ApplicationFederation), and whom a workload acts for                      *)
(* (IdentityDelegation); for any number of callers, verifiers, authors,       *)
(* billers and consumers, any plans, catalogs, documents, tokens, limits,     *)
(* pages and grants, and any bounds.                                          *)
EXTENDS ActionBoundary, Integers, Sequences, FiniteSetTheorems, WellFoundedInduction, TLAPS

CONSTANTS
  Draft, User, Organization, Verifier, Nonce, Lifetime, MaxApprovals, MaxGrants,
  Nil, Author, Document, Publishable, MaxVersion, MaxBirths,
  Missing, Token, Ingress, Window, Allowance, MaxSkew, MaxTime,
  Ingester, Biller, Action, Binding, ExportId, MaxLines, Denominator, Party, Gross, Schedule,
  FundsEvent, MaxRecords,                                           \* of what is billed
  Consumer, MeterWindow, WindowLength, MeterLimit, Policy, Proposal, BatchSize, MaxSafe, MaxUsage,
  Select, Metered, Terms, MaxEntitlements,                          \* of what may be used
  Refused, MaxSources, MaxPerSource, MaxTotal, SourceId, Cursor, NoCursor, Content, Limit,
  Unknown, MaxChanges,                                              \* of federated sources
  MaxDepth, DefaultSkew                                             \* of delegations

VARIABLES
  frozen, approvals, signing, grants, verifying, nonces, accepted,
  studioClock, record, revisions, studioCall, births, intruded,
  browserClock, ahead, membership, login, rows, browser, signed, used, ingress, dispatched, ever,
  usageClock, verifiedAt, events, ingesting, bill, exports, allocation, seen, sequence, records,
  quotaClock, usage, desk, entitlements,
  served, changes, asked, answers, cache, everServed, confirmed

Approval == INSTANCE TransactionApproval

Studio == INSTANCE StudioLifecycle WITH clock <- studioClock, call <- studioCall

Browser == INSTANCE BrowserSession WITH clock <- browserClock

Billing == INSTANCE CommercialBilling WITH clock <- usageClock, call <- ingesting

Access == INSTANCE CommercialAccess WITH
  Length <- WindowLength, MaxRecords <- BatchSize, Window <- MeterWindow, Limit <- MeterLimit,
  MaxGrants <- MaxEntitlements, clock <- quotaClock

Federation == INSTANCE ApplicationFederation WITH ever <- everServed

Delegation == INSTANCE IdentityDelegation

-----------------------------------------------------------------------------
(* The boundary of an action.                                                 *)
Fate == {"open", "uncertain", "no-effect", "landed"}

\* An effect of this crossing may have happened or may still happen.
InDoubt(x) == Effectful(x.intent.type) /\ x.fate # "no-effect"

LEMMA TypesInit == BoundaryConstants /\ Init => TypeOK
<1> SUFFICES ASSUME BoundaryConstants, Init PROVE TypeOK
  OBVIOUS
<1>1. revision \in 0..MaxRevision /\ lastSeen \in 0..MaxRevision
  BY DEF BoundaryConstants, Init
<1>2. disposed \in BOOLEAN /\ flight \in [Caller -> Intent \cup {NoCall}]
  BY DEF Init
<1>3. QED
  BY <1>1, <1>2 DEF Init, TypeOK

-----------------------------------------------------------------------------
(* The fate of one crossing changes.                                          *)

LEMMA FatedFacts ==
  ASSUME TypeOK, NamesCrossOnce, NEW i \in Intent, NEW old \in Fate, NEW new \in Fate,
         [intent |-> i, fate |-> old] \in crossings
  PROVE  /\ Fated(i, old, new) \subseteq [intent : Intent, fate : Fate]
         /\ \A y \in Fated(i, old, new) :
              \/ y.intent = i /\ y.fate = new
              \/ y \in crossings /\ y.intent # i
<1> DEFINE x == [intent |-> i, fate |-> old]
<1>1. x.intent = i /\ x.fate = old
  OBVIOUS
<1>2. \A y \in crossings : y.intent = i => y = x
  BY <1>1 DEF NamesCrossOnce
<1>3. QED
  BY <1>2 DEF Fated, TypeOK, Fate

\* Nothing is given back but the revision of a crossing that had no effect.
LEMMA RefateHolds ==
  ASSUME BoundaryHolds, BoundaryConstants, NEW i \in Intent, NEW old \in Fate, NEW new \in Fate,
         [intent |-> i, fate |-> old] \in crossings, old # "no-effect",
         crossings' = Fated(i, old, new),
         TypeOK', UNCHANGED <<lastSeen, usedIds, usedKeys>>,
         \/ reserved' = reserved
         \/ reserved' = reserved \ {i.expects} /\ new = "no-effect" /\ Effectful(i.type)
  PROVE  BoundaryHolds'
<1> DEFINE x == [intent |-> i, fate |-> old]
<1>1. TypeOK /\ NamesCrossOnce /\ x.intent = i /\ x.fate = old /\ x \in crossings
  BY DEF BoundaryHolds
<1>2. \A y \in crossings' : \/ y.intent = i /\ y.fate = new
                            \/ y \in crossings /\ y.intent # i
  BY <1>1, FatedFacts
<1>3. crossings' \subseteq [intent : Intent, fate : Fate]
  BY <1>1, FatedFacts
<1>4. \A y, z \in crossings' : y.intent = z.intent => y = z
  BY <1>2, <1>3, <1>1 DEF NamesCrossOnce
<1>5. NamesAreUsed'
  BY <1>1, <1>2 DEF BoundaryHolds, NamesAreUsed
<1>6. NamesCrossOnce'
  <2> SUFFICES ASSUME NEW y \in crossings', NEW z \in crossings',
                      y.intent.id = z.intent.id \/ y.intent.key = z.intent.key
               PROVE  y.intent = z.intent
    BY <1>4 DEF NamesCrossOnce
  <2>1. \E a, b \in crossings : a.intent = y.intent /\ b.intent = z.intent
    BY <1>1, <1>2
  <2>2. QED
    BY <1>1, <2>1 DEF NamesCrossOnce
<1>7. DoubtIsReserved'
  <2>1. reserved' \subseteq {lastSeen'}
    BY DEF BoundaryHolds, DoubtIsReserved
  <2>2. ASSUME NEW y \in crossings' PROVE y.intent.expects <= lastSeen'
    BY <1>1, <1>2 DEF BoundaryHolds, DoubtIsReserved
  <2>3. ASSUME NEW y \in crossings', Effectful(y.intent.type), y.fate # "no-effect",
               y.intent.expects = lastSeen
        PROVE  lastSeen \in reserved'
    <3>1. CASE reserved' = reserved
      BY <1>1, <1>2, <2>3, <3>1 DEF BoundaryHolds, DoubtIsReserved
    <3>2. CASE reserved' = reserved \ {i.expects} /\ new = "no-effect" /\ Effectful(i.type)
      <4>1. y \in crossings /\ y.intent # i
        BY <1>2, <2>3, <3>2
      <4>2. lastSeen \in reserved
        BY <2>3, <4>1 DEF BoundaryHolds, DoubtIsReserved
      <4>3. i.expects # lastSeen
        BY <1>1, <2>3, <3>2, <4>1 DEF BoundaryHolds, OneEffectPerRevision
      <4>4. QED
        BY <3>2, <4>2, <4>3
    <3>3. QED
      BY <3>1, <3>2
  <2>4. QED
    BY <2>1, <2>2, <2>3 DEF DoubtIsReserved
<1>8. OneEffectPerRevision'
  <2> SUFFICES ASSUME NEW y \in crossings', NEW z \in crossings',
                      Effectful(y.intent.type), Effectful(z.intent.type),
                      y.intent.expects = z.intent.expects,
                      y.fate # "no-effect", z.fate # "no-effect"
               PROVE  y.intent = z.intent
    BY <1>4 DEF OneEffectPerRevision
  <2>1. \E a, b \in crossings : /\ a.intent = y.intent /\ b.intent = z.intent
                                /\ a.fate # "no-effect" /\ b.fate # "no-effect"
    BY <1>1, <1>2
  <2>2. QED
    BY <2>1 DEF BoundaryHolds, OneEffectPerRevision
<1>9. QED
  BY <1>5, <1>6, <1>7, <1>8 DEF BoundaryHolds

-----------------------------------------------------------------------------
(* The revision is observed.                                                  *)

\* What was in doubt at the revision last seen is still reserved, or the state
\* has moved past it.
LEMMA ObservedHolds ==
  ASSUME BoundaryHolds, BoundaryConstants, ReadRevision
  PROVE  /\ StillReserved \subseteq {lastSeen'} /\ lastSeen' = revision
         /\ \A x \in crossings :
              /\ x.intent.expects <= lastSeen'
              /\ InDoubt(x) /\ x.intent.expects = lastSeen' => lastSeen' \in StillReserved
<1>1. /\ revision \in Nat /\ lastSeen \in Nat /\ reserved \subseteq {lastSeen}
      /\ lastSeen' = revision /\ lastSeen <= revision
  BY DEF BoundaryHolds, BoundaryConstants, TypeOK, DoubtIsReserved, ReadRevision
<1>2. StillReserved \subseteq {lastSeen'}
  <2> SUFFICES ASSUME NEW r \in StillReserved PROVE r = lastSeen'
    OBVIOUS
  <2>1. r \in reserved /\ r >= revision
    BY DEF StillReserved
  <2>2. r = lastSeen
    BY <1>1, <2>1
  <2>3. QED
    BY <1>1, <2>1, <2>2
<1>3. ASSUME NEW x \in crossings
      PROVE  /\ x.intent.expects \in Nat /\ x.intent.expects <= lastSeen
             /\ InDoubt(x) /\ x.intent.expects = lastSeen => lastSeen \in reserved
  BY DEF BoundaryHolds, BoundaryConstants, TypeOK, DoubtIsReserved, InDoubt
<1>4. QED
  BY <1>1, <1>2, <1>3 DEF StillReserved

LEMMA ObserveOnlyHolds ==
  ASSUME BoundaryHolds, BoundaryConstants, TypeOK', ReadRevision, reserved' = StillReserved,
         UNCHANGED <<usedIds, usedKeys, crossings>>
  PROVE  BoundaryHolds'
<1>1. DoubtIsReserved'
  BY ObservedHolds DEF DoubtIsReserved, InDoubt
<1>2. NamesAreUsed' /\ NamesCrossOnce' /\ OneEffectPerRevision'
  BY DEF BoundaryHolds, NamesAreUsed, NamesCrossOnce, OneEffectPerRevision
<1>3. QED
  BY <1>1, <1>2 DEF BoundaryHolds

\* The one that crosses finds no effect in doubt at its revision, and leaves
\* its revision reserved.
LEMMA ExecuteHolds ==
  ASSUME BoundaryHolds, BoundaryConstants, TypeOK', NEW c \in Caller, NEW i \in Intent, Execute(c, i)
  PROVE  BoundaryHolds'
<1> DEFINE x == [intent |-> i, fate |-> "open"]
<1>1. /\ ReadRevision /\ Crosses(i)
      /\ usedIds' = usedIds \cup {i.id} /\ usedKeys' = usedKeys \cup {i.key}
      /\ reserved' = StillReserved \cup (IF Effectful(i.type) THEN {i.expects} ELSE {})
      /\ crossings' = crossings \cup {x}
  BY DEF Execute
<1>2. /\ x.intent = i /\ x.fate = "open"
      /\ i.expects = revision /\ lastSeen' = revision /\ revision \in Nat
  BY <1>1 DEF Crosses, ReadRevision, BoundaryHolds, TypeOK, BoundaryConstants
<1>3. /\ StillReserved \subseteq {lastSeen'}
      /\ \A y \in crossings :
           /\ y.intent.expects <= lastSeen'
           /\ InDoubt(y) /\ y.intent.expects = lastSeen' => lastSeen' \in StillReserved
  BY <1>1, ObservedHolds
<1>4. \A y \in crossings : y.intent.id # i.id /\ y.intent.key # i.key
  BY <1>1 DEF Crosses, BoundaryHolds, NamesAreUsed
<1> HIDE DEF x
<1>5. NamesAreUsed' /\ NamesCrossOnce'
  BY <1>1, <1>2, <1>4 DEF BoundaryHolds, NamesAreUsed, NamesCrossOnce
<1>6. DoubtIsReserved'
  BY <1>1, <1>2, <1>3 DEF DoubtIsReserved, InDoubt
<1>7. OneEffectPerRevision'
  <2>1. Effectful(i.type) => \A y \in crossings : InDoubt(y) => y.intent.expects # i.expects
    BY <1>1, <1>2, <1>3 DEF Crosses
  <2>2. QED
    BY <1>1, <1>2, <2>1 DEF BoundaryHolds, OneEffectPerRevision, InDoubt
<1>8. QED
  BY <1>5, <1>6, <1>7 DEF BoundaryHolds

-----------------------------------------------------------------------------
(* Every step.                                                                *)

\* Steps that leave the boundary's memory and the crossings alone.
LEMMA MemoryKept ==
  ASSUME BoundaryHolds, TypeOK', UNCHANGED <<lastSeen, usedIds, usedKeys, reserved, crossings>>
  PROVE  BoundaryHolds'
  BY DEF BoundaryHolds, NamesAreUsed, NamesCrossOnce, DoubtIsReserved, OneEffectPerRevision

LEMMA TypesNext ==
  ASSUME BoundaryHolds, BoundaryConstants, [Next]_vars
  PROVE  TypeOK'
<1>1. TypeOK /\ NamesCrossOnce
  BY DEF BoundaryHolds
<1>2. CASE UNCHANGED vars
  BY <1>1, <1>2 DEF vars, TypeOK
<1>3. ASSUME NEW i \in Intent, Preflight(i) PROVE TypeOK'
  BY <1>1, <1>3 DEF Preflight, TypeOK
<1>4. ASSUME NEW i \in Intent, ExecuteRefused(i) PROVE TypeOK'
  BY <1>1, <1>4 DEF ExecuteRefused, ReadRevision, StillReserved, TypeOK
<1>5. ASSUME NEW c \in Caller, NEW i \in Intent, Execute(c, i) PROVE TypeOK'
  <2>1. i.expects \in 0..MaxRevision
    BY <1>1, <1>5 DEF Execute, Crosses, TypeOK
  <2>2. reserved' \subseteq 0..MaxRevision /\ lastSeen' \in 0..MaxRevision
    BY <1>1, <1>5, <2>1 DEF Execute, ReadRevision, StillReserved, TypeOK
  <2>3. crossings' \subseteq [intent : Intent, fate : Fate]
    BY <1>1, <1>5 DEF Execute, TypeOK, Fate
  <2>4. flight' \in [Caller -> Intent \cup {NoCall}]
    BY <1>1, <1>5 DEF Execute, TypeOK
  <2>5. /\ usedIds' \subseteq {j.id : j \in Intent} /\ usedKeys' \subseteq {j.key : j \in Intent}
        /\ UNCHANGED <<revision, disposed, granted>>
    BY <1>1, <1>5 DEF Execute, TypeOK
  <2>6. QED
    BY <1>1, <2>2, <2>3, <2>4, <2>5 DEF TypeOK, Fate
<1>6. ASSUME NEW i \in Intent, NEW old \in Fate, NEW new \in Fate,
             [intent |-> i, fate |-> old] \in crossings
      PROVE  Fated(i, old, new) \subseteq [intent : Intent, fate : Fate]
  BY <1>1, <1>6, FatedFacts
<1>7. ASSUME NEW c \in Caller, NEW at \in 0..MaxRevision,
             NEW outcome \in {"success", "empty", "error"}, Answer(c, outcome, at)
      PROVE  TypeOK'
  <2>1. flight[c] \in Intent
    BY <1>1, <1>7 DEF Answer, TypeOK
  <2>2. crossings' \subseteq [intent : Intent, fate : Fate]
    BY <1>1, <1>6, <1>7, <2>1 DEF Answer, TypeOK, Fate
  <2>3. QED
    BY <1>1, <1>7, <2>2 DEF Answer, TypeOK, Fate
<1>8. ASSUME NEW c \in Caller, Fail(c) PROVE TypeOK'
  <2>1. flight[c] \in Intent
    BY <1>1, <1>8 DEF Fail, TypeOK
  <2>2. crossings' \subseteq [intent : Intent, fate : Fate]
    BY <1>1, <1>6, <1>8, <2>1 DEF Fail, TypeOK, Fate
  <2>3. QED
    BY <1>1, <1>8, <2>2 DEF Fail, TypeOK, Fate
<1>9. ASSUME NEW x \in crossings, Land(x) PROVE TypeOK'
  <2>1. x.intent \in Intent /\ x.fate \in Fate /\ x = [intent |-> x.intent, fate |-> x.fate]
    BY <1>1 DEF TypeOK, Fate
  <2>2. crossings' \subseteq [intent : Intent, fate : Fate]
    BY <1>6, <1>9, <2>1 DEF Land, Fate
  <2>3. revision' \in 0..MaxRevision
    BY <1>1, <1>9 DEF Land, TypeOK, BoundaryConstants
  <2>4. QED
    BY <1>1, <1>9, <2>2, <2>3 DEF Land, TypeOK, Fate
<1>10. CASE CurrentRevision
  BY <1>1, <1>10 DEF CurrentRevision, ReadRevision, StillReserved, TypeOK
<1>11. CASE Move \/ Dispose
  BY <1>1, <1>11 DEF Move, Dispose, TypeOK
<1>12. QED
  BY <1>2, <1>3, <1>4, <1>5, <1>7, <1>8, <1>9, <1>10, <1>11 DEF Next

LEMMA HoldsNext ==
  ASSUME BoundaryHolds, BoundaryConstants, [Next]_vars
  PROVE  BoundaryHolds'
<1>1. TypeOK /\ TypeOK'
  BY TypesNext DEF BoundaryHolds
<1>2. CASE UNCHANGED vars \/ Move \/ Dispose
  BY <1>1, <1>2, MemoryKept DEF vars, Move, Dispose
<1>3. ASSUME NEW i \in Intent, Preflight(i) PROVE BoundaryHolds'
  BY <1>1, <1>3, MemoryKept DEF Preflight
<1>4. ASSUME NEW i \in Intent, ExecuteRefused(i) PROVE BoundaryHolds'
  BY <1>1, <1>4, ObserveOnlyHolds DEF ExecuteRefused
<1>5. ASSUME NEW c \in Caller, NEW i \in Intent, Execute(c, i) PROVE BoundaryHolds'
  BY <1>1, <1>5, ExecuteHolds
<1>6. ASSUME NEW c \in Caller, NEW at \in 0..MaxRevision,
             NEW outcome \in {"success", "empty", "error"}, Answer(c, outcome, at)
      PROVE  BoundaryHolds'
  <2> DEFINE i == flight[c]
             trusted == ~disposed /\ AnswerAccepted(i, outcome, at)
             idle == trusted /\ outcome # "success" /\ at = i.expects
  <2>1. i \in Intent /\ UNCHANGED <<lastSeen, usedIds, usedKeys>>
    BY <1>1, <1>6 DEF Answer, TypeOK
  <2>2. PICK old \in {"open", "landed"} :
          /\ [intent |-> i, fate |-> old] \in crossings
          /\ (outcome # "success" /\ at = i.expects) => old = "open"
          /\ crossings' = IF outcome # "success" /\ at = i.expects THEN Fated(i, old, "no-effect")
                          ELSE IF old = "open" THEN Fated(i, old, "uncertain") ELSE crossings
    BY <1>6 DEF Answer
  <2>3. reserved' = IF idle /\ Effectful(i.type) THEN reserved \ {i.expects} ELSE reserved
    BY <1>6 DEF Answer
  <2> HIDE DEF i
  <2>4. CASE outcome # "success" /\ at = i.expects
    <3>1. crossings' = Fated(i, old, "no-effect")
      BY <2>2, <2>4
    <3>2. \/ reserved' = reserved
          \/ reserved' = reserved \ {i.expects} /\ Effectful(i.type)
      BY <2>3
    <3>3. QED
      BY <1>1, <2>1, <2>2, <3>1, <3>2, RefateHolds DEF Fate
  <2>5. CASE ~ (outcome # "success" /\ at = i.expects)
    <3>1. reserved' = reserved
      BY <2>3, <2>5
    <3>2. CASE old = "open"
      BY <1>1, <2>1, <2>2, <2>5, <3>1, <3>2, RefateHolds DEF Fate
    <3>3. CASE old # "open"
      BY <1>1, <2>1, <2>2, <2>5, <3>1, <3>3, MemoryKept
    <3>4. QED
      BY <3>2, <3>3
  <2>6. QED
    BY <2>4, <2>5
<1>7. ASSUME NEW c \in Caller, Fail(c) PROVE BoundaryHolds'
  <2> DEFINE i == flight[c]
  <2>1. i \in Intent /\ UNCHANGED <<lastSeen, usedIds, usedKeys, reserved>>
    BY <1>1, <1>7 DEF Fail, TypeOK
  <2>2. crossings' = IF [intent |-> i, fate |-> "open"] \in crossings
                     THEN Fated(i, "open", "uncertain") ELSE crossings
    BY <1>7 DEF Fail
  <2> HIDE DEF i
  <2>3. CASE [intent |-> i, fate |-> "open"] \in crossings
    BY <1>1, <2>1, <2>2, <2>3, RefateHolds DEF Fate
  <2>4. CASE ~ [intent |-> i, fate |-> "open"] \in crossings
    BY <1>1, <2>1, <2>2, <2>4, MemoryKept
  <2>5. QED
    BY <2>3, <2>4
<1>8. ASSUME NEW x \in crossings, Land(x) PROVE BoundaryHolds'
  <2>1. x.intent \in Intent /\ x.fate \in Fate /\ [intent |-> x.intent, fate |-> x.fate] = x
    BY <1>1 DEF TypeOK, Fate
  <2>2. /\ x.fate # "no-effect" /\ crossings' = Fated(x.intent, x.fate, "landed")
        /\ UNCHANGED <<lastSeen, usedIds, usedKeys, reserved>>
    BY <1>8 DEF Land
  <2>3. QED
    BY <1>1, <2>1, <2>2, RefateHolds DEF Fate
<1>9. CASE CurrentRevision
  BY <1>1, <1>9, ObserveOnlyHolds DEF CurrentRevision
<1>10. QED
  BY <1>2, <1>3, <1>4, <1>5, <1>6, <1>7, <1>8, <1>9 DEF Next

-----------------------------------------------------------------------------
(* The theorems.                                                              *)

\* What the boundary remembers is enough: every effect that is in doubt at the
\* revision last seen reserves it, and every name that crossed is used.
THEOREM BoundaryHoldsAlways == BoundaryConstants /\ Spec => []BoundaryHolds
<1> SUFFICES ASSUME BoundaryConstants PROVE Spec => []BoundaryHolds
  OBVIOUS
<1>1. Init => BoundaryHolds
  BY TypesInit DEF Init, BoundaryHolds, NamesAreUsed, NamesCrossOnce, DoubtIsReserved, OneEffectPerRevision
<1>2. BoundaryHolds /\ [Next]_vars => BoundaryHolds'
  BY HoldsNext
<1>3. QED
  BY <1>1, <1>2, PTL DEF Spec

\* The boundary's memory, the calls in flight and the crossings keep their types.
THEOREM TypeCorrect == BoundaryConstants /\ Spec => []TypeOK
<1>1. BoundaryHolds => TypeOK
  BY DEF BoundaryHolds
<1>2. QED
  BY <1>1, BoundaryHoldsAlways, PTL

\* However many calls cross, whatever the executor throws, loses or answers
\* late, and however the provider's revision moves or regresses, at most one
\* effect is computed from one state.
THEOREM OneEffect == BoundaryConstants /\ Spec => []OneEffectPerRevision
<1>1. BoundaryHolds => OneEffectPerRevision
  BY DEF BoundaryHolds
<1>2. QED
  BY <1>1, BoundaryHoldsAlways, PTL

\* No action id and no idempotency key is given to the executor twice.
THEOREM NamesAreOnce == BoundaryConstants /\ Spec => []NamesCrossOnce
<1>1. BoundaryHolds => NamesCrossOnce
  BY DEF BoundaryHolds
<1>2. QED
  BY <1>1, BoundaryHoldsAlways, PTL

-----------------------------------------------------------------------------
(* The authority to act.                                                      *)
\* Plans, approvals and grants as they are made.
Frozen == [plan : Draft, revision : 1..MaxRevision]

Approved == [frozen : Frozen, reviewed : Frozen, user : {u.id : u \in User},
             decision : {"approved", "rejected"}, issued : Nat, expires : Nat]

Grant == [nonce : Nonce, frozen : Frozen,
          operation : UNION {Approval!Ids(d.operations) : d \in Draft},
          issued : Nat, expires : Nat]

\* No plan outlasts the trust in what supplies it.
PlanIsTrusted(f) ==
  \A n \in DOMAIN f.plan.operations : f.plan.expires <= f.plan.operations[n].trust

\* A person of the plan's organization has seen what is decided on.
IsReviewed(a) ==
  /\ a.frozen \in frozen /\ a.reviewed = a.frozen
  /\ a.expires <= a.frozen.plan.expires
  /\ \E user \in User : user.id = a.user /\ user.kind = "user" /\ user.organization = Organization

\* A grant is of an operation of a plan that was approved, within the time of
\* that approval.
IsGranted(g) ==
  /\ g \in Grant
  /\ g.operation \in Approval!Ids(g.frozen.plan.operations)
  /\ \E a \in approvals : /\ a.decision = "approved" /\ a.frozen = g.frozen
                          /\ a.issued <= g.issued /\ g.expires <= a.expires

VerifyCall == [step : {"verifier", "guard"}, grant : Grant]

CallsAreGranted ==
  \A w \in Verifier : \/ verifying[w] = Approval!NoCall
                      \/ verifying[w] \in VerifyCall /\ IsGranted(verifying[w].grant)

\* A grant that was accepted has used its nonce, which no other has.
NoncesAreSpent ==
  /\ \A n \in DOMAIN accepted : accepted[n].nonce \in nonces
  /\ Approval!AcceptedOnce

AuthorityHolds ==
  /\ frozen \subseteq Frozen /\ \A f \in frozen : PlanIsTrusted(f)
  /\ approvals \subseteq Approved /\ \A a \in approvals : IsReviewed(a)
  /\ \A g \in signing \cup grants : IsGranted(g)
  /\ verifying \in [Verifier -> VerifyCall \cup {Approval!NoCall}] /\ CallsAreGranted
  /\ nonces \subseteq Nonce
  /\ accepted \in Seq(Grant) /\ \A n \in DOMAIN accepted : IsGranted(accepted[n])
  /\ NoncesAreSpent

-----------------------------------------------------------------------------
LEMMA ApprovalInitHolds ==
  ASSUME Approval!ApprovalConstants, Approval!Init PROVE AuthorityHolds
<1>1. accepted = <<>> /\ accepted \in Seq(Grant) /\ DOMAIN accepted = {}
  BY DEF Approval!Init
<1>2. verifying = [w \in Verifier |-> Approval!NoCall]
  BY DEF Approval!Init
<1>3. CallsAreGranted /\ verifying \in [Verifier -> VerifyCall \cup {Approval!NoCall}]
  BY <1>2 DEF CallsAreGranted
<1>4. QED
  BY <1>1, <1>3 DEF Approval!Init, AuthorityHolds, NoncesAreSpent, Approval!AcceptedOnce

\* What is granted stays so while approvals are only added.
LEMMA AuthorityStays ==
  ASSUME AuthorityHolds, approvals \subseteq approvals',
         UNCHANGED <<verifying, nonces, accepted>>,
         frozen' \subseteq Frozen, \A f \in frozen' : PlanIsTrusted(f),
         approvals' \subseteq Approved, \A a \in approvals' : IsReviewed(a)',
         \A g \in signing' \cup grants' : IsGranted(g)'
  PROVE  AuthorityHolds'
<1>1. CallsAreGranted'
  <2> SUFFICES ASSUME NEW w \in Verifier
               PROVE  (\/ verifying[w] = Approval!NoCall
                       \/ verifying[w] \in VerifyCall /\ IsGranted(verifying[w].grant))'
    BY DEF CallsAreGranted
  <2>1. CASE verifying[w] = Approval!NoCall
    BY <2>1
  <2>2. CASE verifying[w] \in VerifyCall /\ IsGranted(verifying[w].grant)
    BY <2>2 DEF IsGranted
  <2>3. QED
    BY <2>1, <2>2 DEF AuthorityHolds, CallsAreGranted
<1>2. (\A n \in DOMAIN accepted : IsGranted(accepted[n]))'
  BY DEF AuthorityHolds, IsGranted
<1>3. NoncesAreSpent'
  BY DEF AuthorityHolds, NoncesAreSpent, Approval!AcceptedOnce
<1>4. QED
  BY <1>1, <1>2, <1>3 DEF AuthorityHolds, PlanIsTrusted

LEMMA FreezeHolds ==
  ASSUME Approval!ApprovalConstants, AuthorityHolds, NEW draft \in Draft, NEW number \in 1..MaxRevision,
         Approval!Freeze(draft, number)
  PROVE  AuthorityHolds'
<1> DEFINE f == [plan |-> draft, revision |-> number]
<1>1. /\ frozen' = frozen \cup {f} /\ Approval!EvidenceIsValid(draft)
      /\ UNCHANGED <<approvals, signing, grants, verifying, nonces, accepted>>
  BY DEF Approval!Freeze
<1>2. f \in Frozen /\ f.plan = draft
  BY DEF Frozen
<1>3. PlanIsTrusted(f)
  <2>1. \A o \in Approval!ToSet(draft.operations) : o.trust >= draft.expires
    BY <1>1 DEF Approval!EvidenceIsValid
  <2>2. ASSUME NEW n \in DOMAIN draft.operations
        PROVE  draft.expires <= draft.operations[n].trust
    BY <2>1, <2>2 DEF Approval!ToSet, Approval!ApprovalConstants
  <2>3. QED
    BY <1>2, <2>2 DEF PlanIsTrusted
<1> HIDE DEF f
<1>4. \A a \in approvals' : IsReviewed(a)'
  BY <1>1 DEF AuthorityHolds, IsReviewed
<1>5. \A g \in signing' \cup grants' : IsGranted(g)'
  BY <1>1 DEF AuthorityHolds, IsGranted
<1>6. QED
  BY <1>1, <1>2, <1>3, <1>4, <1>5, AuthorityStays DEF AuthorityHolds

LEMMA DecideHolds ==
  ASSUME Approval!ApprovalConstants, AuthorityHolds, NEW f \in frozen, NEW reviewed \in frozen,
         NEW user \in User, NEW issued \in 1..MaxTime, NEW expires \in 1..MaxTime,
         NEW decision \in {"approved", "rejected"},
         Approval!Decide(f, reviewed, user, decision, issued, expires)
  PROVE  AuthorityHolds'
<1> DEFINE a == [frozen |-> f, reviewed |-> reviewed, user |-> user.id, decision |-> decision,
                 issued |-> issued, expires |-> expires]
<1>1. /\ approvals' = approvals \cup {a} /\ reviewed = f /\ expires <= f.plan.expires
      /\ user.kind = "user" /\ user.organization = Organization
      /\ UNCHANGED <<frozen, signing, grants, verifying, nonces, accepted>>
  BY DEF Approval!Decide
<1>2. issued \in Nat /\ f \in Frozen /\ expires \in Nat
  BY DEF AuthorityHolds, Approval!ApprovalConstants
<1>3. a \in Approved
  BY <1>1, <1>2 DEF Approved
<1>4. IsReviewed(a)
  BY <1>1 DEF IsReviewed
<1> HIDE DEF a
<1>5. \A b \in approvals' : IsReviewed(b)'
  BY <1>1, <1>4 DEF AuthorityHolds, IsReviewed
<1>6. \A g \in signing' \cup grants' : IsGranted(g)'
  BY <1>1 DEF AuthorityHolds, IsGranted
<1>7. QED
  BY <1>1, <1>2, <1>3, <1>5, <1>6, AuthorityStays DEF AuthorityHolds

\* A grant ends no later than the approval: the earliest of four bounds is one of them.
LEMMA LatestExpiryFacts ==
  ASSUME Approval!ApprovalConstants, NEW f \in Frozen, NEW approval \in Approved,
         NEW id \in Approval!Ids(f.plan.operations), NEW now \in Nat
  PROVE  /\ Approval!LatestExpiry(f, approval, id, now) \in Nat
         /\ Approval!LatestExpiry(f, approval, id, now) <= approval.expires
<1> DEFINE operation == Approval!Operation(f, id)
           bounds == {f.plan.expires, approval.expires, operation.trust, now + Lifetime}
<1>1. operation.trust \in Nat
  <2>1. PICK n \in DOMAIN f.plan.operations : f.plan.operations[n].id = id
    BY DEF Approval!Ids
  <2>2. operation \in Approval!ToSet(f.plan.operations)
    BY <2>1 DEF Approval!Operation, Approval!ToSet
  <2>3. f.plan \in Draft
    BY DEF Frozen
  <2> HIDE DEF operation
  <2>4. QED
    BY <2>2, <2>3 DEF Approval!ToSet, Approval!ApprovalConstants
<1>2. f.plan.expires \in Nat /\ approval.expires \in Nat /\ now + Lifetime \in Nat
  BY DEF Frozen, Approved, Approval!ApprovalConstants
<1> HIDE DEF operation
<1>3. \E b \in bounds : \A c \in bounds : b <= c
  BY <1>1, <1>2
<1>4. Approval!LatestExpiry(f, approval, id, now) \in bounds
      /\ \A c \in bounds : Approval!LatestExpiry(f, approval, id, now) <= c
  BY <1>3 DEF Approval!LatestExpiry, operation
<1>5. QED
  BY <1>1, <1>2, <1>4

LEMMA IssueGrantHolds ==
  ASSUME Approval!ApprovalConstants, AuthorityHolds, NEW f \in frozen, NEW approval \in approvals,
         NEW issued \in 1..MaxTime, NEW expires \in 1..MaxTime,
         NEW id \in Approval!Ids(f.plan.operations), NEW nonce \in Nonce,
         Approval!IssueGrant(f, approval, id, nonce, issued, expires)
  PROVE  AuthorityHolds'
<1> DEFINE g == [nonce |-> nonce, frozen |-> f, operation |-> id,
                 issued |-> issued, expires |-> expires]
<1>1. /\ signing' = signing \cup {g} /\ Approval!ApprovalHolds(f, approval, issued)
      /\ expires <= Approval!LatestExpiry(f, approval, id, issued)
      /\ UNCHANGED <<frozen, approvals, grants, verifying, nonces, accepted>>
  BY DEF Approval!IssueGrant
<1>2. /\ issued \in Nat /\ f \in Frozen /\ approval \in Approved /\ expires \in Nat
      /\ approval.expires \in Nat /\ f.plan \in Draft
  BY DEF AuthorityHolds, Approval!ApprovalConstants, Approved, Frozen
<1>3. expires <= approval.expires
  BY <1>1, <1>2, LatestExpiryFacts
<1>4. /\ approval.frozen = f /\ approval.decision = "approved" /\ approval.issued <= issued
  BY <1>1 DEF Approval!ApprovalHolds
<1>5. g \in Grant
  BY <1>2 DEF Grant, Frozen
<1>6. IsGranted(g)
  BY <1>3, <1>4, <1>5 DEF IsGranted
<1> HIDE DEF g
<1>7. \A h \in signing' \cup grants' : IsGranted(h)'
  BY <1>1, <1>6 DEF AuthorityHolds, IsGranted
<1>8. \A a \in approvals' : IsReviewed(a)'
  BY <1>1 DEF AuthorityHolds, IsReviewed
<1>9. QED
  BY <1>1, <1>2, <1>7, <1>8, AuthorityStays DEF AuthorityHolds

LEMMA SignedHolds ==
  ASSUME Approval!ApprovalConstants, AuthorityHolds, NEW g \in signing, Approval!Signed(g)
  PROVE  AuthorityHolds'
<1>1. /\ signing' \cup grants' \subseteq signing \cup grants
      /\ UNCHANGED <<frozen, approvals, verifying, nonces, accepted>>
  BY DEF Approval!Signed
<1>2. \A h \in signing' \cup grants' : IsGranted(h)'
  BY <1>1 DEF AuthorityHolds, IsGranted
<1>3. \A a \in approvals' : IsReviewed(a)'
  BY <1>1 DEF AuthorityHolds, IsReviewed
<1>4. QED
  BY <1>1, <1>2, <1>3, AuthorityStays DEF AuthorityHolds

\* A step of a verifier's call: it goes on with a grant, or ends.
LEMMA VerifyingHolds ==
  ASSUME AuthorityHolds, NEW w \in Verifier, NEW c \in VerifyCall \cup {Approval!NoCall},
         c = Approval!NoCall \/ IsGranted(c.grant),
         verifying' = [verifying EXCEPT ![w] = c],
         UNCHANGED <<frozen, approvals, signing, grants>>,
         nonces' \subseteq Nonce,
         accepted' \in Seq(Grant), \A n \in DOMAIN accepted' : IsGranted(accepted'[n]),
         NoncesAreSpent'
  PROVE  AuthorityHolds'
<1>1. verifying' \in [Verifier -> VerifyCall \cup {Approval!NoCall}]
  BY DEF AuthorityHolds
<1>2. CallsAreGranted'
  <2> SUFFICES ASSUME NEW v \in Verifier
               PROVE  (\/ verifying[v] = Approval!NoCall
                       \/ verifying[v] \in VerifyCall /\ IsGranted(verifying[v].grant))'
    BY DEF CallsAreGranted
  <2>1. CASE v = w
    <3>1. verifying'[v] = c
      BY <2>1 DEF AuthorityHolds
    <3>2. CASE c = Approval!NoCall
      BY <3>1, <3>2
    <3>3. CASE c # Approval!NoCall
      BY <3>1, <3>3 DEF IsGranted
    <3>4. QED
      BY <3>2, <3>3
  <2>2. CASE v # w
    <3>1. verifying'[v] = verifying[v]
      BY <2>2 DEF AuthorityHolds
    <3>2. \/ verifying[v] = Approval!NoCall
          \/ verifying[v] \in VerifyCall /\ IsGranted(verifying[v].grant)
      BY DEF AuthorityHolds, CallsAreGranted
    <3>3. QED
      BY <3>1, <3>2 DEF IsGranted
  <2>3. QED
    BY <2>1, <2>2
<1>3. (\A n \in DOMAIN accepted : IsGranted(accepted[n]))'
  BY DEF IsGranted
<1>4. (\A g \in signing \cup grants : IsGranted(g))'
  BY DEF AuthorityHolds, IsGranted
<1>5. (\A a \in approvals : IsReviewed(a))'
  BY DEF AuthorityHolds, IsReviewed
<1>6. QED
  BY <1>1, <1>2, <1>3, <1>4, <1>5 DEF AuthorityHolds, PlanIsTrusted

\* No step before the replay guard spends a nonce.
LEMMA CallGoesOn ==
  ASSUME AuthorityHolds, NEW w \in Verifier, NEW c \in VerifyCall \cup {Approval!NoCall},
         c = Approval!NoCall \/ IsGranted(c.grant),
         verifying' = [verifying EXCEPT ![w] = c],
         UNCHANGED <<frozen, approvals, signing, grants, nonces, accepted>>
  PROVE  AuthorityHolds'
<1>1. NoncesAreSpent'
  BY DEF AuthorityHolds, NoncesAreSpent, Approval!AcceptedOnce
<1>2. nonces' \subseteq Nonce /\ accepted' \in Seq(Grant)
      /\ \A n \in DOMAIN accepted' : IsGranted(accepted'[n])
  BY DEF AuthorityHolds
<1>3. QED
  BY <1>1, <1>2, VerifyingHolds

LEMMA BeginVerifyHolds ==
  ASSUME AuthorityHolds, NEW w \in Verifier, NEW f \in frozen, NEW g \in grants, NEW id, NEW now,
         Approval!BeginVerify(w, f, g, id, now)
  PROVE  AuthorityHolds'
<1> DEFINE c == [step |-> "verifier", grant |-> g]
<1>1. verifying' = [verifying EXCEPT ![w] = c]
      /\ UNCHANGED <<frozen, approvals, signing, grants, nonces, accepted>>
  BY DEF Approval!BeginVerify
<1>2. IsGranted(g) /\ g \in Grant
  BY DEF AuthorityHolds, IsGranted
<1>3. c \in VerifyCall /\ c.grant = g
  BY <1>2 DEF VerifyCall
<1> HIDE DEF c
<1>4. QED
  BY <1>1, <1>2, <1>3, CallGoesOn

LEMMA SignatureVerifiedHolds ==
  ASSUME AuthorityHolds, NEW w \in Verifier, Approval!SignatureVerified(w)
  PROVE  AuthorityHolds'
<1> DEFINE c == [verifying[w] EXCEPT !.step = "guard"]
<1>1. verifying \in [Verifier -> VerifyCall \cup {Approval!NoCall}]
      /\ UNCHANGED <<frozen, approvals, signing, grants, nonces, accepted>>
  BY DEF AuthorityHolds, Approval!SignatureVerified
<1>2. verifying[w] \in VerifyCall /\ IsGranted(verifying[w].grant)
  <2>1. verifying[w].step = "verifier"
    BY DEF Approval!SignatureVerified
  <2>2. verifying[w] # Approval!NoCall
    BY <2>1 DEF Approval!NoCall
  <2>3. QED
    BY <2>2 DEF AuthorityHolds, CallsAreGranted
<1>3. CASE verifying' = [verifying EXCEPT ![w] = Approval!NoCall]
  BY <1>1, <1>3, CallGoesOn
<1>4. CASE verifying' = [verifying EXCEPT ![w].step = "guard"]
  <2>1. verifying' = [verifying EXCEPT ![w] = c]
    BY <1>1, <1>4
  <2>2. c \in VerifyCall /\ c.grant = verifying[w].grant
    BY <1>2 DEF VerifyCall
  <2> HIDE DEF c
  <2>3. QED
    BY <1>1, <1>2, <2>1, <2>2, CallGoesOn
<1>5. QED
  BY <1>3, <1>4 DEF Approval!SignatureVerified

\* The replay guard accepts only a nonce that no accepted grant has.
LEMMA AcceptHolds ==
  ASSUME AuthorityHolds, NEW w \in Verifier, Approval!Accept(w)
  PROVE  AuthorityHolds'
<1> DEFINE g == verifying[w].grant
<1>1. /\ verifying' = [verifying EXCEPT ![w] = Approval!NoCall]
      /\ UNCHANGED <<frozen, approvals, signing, grants>>
      /\ nonces' = nonces \cup {g.nonce}
      /\ accepted' = accepted \/ (g.nonce \notin nonces /\ accepted' = Append(accepted, g))
  BY DEF Approval!Accept
<1>2. IsGranted(g) /\ g \in Grant /\ g.nonce \in Nonce
  <2>1. verifying[w].step = "guard"
    BY DEF Approval!Accept
  <2>2. verifying[w] # Approval!NoCall
    BY <2>1 DEF Approval!NoCall
  <2>3. IsGranted(g)
    BY <2>2 DEF AuthorityHolds, CallsAreGranted
  <2>4. QED
    BY <2>3 DEF IsGranted, Grant
<1> HIDE DEF g
<1>3. accepted \in Seq(Grant) /\ (\A n \in DOMAIN accepted : IsGranted(accepted[n]))
      /\ (\A n \in DOMAIN accepted : accepted[n].nonce \in nonces) /\ Approval!AcceptedOnce
      /\ nonces \subseteq Nonce
  BY DEF AuthorityHolds, NoncesAreSpent
<1>4. CASE accepted' = accepted
  <2>1. NoncesAreSpent'
    BY <1>1, <1>3, <1>4 DEF NoncesAreSpent, Approval!AcceptedOnce
  <2>2. QED
    BY <1>1, <1>2, <1>3, <1>4, <2>1, VerifyingHolds
<1>5. CASE g.nonce \notin nonces /\ accepted' = Append(accepted, g)
  <2>1. /\ accepted' \in Seq(Grant) /\ DOMAIN accepted' = 1..Len(accepted) + 1
        /\ DOMAIN accepted = 1..Len(accepted) /\ Len(accepted) \in Nat
        /\ accepted'[Len(accepted) + 1] = g
        /\ \A n \in DOMAIN accepted : accepted'[n] = accepted[n]
    BY <1>2, <1>3, <1>5
  <2>2. \A n \in DOMAIN accepted' : n \in DOMAIN accepted \/ n = Len(accepted) + 1
    BY <2>1
  <2>3. \A n \in DOMAIN accepted' : IsGranted(accepted'[n])
    BY <1>2, <1>3, <2>1, <2>2
  <2>4. NoncesAreSpent'
    <3>1. \A n \in DOMAIN accepted' : accepted'[n].nonce \in nonces'
      BY <1>1, <1>3, <2>1, <2>2
    <3>2. \A n \in DOMAIN accepted : accepted'[n].nonce # g.nonce
      BY <1>3, <1>5, <2>1
    <3>3. ASSUME NEW m \in DOMAIN accepted', NEW n \in DOMAIN accepted',
                 accepted'[m].nonce = accepted'[n].nonce
          PROVE  m = n
      <4>1. CASE m \in DOMAIN accepted /\ n \in DOMAIN accepted
        BY <1>3, <2>1, <3>3, <4>1 DEF Approval!AcceptedOnce
      <4>2. CASE m \notin DOMAIN accepted \/ n \notin DOMAIN accepted
        BY <2>1, <2>2, <3>2, <3>3, <4>2
      <4>3. QED
        BY <4>1, <4>2
    <3>4. QED
      BY <3>1, <3>3 DEF NoncesAreSpent, Approval!AcceptedOnce
  <2>5. QED
    BY <1>1, <1>2, <1>3, <2>1, <2>3, <2>4, VerifyingHolds
<1>6. QED
  BY <1>1, <1>4, <1>5

LEMMA ApprovalNextHolds ==
  ASSUME Approval!ApprovalConstants, AuthorityHolds, [Approval!Next]_(Approval!vars)
  PROVE  AuthorityHolds'
<1>1. CASE \E draft \in Draft, number \in 1..MaxRevision : Approval!Freeze(draft, number)
  BY <1>1, FreezeHolds
<1>2. CASE \E f, reviewed \in frozen, user \in User, issued, expires \in 1..MaxTime :
             \E decision \in {"approved", "rejected"} :
               Approval!Decide(f, reviewed, user, decision, issued, expires)
  BY <1>2, DecideHolds
<1>3. CASE \E f \in frozen, approval \in approvals, issued, expires \in 1..MaxTime :
             \E id \in Approval!Ids(f.plan.operations), nonce \in Nonce :
               Approval!IssueGrant(f, approval, id, nonce, issued, expires)
  BY <1>3, IssueGrantHolds
<1>4. CASE \E g \in signing : Approval!Signed(g)
  BY <1>4, SignedHolds
<1>5. CASE \E w \in Verifier, f \in frozen, g \in grants, now \in 1..MaxTime :
             \E id \in Approval!Ids(f.plan.operations) : Approval!BeginVerify(w, f, g, id, now)
  BY <1>5, BeginVerifyHolds
<1>6. CASE \E w \in Verifier : Approval!SignatureVerified(w) \/ Approval!Accept(w)
  BY <1>6, SignatureVerifiedHolds, AcceptHolds
<1>7. CASE UNCHANGED Approval!vars
  <2>1. \A a \in approvals' : IsReviewed(a)'
    BY <1>7 DEF AuthorityHolds, IsReviewed, Approval!vars
  <2>2. \A g \in signing' \cup grants' : IsGranted(g)'
    BY <1>7 DEF AuthorityHolds, IsGranted, Approval!vars
  <2>3. QED
    BY <1>7, <2>1, <2>2, AuthorityStays DEF AuthorityHolds, Approval!vars
<1>8. QED
  BY <1>1, <1>2, <1>3, <1>4, <1>5, <1>6, <1>7 DEF Approval!Next

\* Whatever is frozen again while a review is open, delayed at the signer or
\* the guard, or verified twice: what is approved was reviewed, and a grant
\* stays within its approval.
THEOREM AuthorityHoldsAlways ==
  ASSUME Approval!ApprovalConstants
  PROVE  Approval!Spec => []AuthorityHolds
<1>1. Approval!Init => AuthorityHolds
  BY ApprovalInitHolds
<1>2. AuthorityHolds /\ [Approval!Next]_(Approval!vars) => AuthorityHolds'
  BY ApprovalNextHolds
<1>3. QED
  BY <1>1, <1>2, PTL DEF Approval!Spec

\* What is accepted is an operation of exactly the plan that a person of its
\* organization reviewed and approved, within the time that the person, the
\* plan and the trust in its provider have.
THEOREM AcceptedIsApproved ==
  ASSUME Approval!ApprovalConstants
  PROVE  Approval!Spec => []Approval!AuthorityIsApproved
<1>1. AuthorityHolds => Approval!AuthorityIsApproved
  <2> SUFFICES ASSUME AuthorityHolds, NEW n \in DOMAIN accepted
               PROVE  \E a \in approvals :
                        /\ a.decision = "approved" /\ a.reviewed = accepted[n].frozen
                        /\ \E user \in User : /\ user.id = a.user /\ user.kind = "user"
                                              /\ user.organization = Organization
                        /\ accepted[n].operation \in Approval!Ids(a.reviewed.plan.operations)
                        /\ a.issued <= accepted[n].issued /\ accepted[n].expires <= a.expires
                        /\ a.expires <= a.reviewed.plan.expires
                        /\ \A o \in Approval!ToSet(a.reviewed.plan.operations) :
                             a.reviewed.plan.expires <= o.trust
    BY DEF Approval!AuthorityIsApproved, Approval!ToSet
  <2>1. IsGranted(accepted[n])
    BY DEF AuthorityHolds
  <2> PICK a \in approvals : /\ a.decision = "approved" /\ a.frozen = accepted[n].frozen
                             /\ a.issued <= accepted[n].issued /\ accepted[n].expires <= a.expires
    BY <2>1 DEF IsGranted
  <2>2. IsReviewed(a) /\ PlanIsTrusted(a.frozen)
    BY DEF AuthorityHolds, IsReviewed
  <2>3. \A o \in Approval!ToSet(a.frozen.plan.operations) : a.frozen.plan.expires <= o.trust
    BY <2>2 DEF PlanIsTrusted, Approval!ToSet
  <2>4. QED
    BY <2>1, <2>2, <2>3 DEF IsGranted, IsReviewed
<1>2. QED
  BY <1>1, AuthorityHoldsAlways, PTL

\* A nonce gives authority once, whoever verifies it, and whatever answer of
\* the replay guard is lost; an operation has as many nonces as it has grants.
THEOREM NoncesCountOnce ==
  ASSUME Approval!ApprovalConstants
  PROVE  Approval!Spec => []Approval!AcceptedOnce
<1>1. AuthorityHolds => Approval!AcceptedOnce
  BY DEF AuthorityHolds, NoncesAreSpent
<1>2. QED
  BY <1>1, AuthorityHoldsAlways, PTL

-----------------------------------------------------------------------------
(* Drafts and publications.                                                   *)
\* A write of the first draft.
FirstDraft(w) ==
  /\ w.revision # Nil
  /\ w.next.recordVersion = 1 /\ w.next.draftRevision = 1
  /\ w.next.document = w.revision.document
  /\ w.next.publication = Nil /\ w.next.publishedDraftRevision = Nil /\ w.next.publishedAt = Nil
  /\ w.next.createdAt = w.next.updatedAt /\ w.next.updatedAt = w.revision.recordedAt
  /\ w.next.updatedAt <= studioClock

\* A write of the next draft of r.
NextDraft(w, r) ==
  /\ w.revision # Nil
  /\ w.next.document = w.revision.document /\ w.next.updatedAt = w.revision.recordedAt
  /\ w.next.draftRevision = r.draftRevision + 1
  /\ w.next.publication = r.publication
  /\ w.next.publishedDraftRevision = r.publishedDraftRevision
  /\ w.next.publishedAt = r.publishedAt

\* A write that publishes the draft of r, or withdraws what is published.
NextPublication(w, r) ==
  /\ w.revision = Nil
  /\ w.next.document = r.document /\ w.next.draftRevision = r.draftRevision
  /\ \/ /\ w.next.publication = Nil /\ w.next.publishedDraftRevision = Nil
        /\ w.next.publishedAt = Nil
     \/ /\ w.next.publication = r.document /\ r.document \in Publishable
        /\ w.next.publishedDraftRevision = r.draftRevision
        /\ w.next.publishedAt = w.next.updatedAt

Replaces(w, r) ==
  /\ w.next.recordVersion = r.recordVersion + 1 /\ w.next.createdAt = r.createdAt
  /\ r.updatedAt <= w.next.updatedAt /\ w.next.updatedAt <= studioClock
  /\ NextDraft(w, r) \/ NextPublication(w, r)

\* What was read in this life is of the experience that has the id now, and
\* nothing of an earlier one was stored since.
Current(life) == record # Nil /\ ~intruded /\ life = births

\* A write is the first, of an earlier life, of the record as it is, or too late.
WriteHolds(w) ==
  /\ w.expected = 0 => FirstDraft(w)
  /\ w.life <= births
  /\ w.expected # 0 /\ Current(w.life) =>
       /\ w.expected <= record.recordVersion
       /\ record.recordVersion = w.expected => Replaces(w, record)

\* A restore has read the record as it is, as it was, or of an earlier life.
RestoreHolds(c) ==
  /\ c.target <= c.current.draftRevision
  /\ Studio!ValidRecord(c.current)
  /\ c.life <= births
  /\ Current(c.life) =>
       /\ c.current.recordVersion <= record.recordVersion
       /\ record.recordVersion = c.current.recordVersion => c.current = record

CallHolds(c) ==
  /\ c \in Studio!Restoring => RestoreHolds(c)
  /\ c \in Studio!Writing => WriteHolds(c)

RecordHolds ==
  /\ record # Nil /\ ~intruded => record.updatedAt <= studioClock
  /\ record = Nil => revisions = <<>>
  /\ Studio!StudioIsReadable /\ Studio!PublishedAsNamed

StudioHolds ==
  /\ Studio!TypeOK
  /\ RecordHolds
  /\ \A p \in Author : CallHolds(studioCall[p])

-----------------------------------------------------------------------------
LEMMA StudioInitHolds == ASSUME Studio!StudioConstants, Studio!Init PROVE StudioHolds
<1>1. Studio!TypeOK
  <2>1. intruded \in BOOLEAN
    BY DEF Studio!Init
  <2>2. QED
    BY <2>1 DEF Studio!StudioConstants, Studio!Init, Studio!TypeOK
<1>2. RecordHolds
  BY DEF Studio!Init, RecordHolds, Studio!StudioIsReadable, Studio!PublishedAsNamed,
         Studio!PublicationIsItsRevision
<1>3. \A p \in Author : CallHolds(studioCall[p])
  BY DEF Studio!StudioConstants, Studio!Init, CallHolds
<1>4. QED
  BY <1>1, <1>2, <1>3 DEF StudioHolds

\* A call goes on, or ends, and nothing else changes.
LEMMA StudioCallGoesOn ==
  ASSUME StudioHolds, NEW p \in Author, NEW c \in Studio!Restoring \cup Studio!Writing \cup {Nil},
         CallHolds(c), studioCall' = [studioCall EXCEPT ![p] = c],
         UNCHANGED <<studioClock, record, revisions, births, intruded>>
  PROVE  StudioHolds'
<1>1. Studio!TypeOK'
  BY DEF StudioHolds, Studio!TypeOK
<1>2. RecordHolds'
  BY DEF StudioHolds, RecordHolds, Studio!StudioIsReadable, Studio!PublishedAsNamed,
         Studio!PublicationIsItsRevision, Studio!ValidRecord, Studio!ValidHistory
<1>3. ASSUME NEW q \in Author PROVE CallHolds(studioCall[q])'
  <2>1. studioCall'[q] = c \/ studioCall'[q] = studioCall[q]
    BY DEF StudioHolds, Studio!TypeOK
  <2>2. CallHolds(studioCall'[q])
    BY <2>1 DEF StudioHolds
  <2>3. QED
    BY <2>2 DEF CallHolds, RestoreHolds, WriteHolds, Current, FirstDraft, Replaces, NextDraft,
                NextPublication, Studio!ValidRecord
<1>4. QED
  BY <1>1, <1>2, <1>3 DEF StudioHolds

LEMMA StudioWriteBegins ==
  ASSUME Studio!StudioConstants, StudioHolds, NEW p \in Author, NEW e \in Nat,
         NEW next \in Studio!Record, NEW added \in Studio!Revision \cup {Nil}, NEW life \in Nat,
         WriteHolds([step |-> "writing", expected |-> e, next |-> next, revision |-> added,
                     life |-> life]),
         Studio!Write(p, e, next, added, life)
  PROVE  StudioHolds'
<1> DEFINE w == [step |-> "writing", expected |-> e, next |-> next, revision |-> added,
                 life |-> life]
<1>1. w \in Studio!Writing /\ w.expected = e /\ w.step = "writing"
  BY DEF Studio!Writing
<1>2. w \notin Studio!Restoring
  BY <1>1 DEF Studio!Restoring
<1>3. /\ studioCall' = [studioCall EXCEPT ![p] = w]
      /\ UNCHANGED <<studioClock, record, revisions, births, intruded>>
  BY DEF Studio!Write, Studio!Set
<1>4. WriteHolds(w)
  OBVIOUS
<1> HIDE DEF w
<1>5. CallHolds(w)
  BY <1>1, <1>2, <1>4 DEF CallHolds
<1>6. QED
  BY <1>1, <1>3, <1>5, StudioCallGoesOn

LEMMA CreateHolds ==
  ASSUME Studio!StudioConstants, StudioHolds, NEW p \in Author, NEW d \in Document,
         Studio!Create(p, d)
  PROVE  StudioHolds'
<1> DEFINE next == [recordVersion |-> 1, draftRevision |-> 1, document |-> d,
                    publication |-> Nil, publishedDraftRevision |-> Nil,
                    createdAt |-> studioClock, updatedAt |-> studioClock, publishedAt |-> Nil]
           added == [document |-> d, recordedAt |-> studioClock]
           w == [step |-> "writing", expected |-> 0, next |-> next, revision |-> added,
                 life |-> births]
<1>1. Studio!Write(p, 0, next, added, births)
  BY DEF Studio!Create, Studio!RevisionOf
<1>2. studioClock \in Nat /\ births \in Nat
  BY DEF StudioHolds, Studio!TypeOK
<1>3. next \in Studio!Record /\ added \in Studio!Revision
  BY <1>2 DEF Studio!Record, Studio!Revision, Studio!Instant
<1>4. added # Nil
  BY <1>3 DEF Studio!StudioConstants
<1>5. WriteHolds(w)
  <2>1. w.expected = 0 /\ w.life <= births /\ FirstDraft(w)
    BY <1>2, <1>4 DEF FirstDraft
  <2> HIDE DEF w
  <2>2. QED
    BY <2>1 DEF WriteHolds
<1> HIDE DEF next, added
<1>6. QED
  BY <1>1, <1>2, <1>3, <1>5, StudioWriteBegins

\* What a mutation of the record as it is writes.
LEMMA StudioReplaces ==
  ASSUME Studio!StudioConstants, StudioHolds, NEW p \in Author,
         NEW next \in Studio!Record, NEW added \in Studio!Revision \cup {Nil},
         record # Nil,
         ~intruded => Replaces([step |-> "writing", expected |-> record.recordVersion,
                                next |-> next, revision |-> added, life |-> births], record),
         Studio!Write(p, record.recordVersion, next, added, births)
  PROVE  StudioHolds'
<1> DEFINE w == [step |-> "writing", expected |-> record.recordVersion, next |-> next,
                 revision |-> added, life |-> births]
<1>1. record.recordVersion \in Nat \ {0} /\ births \in Nat
  BY DEF StudioHolds, Studio!TypeOK, Studio!Record
<1>2. w.expected = record.recordVersion /\ w.life = births /\ (~intruded => Replaces(w, record))
  OBVIOUS
<1> HIDE DEF w
<1>3. WriteHolds(w)
  BY <1>1, <1>2 DEF WriteHolds, Current
<1>4. QED
  BY <1>1, <1>3, StudioWriteBegins DEF w

\* A mutation reads the record as it is.
LEMMA LoadedFacts ==
  ASSUME StudioHolds, NEW p \in Author, NEW e, Studio!Loaded(p, e)
  PROVE  /\ record # Nil /\ record \in Studio!Record /\ Studio!ValidRecord(record)
         /\ e = record.recordVersion
         /\ births \in Nat /\ studioClock \in Nat
         /\ ~intruded => record.updatedAt <= studioClock
  BY DEF StudioHolds, RecordHolds, Studio!TypeOK, Studio!Loaded

LEMMA RedraftedFacts ==
  ASSUME NEW r \in Studio!Record, NEW d \in Document, studioClock \in Nat
  PROVE  /\ Studio!Redrafted(r, d) \in Studio!Record
         /\ Studio!Redrafted(r, d).recordVersion = r.recordVersion + 1
         /\ Studio!Redrafted(r, d).draftRevision = r.draftRevision + 1
         /\ Studio!Redrafted(r, d).document = d
         /\ Studio!Redrafted(r, d).publication = r.publication
         /\ Studio!Redrafted(r, d).publishedDraftRevision = r.publishedDraftRevision
         /\ Studio!Redrafted(r, d).createdAt = r.createdAt
         /\ Studio!Redrafted(r, d).updatedAt = studioClock
         /\ Studio!Redrafted(r, d).publishedAt = r.publishedAt
<1> DEFINE full == [recordVersion |-> r.recordVersion + 1, draftRevision |-> r.draftRevision + 1,
                    document |-> d, publication |-> r.publication,
                    publishedDraftRevision |-> r.publishedDraftRevision,
                    createdAt |-> r.createdAt, updatedAt |-> studioClock,
                    publishedAt |-> r.publishedAt]
<1>1. ASSUME NEW x, x = Studio!Redrafted(r, d) PROVE x = full
  BY <1>1 DEF Studio!Redrafted, Studio!Record
<1>2. full \in Studio!Record
  BY DEF Studio!Record
<1>3. QED
  BY <1>1, <1>2

\* The next draft of the record as it is.
LEMMA RedraftReplaces ==
  ASSUME Studio!StudioConstants, NEW r \in Studio!Record, NEW d \in Document, NEW e, NEW life,
         studioClock \in Nat
  PROVE  /\ Studio!Redrafted(r, d) \in Studio!Record
         /\ Studio!RevisionOf(d) \in Studio!Revision
         /\ r.updatedAt <= studioClock =>
              Replaces([step |-> "writing", expected |-> e, next |-> Studio!Redrafted(r, d),
                        revision |-> Studio!RevisionOf(d), life |-> life], r)
<1> DEFINE next == Studio!Redrafted(r, d)
           added == Studio!RevisionOf(d)
<1>1. /\ added \in Studio!Revision /\ added # Nil
      /\ added.document = d /\ added.recordedAt = studioClock
  BY DEF Studio!RevisionOf, Studio!Revision, Studio!StudioConstants
<1>2. /\ next \in Studio!Record
      /\ next.recordVersion = r.recordVersion + 1 /\ next.draftRevision = r.draftRevision + 1
      /\ next.document = d /\ next.publication = r.publication
      /\ next.publishedDraftRevision = r.publishedDraftRevision
      /\ next.createdAt = r.createdAt /\ next.updatedAt = studioClock
      /\ next.publishedAt = r.publishedAt
  BY RedraftedFacts
<1> HIDE DEF next, added
<1>3. r.updatedAt <= studioClock =>
        Replaces([step |-> "writing", expected |-> e, next |-> next, revision |-> added,
                  life |-> life], r)
  BY <1>1, <1>2 DEF Replaces, NextDraft
<1>4. QED
  BY <1>1, <1>2, <1>3 DEF next, added

LEMMA SaveHolds ==
  ASSUME Studio!StudioConstants, StudioHolds, NEW p \in Author, NEW e \in 1..MaxVersion,
         NEW d \in Document, Studio!Save(p, e, d)
  PROVE  StudioHolds'
<1>1. /\ Studio!Loaded(p, e)
      /\ Studio!Write(p, e, Studio!Redrafted(record, d), Studio!RevisionOf(d), births)
  BY DEF Studio!Save
<1>2. /\ record # Nil /\ record \in Studio!Record /\ e = record.recordVersion
      /\ studioClock \in Nat /\ (~intruded => record.updatedAt <= studioClock)
  BY <1>1, LoadedFacts
<1>3. QED
  BY <1>1, <1>2, RedraftReplaces, StudioReplaces

LEMMA PublishHolds ==
  ASSUME Studio!StudioConstants, StudioHolds, NEW p \in Author, NEW e \in 1..MaxVersion,
         Studio!Publish(p, e)
  PROVE  StudioHolds'
<1> DEFINE next == [record EXCEPT !.recordVersion = @ + 1, !.publication = record.document,
                                  !.publishedDraftRevision = record.draftRevision,
                                  !.updatedAt = studioClock, !.publishedAt = studioClock]
           full == [recordVersion |-> record.recordVersion + 1,
                    draftRevision |-> record.draftRevision, document |-> record.document,
                    publication |-> record.document,
                    publishedDraftRevision |-> record.draftRevision,
                    createdAt |-> record.createdAt, updatedAt |-> studioClock,
                    publishedAt |-> studioClock]
<1>1. /\ Studio!Loaded(p, e) /\ Studio!Write(p, e, next, Nil, births)
      /\ record.document \in Publishable
  BY DEF Studio!Publish
<1>2. /\ record # Nil /\ record \in Studio!Record /\ e = record.recordVersion
      /\ studioClock \in Nat /\ (~intruded => record.updatedAt <= studioClock)
  BY <1>1, LoadedFacts
<1>3. ASSUME NEW x, x = next PROVE x = full
  BY <1>2, <1>3 DEF Studio!Record
<1>4. full \in Studio!Record
  BY <1>2 DEF Studio!Record, Studio!Instant
<1>5. ~intruded => Replaces([step |-> "writing", expected |-> e, next |-> full, revision |-> Nil,
                             life |-> births], record)
  BY <1>1, <1>2 DEF Replaces, NextPublication
<1> HIDE DEF next, full
<1>6. QED
  BY <1>1, <1>2, <1>3, <1>4, <1>5, StudioReplaces

LEMMA UnpublishHolds ==
  ASSUME Studio!StudioConstants, StudioHolds, NEW p \in Author, NEW e \in 1..MaxVersion,
         Studio!Unpublish(p, e)
  PROVE  StudioHolds'
<1> DEFINE next == [record EXCEPT !.recordVersion = @ + 1, !.publication = Nil,
                                  !.publishedDraftRevision = Nil, !.updatedAt = studioClock,
                                  !.publishedAt = Nil]
           full == [recordVersion |-> record.recordVersion + 1,
                    draftRevision |-> record.draftRevision, document |-> record.document,
                    publication |-> Nil, publishedDraftRevision |-> Nil,
                    createdAt |-> record.createdAt, updatedAt |-> studioClock,
                    publishedAt |-> Nil]
<1>1. Studio!Loaded(p, e) /\ Studio!Write(p, e, next, Nil, births)
  BY DEF Studio!Unpublish
<1>2. /\ record # Nil /\ record \in Studio!Record /\ e = record.recordVersion
      /\ studioClock \in Nat /\ (~intruded => record.updatedAt <= studioClock)
  BY <1>1, LoadedFacts
<1>3. ASSUME NEW x, x = next PROVE x = full
  BY <1>2, <1>3 DEF Studio!Record
<1>4. full \in Studio!Record
  BY <1>2 DEF Studio!Record, Studio!Instant
<1>5. ~intruded => Replaces([step |-> "writing", expected |-> e, next |-> full, revision |-> Nil,
                             life |-> births], record)
  BY <1>1, <1>2 DEF Replaces, NextPublication
<1> HIDE DEF next, full
<1>6. QED
  BY <1>1, <1>2, <1>3, <1>4, <1>5, StudioReplaces

\* A call that is at this step is of this kind.
LEMMA CallKinds ==
  ASSUME Studio!StudioConstants, StudioHolds, NEW p \in Author, studioCall[p] # Nil
  PROVE  /\ studioCall[p].step = "restoring" => studioCall[p] \in Studio!Restoring
         /\ studioCall[p].step = "writing" => studioCall[p] \in Studio!Writing
         /\ CallHolds(studioCall[p])
<1>1. studioCall[p] \in Studio!Restoring \cup Studio!Writing
  BY DEF StudioHolds, Studio!TypeOK
<1>2. /\ studioCall[p] \in Studio!Restoring => studioCall[p].step = "restoring"
      /\ studioCall[p] \in Studio!Writing => studioCall[p].step = "writing"
  BY DEF Studio!Restoring, Studio!Writing
<1>3. QED
  BY <1>1, <1>2 DEF StudioHolds

LEMMA RestoreBeginHolds ==
  ASSUME Studio!StudioConstants, StudioHolds, NEW p \in Author, NEW e \in 1..MaxVersion,
         NEW target \in 1..MaxVersion, Studio!Restore(p, e, target)
  PROVE  StudioHolds'
<1> DEFINE c == [step |-> "restoring", current |-> record, target |-> target, life |-> births]
<1>1. /\ Studio!Loaded(p, e) /\ target <= record.draftRevision
      /\ studioCall' = [studioCall EXCEPT ![p] = c]
      /\ UNCHANGED <<studioClock, record, revisions, births, intruded>>
  BY DEF Studio!Restore, Studio!Set
<1>2. /\ record # Nil /\ record \in Studio!Record /\ Studio!ValidRecord(record) /\ births \in Nat
      /\ record.recordVersion \in Nat
  BY <1>1, LoadedFacts DEF Studio!Record
<1>3. c \in Studio!Restoring
  BY <1>2 DEF Studio!Restoring
<1>4. RestoreHolds(c)
  BY <1>1, <1>2 DEF RestoreHolds
<1>5. c \notin Studio!Writing
  BY DEF Studio!Writing
<1> HIDE DEF c
<1>6. QED
  BY <1>1, <1>2, <1>3, <1>4, <1>5, StudioCallGoesOn DEF CallHolds

LEMMA RestoreReadHolds ==
  ASSUME Studio!StudioConstants, StudioHolds, NEW p \in Author, Studio!RestoreRead(p)
  PROVE  StudioHolds'
<1> DEFINE c == studioCall[p]
           current == c.current
           d == revisions[c.target].document
           next == Studio!Redrafted(current, d)
           added == Studio!RevisionOf(d)
           w == [step |-> "writing", expected |-> current.recordVersion, next |-> next,
                 revision |-> added, life |-> c.life]
<1>1. /\ c # Nil /\ c.step = "restoring" /\ Studio!ValidHistory(current, revisions)
      /\ Studio!Write(p, current.recordVersion, next, added, c.life)
  BY DEF Studio!RestoreRead
<1>2. c \in Studio!Restoring /\ RestoreHolds(c)
  BY <1>1, CallKinds DEF CallHolds
<1>3. /\ current \in Studio!Record /\ c.target \in Nat \ {0} /\ c.target <= current.draftRevision
      /\ current.recordVersion \in Nat \ {0} /\ c.life \in Nat /\ c.life <= births
  BY <1>2 DEF RestoreHolds, Studio!Restoring, Studio!Record
<1>4. d \in Document
  <2>1. c.target \in 1..Len(revisions)
    BY <1>1, <1>3 DEF Studio!ValidHistory, Studio!Record
  <2>2. revisions \in Seq(Studio!Revision)
    BY DEF StudioHolds, Studio!TypeOK
  <2> HIDE DEF c
  <2>3. revisions[c.target] \in Studio!Revision
    BY <2>1, <2>2
  <2>4. QED
    BY <2>3 DEF Studio!Revision
<1>5. studioClock \in Nat
  BY DEF StudioHolds, Studio!TypeOK
<1>6. next \in Studio!Record /\ added \in Studio!Revision
  <2> HIDE DEF c, d
  <2>1. QED
    BY <1>3, <1>4, <1>5, RedraftedFacts DEF Studio!RevisionOf, Studio!Revision
<1>7. WriteHolds(w)
  <2>1. w.expected = current.recordVersion /\ w.life = c.life
    OBVIOUS
  <2>2. ASSUME Current(c.life), record.recordVersion = current.recordVersion
        PROVE  Replaces(w, record)
    <3>1. current = record
      BY <1>2, <2>2 DEF RestoreHolds
    <3>2. record.updatedAt <= studioClock
      BY <2>2 DEF StudioHolds, RecordHolds, Current
    <3> HIDE DEF c, d
    <3>3. QED
      BY <1>3, <1>4, <1>5, <3>1, <3>2, RedraftReplaces
  <2>3. Current(c.life) => current.recordVersion <= record.recordVersion
    BY <1>2 DEF RestoreHolds
  <2> HIDE DEF w, next, added, current, d, c
  <2>4. QED
    BY <1>3, <2>1, <2>2, <2>3 DEF WriteHolds
<1>8. QED
  <2> HIDE DEF next, added, current, d
  <2> DEFINE life == c.life
  <2>1. life \in Nat /\ current.recordVersion \in Nat
    BY <1>3
  <2> HIDE DEF c, life
  <2>2. QED
    BY <1>1, <1>6, <1>7, <2>1, StudioWriteBegins DEF life

LEMMA RestoreFailsHolds ==
  ASSUME Studio!StudioConstants, StudioHolds, NEW p \in Author, Studio!RestoreFails(p)
  PROVE  StudioHolds'
<1>1. CallHolds(Nil)
  BY DEF Studio!StudioConstants, CallHolds
<1>2. QED
  BY <1>1, StudioCallGoesOn DEF Studio!RestoreFails, Studio!Set

\* The first draft of an experience that is not stored.
LEMMA CommitFirst ==
  ASSUME Studio!StudioConstants, StudioHolds, NEW w \in Studio!Writing, CallHolds(w),
         w.expected = 0, record = Nil, record' = w.next,
         revisions' = Append(revisions, w.revision), studioClock' = studioClock
  PROVE  RecordHolds' /\ w.revision \in Studio!Revision
<1>1. FirstDraft(w) /\ revisions = <<>>
  BY DEF CallHolds, WriteHolds, StudioHolds, RecordHolds
<1>2. w.next \in Studio!Record /\ w.revision \in Studio!Revision
  BY <1>1 DEF FirstDraft, Studio!Writing
<1>3. /\ Len(revisions') = 1 /\ revisions'[1] = w.revision
  BY <1>1
<1>4. /\ w.next.recordVersion = 1 /\ w.next.draftRevision = 1
      /\ w.next.document = w.revision.document
      /\ w.next.publication = Nil /\ w.next.publishedDraftRevision = Nil
      /\ w.next.publishedAt = Nil /\ w.next.createdAt = w.next.updatedAt
      /\ w.next.updatedAt = w.revision.recordedAt /\ w.next.updatedAt <= studioClock
      /\ w.next.updatedAt \in Nat /\ w.next # Nil
  BY <1>1, <1>2 DEF FirstDraft, Studio!Record, Studio!StudioConstants
<1>5. Studio!ValidRecord(w.next)
  BY <1>4 DEF Studio!ValidRecord
<1>6. Studio!ValidHistory(w.next, revisions')
  BY <1>3, <1>4 DEF Studio!ValidHistory
<1>7. Studio!StudioIsReadable' /\ Studio!PublishedAsNamed'
  BY <1>4, <1>5, <1>6
     DEF Studio!StudioIsReadable, Studio!PublishedAsNamed, Studio!PublicationIsItsRevision,
         Studio!ValidRecord, Studio!ValidHistory
<1>8. QED
  BY <1>2, <1>4, <1>7 DEF RecordHolds

\* What the record and its history are when a later write finds its version.
LEMMA CommitFacts ==
  ASSUME Studio!StudioConstants, StudioHolds, NEW w \in Studio!Writing, CallHolds(w),
         w.expected # 0, Current(w.life), record.recordVersion = w.expected
  PROVE  /\ record # Nil /\ Replaces(w, record) /\ record \in Studio!Record /\ w.next \in Studio!Record
         /\ w.next # Nil /\ record.updatedAt <= studioClock
         /\ revisions \in Seq(Studio!Revision)
         /\ Studio!ValidRecord(record) /\ Studio!ValidHistory(record, revisions)
         /\ record.publication # Nil =>
              record.publication = revisions[record.publishedDraftRevision].document
<1>1. Replaces(w, record) /\ w.next \in Studio!Record
  BY DEF CallHolds, WriteHolds, Current, Studio!Writing
<1>2. QED
  BY <1>1 DEF StudioHolds, RecordHolds, Studio!TypeOK, Studio!StudioIsReadable, Current,
              Studio!PublishedAsNamed, Studio!PublicationIsItsRevision, Studio!StudioConstants

\* The next draft of the record: its history grows by it.
LEMMA CommitDraft ==
  ASSUME Studio!StudioConstants, StudioHolds, NEW w \in Studio!Writing, CallHolds(w),
         w.expected # 0, Current(w.life), record.recordVersion = w.expected,
         w.revision # Nil, record' = w.next, revisions' = Append(revisions, w.revision),
         studioClock' = studioClock
  PROVE  RecordHolds' /\ w.revision \in Studio!Revision
<1>1. /\ Replaces(w, record) /\ record \in Studio!Record /\ w.next \in Studio!Record
      /\ w.next # Nil /\ record.updatedAt <= studioClock
      /\ revisions \in Seq(Studio!Revision)
      /\ Studio!ValidRecord(record) /\ Studio!ValidHistory(record, revisions)
      /\ record.publication # Nil =>
           record.publication = revisions[record.publishedDraftRevision].document
  BY CommitFacts
<1>2. NextDraft(w, record) /\ w.revision \in Studio!Revision
  BY <1>1 DEF Replaces, NextPublication, Studio!Writing
<1> DEFINE r == w.next
           n == record.draftRevision
<1>3. /\ r.recordVersion = record.recordVersion + 1 /\ r.createdAt = record.createdAt
      /\ record.updatedAt <= r.updatedAt /\ r.updatedAt <= studioClock
      /\ r.document = w.revision.document /\ r.updatedAt = w.revision.recordedAt
      /\ r.draftRevision = n + 1 /\ r.publication = record.publication
      /\ r.publishedDraftRevision = record.publishedDraftRevision
      /\ r.publishedAt = record.publishedAt
  BY <1>1, <1>2 DEF Replaces, NextDraft
<1>4. /\ n \in Nat \ {0} /\ record.recordVersion \in Nat /\ record.createdAt \in Nat
      /\ record.updatedAt \in Nat /\ r.updatedAt \in Nat
      /\ record.publishedDraftRevision \in (Nat \ {0}) \cup {Nil}
      /\ record.publishedAt \in Nat \cup {Nil}
  BY <1>1 DEF Studio!Record, Studio!Instant
<1>5. /\ Len(revisions) = n /\ Len(revisions') = n + 1
      /\ revisions'[n + 1] = w.revision
      /\ \A i \in 1..n : revisions'[i] = revisions[i] /\ revisions[i].recordedAt \in Nat
  <2>1. Len(revisions) = n
    BY <1>1 DEF Studio!ValidHistory
  <2>2. /\ Len(revisions') = n + 1 /\ revisions'[n + 1] = w.revision
        /\ \A i \in 1..n : revisions'[i] = revisions[i]
    BY <1>1, <1>2, <1>4, <2>1
  <2>3. \A i \in 1..n : revisions[i] \in Studio!Revision
    BY <1>1, <2>1
  <2>4. \A i \in 1..n : revisions[i].recordedAt \in Nat
    BY <2>3 DEF Studio!Revision
  <2>5. QED
    BY <2>1, <2>2, <2>4
<1> HIDE DEF r, n
<1>6. Studio!ValidRecord(r)
  <2>1. /\ record.recordVersion >= n /\ record.createdAt <= record.updatedAt
        /\ record.publication # Nil =>
             /\ record.publishedDraftRevision <= n
             /\ record.publishedAt <= record.updatedAt /\ record.publishedAt # Nil
             /\ record.publishedDraftRevision # Nil
    BY <1>1 DEF Studio!ValidRecord, n
  <2>2. r.recordVersion >= r.draftRevision /\ r.createdAt <= r.updatedAt
    BY <1>3, <1>4, <2>1
  <2>3. r.publication # Nil =>
          r.publishedDraftRevision <= r.draftRevision /\ r.publishedAt <= r.updatedAt
    BY <1>3, <1>4, <2>1
  <2>4. /\ record.publication = Nil <=> record.publishedDraftRevision = Nil
        /\ record.publication = Nil <=> record.publishedAt = Nil
        /\ record.publication # Nil =>
             record.createdAt <= record.publishedAt /\ record.publication \in Publishable
    BY <1>1 DEF Studio!ValidRecord
  <2>5. QED
    BY <1>3, <2>2, <2>3, <2>4 DEF Studio!ValidRecord
<1>7. Studio!ValidHistory(r, revisions')
  <2>1. /\ \A i \in 1..n : /\ record.createdAt <= revisions[i].recordedAt
                           /\ revisions[i].recordedAt <= record.updatedAt
                           /\ \A j \in 1..i : revisions[j].recordedAt <= revisions[i].recordedAt
    BY <1>1, <1>5 DEF Studio!ValidHistory
  <2>2. ASSUME NEW i \in 1..(n + 1)
        PROVE  /\ r.createdAt <= revisions'[i].recordedAt
               /\ revisions'[i].recordedAt <= r.updatedAt
               /\ \A j \in 1..i : revisions'[j].recordedAt <= revisions'[i].recordedAt
    <3>1. CASE i \in 1..n
      BY <1>3, <1>4, <1>5, <2>1, <3>1
    <3>2. CASE i = n + 1
      <4>1. /\ record.createdAt <= record.updatedAt
        BY <1>1 DEF Studio!ValidRecord
      <4>2. \A j \in 1..n : revisions'[j].recordedAt <= r.updatedAt
        BY <1>3, <1>4, <1>5, <2>1
      <4>3. QED
        BY <1>3, <1>4, <1>5, <3>2, <4>1, <4>2
    <3>3. i \in 1..n \/ i = n + 1
      BY <1>4
    <3>4. QED
      BY <3>1, <3>2, <3>3
  <2>3. revisions'[r.draftRevision].document = r.document
    BY <1>3, <1>5
  <2>4. QED
    BY <1>3, <1>5, <2>2, <2>3 DEF Studio!ValidHistory
<1>8. r.publication # Nil => r.publication = revisions'[r.publishedDraftRevision].document
  <2>1. SUFFICES ASSUME r.publication # Nil
                 PROVE  r.publication = revisions'[r.publishedDraftRevision].document
    OBVIOUS
  <2>2. /\ record.publishedDraftRevision # Nil /\ record.publishedDraftRevision <= n
        /\ record.publication = revisions[record.publishedDraftRevision].document
    BY <1>1, <1>3, <2>1 DEF Studio!ValidRecord, n
  <2>3. record.publishedDraftRevision \in 1..n
    BY <1>4, <2>2
  <2>4. QED
    BY <1>3, <1>4, <1>5, <2>2, <2>3
<1>9. record' = r
  BY DEF r
<1>10. Studio!StudioIsReadable' /\ Studio!PublishedAsNamed'
  BY <1>6, <1>7, <1>8, <1>9
     DEF Studio!StudioIsReadable, Studio!PublishedAsNamed, Studio!PublicationIsItsRevision,
         Studio!ValidRecord, Studio!ValidHistory
<1>11. QED
  BY <1>1, <1>2, <1>3, <1>9, <1>10 DEF RecordHolds, r

\* A publication, or its withdrawal, of the record: its history stays.
LEMMA CommitPublication ==
  ASSUME Studio!StudioConstants, StudioHolds, NEW w \in Studio!Writing, CallHolds(w),
         w.expected # 0, Current(w.life), record.recordVersion = w.expected,
         w.revision = Nil, record' = w.next, UNCHANGED <<revisions, studioClock>>
  PROVE  RecordHolds'
<1>1. /\ Replaces(w, record) /\ record \in Studio!Record /\ w.next \in Studio!Record
      /\ w.next # Nil /\ record.updatedAt <= studioClock
      /\ revisions \in Seq(Studio!Revision)
      /\ Studio!ValidRecord(record) /\ Studio!ValidHistory(record, revisions)
  BY CommitFacts
<1>2. NextPublication(w, record)
  BY <1>1 DEF Replaces, NextDraft
<1> DEFINE r == w.next
           n == record.draftRevision
<1>3. /\ r.recordVersion = record.recordVersion + 1 /\ r.createdAt = record.createdAt
      /\ record.updatedAt <= r.updatedAt /\ r.updatedAt <= studioClock
      /\ r.document = record.document /\ r.draftRevision = n
  BY <1>1, <1>2 DEF Replaces, NextPublication
<1>4. \/ r.publication = Nil /\ r.publishedDraftRevision = Nil /\ r.publishedAt = Nil
      \/ /\ r.publication = record.document /\ record.document \in Publishable
         /\ r.publishedDraftRevision = n /\ r.publishedAt = r.updatedAt
  BY <1>2 DEF NextPublication
<1>5. /\ n \in Nat \ {0} /\ record.recordVersion \in Nat /\ record.createdAt \in Nat
      /\ record.updatedAt \in Nat /\ r.updatedAt \in Nat /\ record.document \in Document
  BY <1>1 DEF Studio!Record, Studio!Instant
<1> HIDE DEF r, n
<1>6. Studio!ValidRecord(r)
  BY <1>1, <1>3, <1>4, <1>5 DEF Studio!ValidRecord, Studio!StudioConstants, n
<1>7. Studio!ValidHistory(r, revisions)
  <2>1. /\ Len(revisions) = n /\ revisions[n].document = record.document
        /\ \A i \in 1..n : /\ record.createdAt <= revisions[i].recordedAt
                           /\ revisions[i].recordedAt <= record.updatedAt
                           /\ \A j \in 1..i : revisions[j].recordedAt <= revisions[i].recordedAt
    BY <1>1 DEF Studio!ValidHistory, n
  <2>2. \A i \in 1..n : revisions[i] \in Studio!Revision
    BY <1>1, <2>1
  <2>3. \A i \in 1..n : revisions[i].recordedAt \in Nat
    BY <2>2 DEF Studio!Revision
  <2>4. \A i \in 1..n : /\ r.createdAt <= revisions[i].recordedAt
                        /\ revisions[i].recordedAt <= r.updatedAt
    BY <1>3, <1>5, <2>1, <2>3
  <2>5. QED
    BY <1>3, <2>1, <2>4 DEF Studio!ValidHistory
<1>8. r.publication # Nil => r.publication = revisions[r.publishedDraftRevision].document
  BY <1>1, <1>4 DEF Studio!ValidHistory, n
<1>9. record' = r
  BY DEF r
<1>10. Studio!StudioIsReadable' /\ Studio!PublishedAsNamed'
  BY <1>6, <1>7, <1>8, <1>9
     DEF Studio!StudioIsReadable, Studio!PublishedAsNamed, Studio!PublicationIsItsRevision,
         Studio!ValidRecord, Studio!ValidHistory
<1>11. QED
  BY <1>1, <1>3, <1>9, <1>10 DEF RecordHolds, r

\* What another call read is of an earlier life, or there was a late write: it
\* may be anything.
LEMMA OthersArePast ==
  ASSUME StudioHolds, births \in Nat, births' \in Nat, births <= births',
         births' # births \/ intruded', studioClock' = studioClock,
         NEW q \in Author, CallHolds(studioCall'[q]),
         studioCall'[q] \in Studio!Restoring => studioCall'[q].life \in Nat,
         studioCall'[q] \in Studio!Writing => studioCall'[q].life \in Nat
  PROVE  CallHolds(studioCall[q])'
<1> DEFINE c == studioCall'[q]
<1>1. ASSUME c \in Studio!Restoring PROVE RestoreHolds(studioCall[q])'
  <2>1. c.life \in Nat /\ c.life <= births /\ RestoreHolds(c)
    BY <1>1 DEF CallHolds, RestoreHolds
  <2>2. c.life <= births' /\ ~Current(studioCall[q].life)'
    BY <2>1 DEF Current
  <2>3. QED
    BY <2>1, <2>2 DEF RestoreHolds, Studio!ValidRecord
<1>2. ASSUME c \in Studio!Writing PROVE WriteHolds(studioCall[q])'
  <2>1. c.life \in Nat /\ c.life <= births /\ WriteHolds(c)
    BY <1>2 DEF CallHolds, WriteHolds
  <2>2. c.life <= births' /\ ~Current(studioCall[q].life)'
    BY <2>1 DEF Current
  <2>3. QED
    BY <2>1, <2>2 DEF WriteHolds, FirstDraft
<1>3. QED
  BY <1>1, <1>2 DEF CallHolds

\* A write of the first draft: what was read before is of an earlier life.
LEMMA CommitCreates ==
  ASSUME Studio!StudioConstants, StudioHolds, NEW p \in Author, Studio!Commit(p),
         Studio!Holds(studioCall[p]), studioCall[p].expected = 0
  PROVE  StudioHolds'
<1> DEFINE w == studioCall[p]
<1>1. /\ w # Nil /\ w.step = "writing" /\ studioClock' = studioClock
      /\ studioCall' = [studioCall EXCEPT ![p] = Nil]
      /\ record = Nil /\ record' = w.next
      /\ revisions' = IF w.revision = Nil THEN revisions ELSE Append(revisions, w.revision)
      /\ births' = births + 1 /\ births' <= MaxBirths /\ intruded' \in BOOLEAN
  BY DEF Studio!Commit, Studio!Holds, Studio!Set
<1>2. w \in Studio!Writing /\ CallHolds(w) /\ w.expected = 0
  BY <1>1, CallKinds
<1>3. studioCall \in [Author -> Studio!Restoring \cup Studio!Writing \cup {Nil}]
      /\ births \in 0..MaxBirths /\ MaxBirths \in Nat
  BY DEF StudioHolds, Studio!TypeOK, Studio!StudioConstants
<1>4. w.revision # Nil /\ FirstDraft(w) /\ w.next \in Studio!Record
  BY <1>2 DEF CallHolds, WriteHolds, FirstDraft, Studio!Writing
<1> HIDE DEF w
<1>5. RecordHolds' /\ w.revision \in Studio!Revision
  BY <1>1, <1>2, <1>4, CommitFirst
<1>6. births' \in 0..MaxBirths
  BY <1>1, <1>3
<1>7. Studio!TypeOK'
  BY <1>1, <1>3, <1>4, <1>5, <1>6 DEF StudioHolds, Studio!TypeOK
<1>8. ASSUME NEW q \in Author PROVE CallHolds(studioCall[q])'
  <2>1. CallHolds(Nil)
    BY DEF Studio!StudioConstants, CallHolds
  <2>2. studioCall'[q] = Nil \/ studioCall'[q] = studioCall[q]
    BY <1>1, <1>3
  <2>3. CallHolds(studioCall'[q])
    BY <2>1, <2>2 DEF StudioHolds
  <2>4. /\ studioCall'[q] \in Studio!Restoring => studioCall'[q].life \in Nat
        /\ studioCall'[q] \in Studio!Writing => studioCall'[q].life \in Nat
    BY DEF Studio!Restoring, Studio!Writing
  <2>5. births \in Nat /\ births' \in Nat /\ births <= births' /\ births' # births
    BY <1>1, <1>3
  <2>6. QED
    BY <1>1, <2>3, <2>4, <2>5, OthersArePast
<1>9. QED
  BY <1>5, <1>7, <1>8 DEF StudioHolds

\* A write that was checked against an experience that had the id before, or
\* any after it: nothing is claimed of what is stored.
LEMMA CommitLate ==
  ASSUME Studio!StudioConstants, StudioHolds, NEW p \in Author, Studio!Commit(p),
         Studio!Holds(studioCall[p]), studioCall[p].expected # 0,
         ~Current(studioCall[p].life)
  PROVE  StudioHolds'
<1> DEFINE w == studioCall[p]
<1>1. /\ w # Nil /\ w.step = "writing" /\ studioClock' = studioClock
      /\ studioCall' = [studioCall EXCEPT ![p] = Nil]
      /\ record # Nil /\ record' = w.next
      /\ revisions' = IF w.revision = Nil THEN revisions ELSE Append(revisions, w.revision)
      /\ births' = births + 0
  BY DEF Studio!Commit, Studio!Holds, Studio!Set
<1>2. w \in Studio!Writing /\ CallHolds(w)
  BY <1>1, CallKinds
<1>3. studioCall \in [Author -> Studio!Restoring \cup Studio!Writing \cup {Nil}]
      /\ births \in 0..MaxBirths /\ births \in Nat /\ revisions \in Seq(Studio!Revision)
  BY DEF StudioHolds, Studio!TypeOK, Studio!StudioConstants
<1>4. intruded \/ w.life # births
  BY <1>1 DEF Current
<1>5. intruded' = TRUE
  BY <1>4 DEF Studio!Commit
<1>6. /\ w.next \in Studio!Record /\ w.revision \in Studio!Revision \cup {Nil}
      /\ record' # Nil /\ births' = births
  BY <1>1, <1>2, <1>3 DEF Studio!Writing, Studio!StudioConstants
<1> HIDE DEF w
<1>7. RecordHolds'
  BY <1>5, <1>6 DEF RecordHolds, Studio!StudioIsReadable, Studio!PublishedAsNamed
<1>8. Studio!TypeOK'
  <2>1. revisions' \in Seq(Studio!Revision)
    BY <1>1, <1>3, <1>6
  <2>2. QED
    BY <1>1, <1>3, <1>5, <1>6, <2>1 DEF StudioHolds, Studio!TypeOK
<1>9. ASSUME NEW q \in Author PROVE CallHolds(studioCall[q])'
  <2>1. CallHolds(Nil)
    BY DEF Studio!StudioConstants, CallHolds
  <2>2. studioCall'[q] = Nil \/ studioCall'[q] = studioCall[q]
    BY <1>1, <1>3
  <2>3. CallHolds(studioCall'[q])
    BY <2>1, <2>2 DEF StudioHolds
  <2>4. /\ studioCall'[q] \in Studio!Restoring => studioCall'[q].life \in Nat
        /\ studioCall'[q] \in Studio!Writing => studioCall'[q].life \in Nat
    BY DEF Studio!Restoring, Studio!Writing
  <2>5. births' \in Nat /\ births <= births' /\ intruded'
    BY <1>3, <1>5, <1>6
  <2>6. QED
    BY <1>1, <1>3, <2>3, <2>4, <2>5, OthersArePast
<1>10. QED
  BY <1>7, <1>8, <1>9 DEF StudioHolds

\* A write of the version that was read, in its own life.
LEMMA CommitNext ==
  ASSUME Studio!StudioConstants, StudioHolds, NEW p \in Author, Studio!Commit(p),
         Studio!Holds(studioCall[p]), studioCall[p].expected # 0,
         Current(studioCall[p].life)
  PROVE  StudioHolds'
<1> DEFINE w == studioCall[p]
<1>1. /\ w # Nil /\ w.step = "writing" /\ studioClock' = studioClock
      /\ studioCall' = [studioCall EXCEPT ![p] = Nil]
      /\ record # Nil /\ record.recordVersion = w.expected /\ record' = w.next
      /\ revisions' = IF w.revision = Nil THEN revisions ELSE Append(revisions, w.revision)
      /\ births' = births + 0
  BY DEF Studio!Commit, Studio!Holds, Studio!Set
<1>2. w \in Studio!Writing /\ CallHolds(w) /\ w.expected # 0 /\ Current(w.life)
  BY <1>1, CallKinds
<1>3. studioCall \in [Author -> Studio!Restoring \cup Studio!Writing \cup {Nil}]
      /\ births \in 0..MaxBirths /\ births \in Nat /\ revisions \in Seq(Studio!Revision)
  BY DEF StudioHolds, Studio!TypeOK, Studio!StudioConstants
<1>4. ~intruded /\ w.life = births
  BY <1>2 DEF Current
<1>5. ~intruded' /\ births' = births
  <2>1. intruded' = (w.expected # 0 /\ (intruded \/ w.life # births))
    BY DEF Studio!Commit
  <2>2. ~(w.expected # 0 /\ (intruded \/ w.life # births))
    BY <1>4
  <2>3. births' = births
    BY <1>1, <1>3
  <2>4. QED
    BY <2>1, <2>2, <2>3
<1> HIDE DEF w
<1>6. Replaces(w, record) /\ w.next \in Studio!Record /\ w.next # Nil /\ record \in Studio!Record
  BY <1>1, <1>2, CommitFacts
<1>7. RecordHolds' /\ revisions' \in Seq(Studio!Revision)
  <2>1. CASE w.revision = Nil
    BY <1>1, <1>2, <1>3, <2>1, CommitPublication
  <2>2. CASE w.revision # Nil
    <3>1. RecordHolds' /\ w.revision \in Studio!Revision
      BY <1>1, <1>2, <2>2, CommitDraft
    <3>2. QED
      BY <1>1, <1>3, <2>2, <3>1
  <2>3. QED
    BY <2>1, <2>2
<1>8. Studio!TypeOK'
  <2>1. intruded' \in BOOLEAN
    BY DEF Studio!Commit
  <2>2. QED
    BY <1>1, <1>3, <1>5, <1>6, <1>7, <2>1 DEF StudioHolds, Studio!TypeOK
<1>9. ASSUME NEW q \in Author PROVE CallHolds(studioCall[q])'
  <2> DEFINE c == studioCall'[q]
  <2>1. CallHolds(Nil)
    BY DEF Studio!StudioConstants, CallHolds
  <2>2. c = Nil \/ c = studioCall[q]
    BY <1>1, <1>3
  <2>3. CallHolds(c)
    BY <2>1, <2>2 DEF StudioHolds
  <2>4. record'.recordVersion = record.recordVersion + 1 /\ record.recordVersion \in Nat
    BY <1>1, <1>6 DEF Replaces, Studio!Record
  <2>5. Current(studioCall[q].life)' <=> Current(c.life)
    BY <1>1, <1>4, <1>5, <1>6 DEF Current
  <2>6. ASSUME c \in Studio!Restoring PROVE RestoreHolds(studioCall[q])'
    <3>1. RestoreHolds(c) /\ c.current.recordVersion \in Nat
      BY <2>3, <2>6 DEF CallHolds, Studio!Restoring, Studio!Record
    <3>2. Current(c.life) => c.current.recordVersion <= record.recordVersion
      BY <3>1 DEF RestoreHolds
    <3>3. Current(studioCall[q].life)' =>
            /\ c.current.recordVersion <= record'.recordVersion
            /\ c.current.recordVersion # record'.recordVersion
      BY <2>4, <2>5, <3>1, <3>2
    <3>4. QED
      BY <1>5, <3>1, <3>3 DEF RestoreHolds, Studio!ValidRecord
  <2>7. ASSUME c \in Studio!Writing PROVE WriteHolds(studioCall[q])'
    <3>1. WriteHolds(c) /\ c.expected \in Nat
      BY <2>3, <2>7 DEF CallHolds, Studio!Writing
    <3>2. c.expected # 0 /\ Current(c.life) => c.expected <= record.recordVersion
      BY <3>1 DEF WriteHolds
    <3>3. c.expected # 0 /\ Current(studioCall[q].life)' =>
            /\ c.expected <= record'.recordVersion
            /\ c.expected # record'.recordVersion
      BY <2>4, <2>5, <3>1, <3>2
    <3>4. c.expected = 0 => FirstDraft(studioCall[q])'
      BY <1>1, <3>1 DEF WriteHolds, FirstDraft
    <3>5. QED
      BY <1>5, <3>1, <3>3, <3>4 DEF WriteHolds
  <2>8. QED
    BY <2>6, <2>7 DEF CallHolds
<1>10. QED
  BY <1>7, <1>8, <1>9 DEF StudioHolds

\* The store replaces exactly the version that was read, so that a write is the
\* next of the record, has no effect, or is of an experience that is no more.
LEMMA CommitHolds ==
  ASSUME Studio!StudioConstants, StudioHolds, NEW p \in Author, Studio!Commit(p)
  PROVE  StudioHolds'
<1>1. CASE ~Studio!Holds(studioCall[p])
  <2>1. UNCHANGED <<studioClock, record, revisions, births, intruded>>
    BY <1>1 DEF Studio!Commit
  <2>2. CallHolds(Nil) /\ studioCall' = [studioCall EXCEPT ![p] = Nil]
    BY DEF Studio!StudioConstants, CallHolds, Studio!Commit, Studio!Set
  <2>3. QED
    BY <2>1, <2>2, StudioCallGoesOn
<1>2. CASE Studio!Holds(studioCall[p])
  BY <1>2, CommitCreates, CommitLate, CommitNext
<1>3. QED
  BY <1>1, <1>2

LEMMA DeleteHolds ==
  ASSUME StudioHolds, NEW p \in Author, NEW e \in 1..MaxVersion, Studio!Delete(p, e)
  PROVE  StudioHolds'
<1>1. /\ record # Nil /\ record' = Nil /\ revisions' = <<>>
      /\ UNCHANGED <<studioClock, studioCall, births>>
  BY DEF Studio!Delete
<1>2. Studio!TypeOK'
  <2>1. intruded' \in BOOLEAN
    BY DEF Studio!Delete
  <2>2. QED
    BY <1>1, <2>1 DEF StudioHolds, Studio!TypeOK
<1>3. RecordHolds'
  BY <1>1 DEF RecordHolds, Studio!StudioIsReadable, Studio!PublishedAsNamed,
              Studio!PublicationIsItsRevision
<1>4. ASSUME NEW q \in Author PROVE CallHolds(studioCall[q])'
  <2>1. CallHolds(studioCall[q])
    BY DEF StudioHolds
  <2>2. QED
    BY <1>1, <2>1
       DEF CallHolds, RestoreHolds, WriteHolds, Current, FirstDraft, Studio!ValidRecord
<1>5. QED
  BY <1>2, <1>3, <1>4 DEF StudioHolds

\* What is dated is dated before now.
LEMMA StudioClockMoves ==
  ASSUME StudioHolds, studioClock' \in 0..MaxTime, studioClock <= studioClock',
         UNCHANGED <<record, revisions, studioCall, births, intruded>>
  PROVE  StudioHolds'
<1>1. Studio!TypeOK' /\ studioClock \in Nat /\ studioClock' \in Nat
  BY DEF StudioHolds, Studio!TypeOK
<1>2. RecordHolds'
  <2>1. record # Nil => record.updatedAt \in Nat
    BY DEF StudioHolds, Studio!TypeOK, Studio!Record
  <2>2. record' # Nil /\ ~intruded' => record'.updatedAt <= studioClock'
    BY <1>1, <2>1 DEF StudioHolds, RecordHolds
  <2>3. QED
    BY <2>2 DEF StudioHolds, RecordHolds, Studio!StudioIsReadable, Studio!PublishedAsNamed,
                Studio!PublicationIsItsRevision, Studio!ValidRecord, Studio!ValidHistory
<1>3. ASSUME NEW q \in Author PROVE CallHolds(studioCall[q])'
  <2>1. CallHolds(studioCall[q])
    BY DEF StudioHolds
  <2>2. studioCall[q] \in Studio!Writing => studioCall[q].next.updatedAt \in Nat
    BY DEF Studio!Writing, Studio!Record
  <2>3. studioCall[q] \in Studio!Writing => WriteHolds(studioCall[q])'
    <3>1. SUFFICES ASSUME studioCall[q] \in Studio!Writing PROVE WriteHolds(studioCall[q])'
      OBVIOUS
    <3>2. studioCall[q].next.updatedAt <= studioClock => studioCall[q].next.updatedAt <= studioClock'
      BY <1>1, <2>2, <3>1
    <3>3. WriteHolds(studioCall[q])
      BY <2>1, <3>1 DEF CallHolds
    <3>4. QED
      BY <3>2, <3>3 DEF WriteHolds, Current, FirstDraft, Replaces, NextDraft, NextPublication
  <2>4. studioCall[q] \in Studio!Restoring => RestoreHolds(studioCall[q])'
    BY <2>1 DEF CallHolds, RestoreHolds, Current, Studio!ValidRecord
  <2>5. QED
    BY <2>1, <2>3, <2>4 DEF CallHolds
<1>4. QED
  BY <1>1, <1>2, <1>3 DEF StudioHolds

LEMMA StudioNextHolds ==
  ASSUME Studio!StudioConstants, StudioHolds, [Studio!Next]_(Studio!vars)
  PROVE  StudioHolds'
<1>1. ASSUME NEW p \in Author, Studio!AuthorStep(p) PROVE StudioHolds'
  <2>1. CASE \E d \in Document : Studio!Create(p, d)
    BY <2>1, CreateHolds
  <2>2. CASE \E e \in 1..MaxVersion, d \in Document : Studio!Save(p, e, d)
    BY <2>2, SaveHolds
  <2>3. CASE \E e \in 1..MaxVersion, n \in 1..MaxVersion : Studio!Restore(p, e, n)
    BY <2>3, RestoreBeginHolds
  <2>4. CASE Studio!RestoreRead(p)
    BY <2>4, RestoreReadHolds
  <2>5. CASE Studio!RestoreFails(p)
    BY <2>5, RestoreFailsHolds
  <2>6. CASE \E e \in 1..MaxVersion : Studio!Publish(p, e)
    BY <2>6, PublishHolds
  <2>7. CASE \E e \in 1..MaxVersion : Studio!Unpublish(p, e)
    BY <2>7, UnpublishHolds
  <2>8. CASE \E e \in 1..MaxVersion : Studio!Delete(p, e)
    BY <2>8, DeleteHolds
  <2>9. CASE Studio!Commit(p)
    BY <2>9, CommitHolds
  <2>10. QED
    BY <1>1, <2>1, <2>2, <2>3, <2>4, <2>5, <2>6, <2>7, <2>8, <2>9 DEF Studio!AuthorStep
<1>2. studioClock \in 0..MaxTime /\ MaxTime \in Nat
  BY DEF StudioHolds, Studio!TypeOK, Studio!StudioConstants
<1>3. CASE Studio!Tick
  <2>1. studioClock' \in 0..MaxTime /\ studioClock <= studioClock'
        /\ UNCHANGED <<record, revisions, studioCall, births, intruded>>
    BY <1>2, <1>3 DEF Studio!Tick
  <2>2. QED
    BY <2>1, StudioClockMoves
<1>4. CASE UNCHANGED Studio!vars
  <2>1. studioClock' \in 0..MaxTime /\ studioClock <= studioClock'
        /\ UNCHANGED <<record, revisions, studioCall, births, intruded>>
    BY <1>2, <1>4 DEF Studio!vars
  <2>2. QED
    BY <2>1, StudioClockMoves
<1>5. QED
  BY <1>1, <1>3, <1>4 DEF Studio!Next

\* Whatever two authors save, restore, publish and delete between the reads and
\* the write of one another, no write is made of a record that was replaced,
\* unless the record was deleted and its id used again meanwhile: what the store
\* compares is the version alone, which begins anew (intruded says when).
THEOREM StudioHoldsAlways ==
  ASSUME Studio!StudioConstants
  PROVE  Studio!Spec => []StudioHolds
<1>1. Studio!Init => StudioHolds
  BY StudioInitHolds
<1>2. StudioHolds /\ [Studio!Next]_(Studio!vars) => StudioHolds'
  BY StudioNextHolds
<1>3. QED
  BY <1>1, <1>2, PTL DEF Studio!Spec

\* What the service has stored it can read back, and what is published is the
\* revision that it names, whatever is saved, restored or deleted meanwhile;
\* until a mutation that was checked against an experience that had the id
\* before is stored as one of this (studio-lifecycle/src/service.ts:666, 734), from
\* when nothing is claimed until it is deleted; on a clock that does not go back.
THEOREM StoredIsReadable ==
  ASSUME Studio!StudioConstants
  PROVE  Studio!Spec => [](Studio!StudioIsReadable /\ Studio!PublishedAsNamed)
<1>1. StudioHolds => Studio!StudioIsReadable /\ Studio!PublishedAsNamed
  BY DEF StudioHolds, RecordHolds
<1>2. QED
  BY <1>1, StudioHoldsAlways, PTL

\* One write changes the draft or what is published, never both.
DraftOrPublication ==
  record # Nil /\ record' # Nil /\ ~intruded' =>
    /\ revisions' # revisions => record'.publication = record.publication
    /\ record'.publication # record.publication =>
         record'.document = record.document /\ revisions' = revisions
    /\ SubSeq(revisions', 1, Len(revisions)) = revisions

LEMMA NothingStored ==
  ASSUME StudioHolds, UNCHANGED <<record, revisions>> PROVE DraftOrPublication
<1>1. revisions \in Seq(Studio!Revision)
  BY DEF StudioHolds, Studio!TypeOK
<1>2. SubSeq(revisions, 1, Len(revisions)) = revisions
  BY <1>1
<1>3. QED
  BY <1>2 DEF DraftOrPublication

LEMMA StoredApart ==
  ASSUME Studio!StudioConstants, StudioHolds, NEW p \in Author, Studio!Commit(p)
  PROVE  DraftOrPublication
<1> DEFINE w == studioCall[p]
<1>1. w \in Studio!Writing /\ CallHolds(w)
  BY CallKinds DEF Studio!Commit
<1>2. CASE ~Studio!Holds(w)
  BY <1>2, NothingStored DEF Studio!Commit
<1>3. CASE Studio!Holds(w) /\ w.expected = 0
  BY <1>3 DEF Studio!Holds, DraftOrPublication
<1>4. CASE Studio!Holds(w) /\ w.expected # 0 /\ ~Current(w.life)
  <2>1. intruded \/ w.life # births
    BY <1>4 DEF Studio!Holds, Current
  <2>2. intruded' = TRUE
    BY <1>4, <2>1 DEF Studio!Commit
  <2>3. QED
    BY <2>2 DEF DraftOrPublication
<1>5. CASE Studio!Holds(w) /\ w.expected # 0 /\ Current(w.life)
  <2>1. /\ record # Nil /\ record.recordVersion = w.expected /\ record' = w.next
        /\ revisions' = IF w.revision = Nil THEN revisions ELSE Append(revisions, w.revision)
    BY <1>5 DEF Studio!Commit, Studio!Holds
  <2> HIDE DEF w
  <2>2. Replaces(w, record) /\ revisions \in Seq(Studio!Revision)
    BY <1>1, <1>5, <2>1, CommitFacts
  <2>3. CASE NextDraft(w, record)
    <3>1. revisions' = Append(revisions, w.revision) /\ record'.publication = record.publication
      BY <2>1, <2>3 DEF NextDraft
    <3>2. w.revision \in Studio!Revision
      BY <1>1, <2>3 DEF NextDraft, Studio!Writing
    <3>3. SubSeq(revisions', 1, Len(revisions)) = revisions
      BY <2>2, <3>1, <3>2
    <3>4. QED
      BY <3>1, <3>3 DEF DraftOrPublication
  <2>4. CASE NextPublication(w, record)
    <3>1. revisions' = revisions /\ record'.document = record.document
      BY <2>1, <2>4 DEF NextPublication
    <3>2. SubSeq(revisions', 1, Len(revisions)) = revisions
      BY <2>2, <3>1
    <3>3. QED
      BY <3>1, <3>2 DEF DraftOrPublication
  <2>5. QED
    BY <2>2, <2>3, <2>4 DEF Replaces
<1>6. QED
  BY <1>2, <1>3, <1>4, <1>5

\* "Saving a later draft does not mutate the active publication": no step
\* changes both the draft and what is published, or takes a revision back, but
\* for the late write of a mutation that was checked against an experience that
\* had the id before, and those that follow it until the deletion.
THEOREM DraftsAndPublicationsApart ==
  ASSUME Studio!StudioConstants
  PROVE  Studio!Spec => Studio!DraftAndPublicationApart
<1>1. ASSUME StudioHolds, [Studio!Next]_(Studio!vars) PROVE [DraftOrPublication]_<<record, revisions>>
  <2>1. CASE \E p \in Author : Studio!Commit(p)
    BY <1>1, <2>1, StoredApart
  <2>2. CASE \E p \in Author, e \in 1..MaxVersion : Studio!Delete(p, e)
    BY <2>2 DEF Studio!Delete, DraftOrPublication
  <2>3. CASE UNCHANGED Studio!vars
    BY <2>3 DEF Studio!vars
  <2>4. CASE \E p \in Author : Studio!AuthorStep(p)
    BY <2>1, <2>2, <2>4 DEF Studio!AuthorStep, Studio!Create, Studio!Save, Studio!Restore,
         Studio!RestoreRead, Studio!RestoreFails, Studio!Publish, Studio!Unpublish, Studio!Write
  <2>5. CASE Studio!Tick
    BY <2>5 DEF Studio!Tick
  <2>6. QED
    BY <1>1, <2>3, <2>4, <2>5 DEF Studio!Next
<1>2. QED
  BY <1>1, StudioHoldsAlways, PTL
     DEF Studio!Spec, Studio!DraftAndPublicationApart, DraftOrPublication

-----------------------------------------------------------------------------
(* The sessions of browsers.                                                  *)
\* The history of memberships ends with the one that is in force, under which
\* every session and every login is, or under an earlier one.
MembershipsAreKept ==
  /\ Len(ever) = membership.revision
  /\ ever[membership.revision] =
       [active |-> membership.active, expires |-> membership.expires, ended |-> Missing]
  /\ login # Missing => login.revision <= membership.revision
  /\ \A t \in Token : rows[t] # Missing => rows[t].revision <= membership.revision

\* A request taken in time, of a session and under a membership in force then,
\* by the clock of the process that took it.
InForce(by, session, at, now) ==
  /\ now <= browserClock + ahead[by]
  /\ now <= at + Window /\ at <= now + Window
  /\ rows[session] # Missing
  /\ LET row == rows[session]
         member == ever[row.revision]
     IN  /\ row.issued <= now /\ now < row.expires
         /\ row.revoked # Missing =>
              now < row.revoked \/ Browser!NoLater(now, by, row.revoked, "administration")
         /\ member.active /\ now < member.expires
         /\ member.ended # Missing => now <= member.ended + ahead[by]

\* What the API has taken it took in time; what it has authorized was in force.
IngressHolds(p, i) ==
  /\ i.now <= browserClock + ahead[p]
  /\ i.now <= i.request.at + Window /\ i.request.at <= i.now + Window
  /\ i.step = "dispatch" => InForce(p, i.request.session, i.request.at, i.now)

BrowserHolds ==
  /\ Browser!TypeOK
  /\ MembershipsAreKept
  /\ \A p \in Ingress : ingress[p] # Missing => IngressHolds(p, ingress[p])
  /\ \A d \in dispatched : InForce(d.by, d.session, d.at, d.now)

\* What a clock says is a time.
LEMMA ClocksAreTimes ==
  ASSUME Browser!BrowserConstants, Browser!TypeOK, NEW place \in Browser!Place
  PROVE  ahead[place] \in Nat /\ browserClock \in Nat /\ Browser!Now(place) \in Nat
BY DEF Browser!BrowserConstants, Browser!TypeOK, Browser!Now

LEMMA BrowserInitHolds == ASSUME Browser!BrowserConstants, Browser!Init PROVE BrowserHolds
<1>1. ever = <<[active |-> TRUE, expires |-> MaxTime + MaxSkew, ended |-> Missing]>>
      /\ MaxTime + MaxSkew \in Nat
  BY DEF Browser!Init, Browser!BrowserConstants
<1>2. ever \in Seq(Browser!Held) /\ Len(ever) = 1
  BY <1>1 DEF Browser!BrowserConstants, Browser!Held
<1>3. membership \in Browser!Membership /\ membership.revision = 1
  BY <1>1 DEF Browser!Init, Browser!BrowserConstants, Browser!Membership
<1>4. Browser!TypeOK
  BY <1>2, <1>3 DEF Browser!Init, Browser!BrowserConstants, Browser!TypeOK
<1>5. MembershipsAreKept
  BY <1>1, <1>2 DEF Browser!Init, MembershipsAreKept
<1>6. QED
  BY <1>4, <1>5 DEF Browser!Init, BrowserHolds

\* Time, sessions and memberships only go on: a session is issued under a token
\* that has none, and one that is over stays over at the time it ended.
RowsGoOn ==
  \A t \in Token : rows[t] # Missing =>
    /\ rows'[t] # Missing
    /\ rows'[t].revision = rows[t].revision
    /\ rows'[t].issued = rows[t].issued /\ rows'[t].expires = rows[t].expires
    /\ \/ rows'[t].revoked = rows[t].revoked
       \/ rows[t].revoked = Missing /\ rows'[t].revoked = Browser!Now("administration")

MembershipsGoOn ==
  \A n \in DOMAIN ever :
    /\ n \in DOMAIN ever'
    /\ ever'[n].active = ever[n].active /\ ever'[n].expires = ever[n].expires
    /\ \/ ever'[n].ended = ever[n].ended
       \/ ever[n].ended = Missing /\ ever'[n].ended = browserClock

\* What was in force when it was taken is not undone by what comes later.
LEMMA InForceStays ==
  ASSUME Browser!BrowserConstants, Browser!TypeOK, MembershipsAreKept,
         browserClock <= browserClock', RowsGoOn, MembershipsGoOn, browserClock' \in Nat, ahead' = ahead,
         NEW by \in Ingress,
         NEW session \in Token, NEW at \in Nat, NEW now \in Nat, InForce(by, session, at, now)
  PROVE  InForce(by, session, at, now)'
<1> DEFINE row == rows[session]
           next == rows'[session]
           member == ever[row.revision]
           admin == "administration"
<1>1. /\ rows[session] # Missing /\ now <= browserClock + ahead[by]
      /\ now <= at + Window /\ at <= now + Window
      /\ row.issued <= now /\ now < row.expires
      /\ row.revoked # Missing => now < row.revoked \/ Browser!NoLater(now, by, row.revoked, admin)
      /\ member.active /\ now < member.expires
      /\ member.ended # Missing => now <= member.ended + ahead[by]
  BY DEF InForce
<1>2. /\ rows'[session] # Missing /\ next.revision = row.revision
      /\ next.issued = row.issued /\ next.expires = row.expires
      /\ \/ next.revoked = row.revoked
         \/ row.revoked = Missing /\ next.revoked = browserClock + ahead[admin]
  BY <1>1 DEF RowsGoOn, Browser!Now
<1>3. row.revision \in DOMAIN ever
  <2>1. row \in Browser!Session /\ row.revision <= membership.revision
    BY <1>1 DEF Browser!TypeOK, MembershipsAreKept
  <2>2. row.revision \in 1..Len(ever)
    BY <2>1 DEF Browser!Session, MembershipsAreKept, Browser!BrowserConstants
  <2>3. ever \in Seq(Browser!Held)
    BY DEF Browser!TypeOK
  <2>4. QED
    BY <2>2, <2>3
<1>4. /\ ever'[row.revision].active = member.active
      /\ ever'[row.revision].expires = member.expires
      /\ \/ ever'[row.revision].ended = member.ended
         \/ member.ended = Missing /\ ever'[row.revision].ended = browserClock
  BY <1>3 DEF MembershipsGoOn
<1>5. browserClock \in Nat /\ ahead[by] \in Nat /\ ahead[admin] \in Nat
  BY ClocksAreTimes DEF Browser!Place
<1>6. now <= browserClock' + ahead'[by]
  BY <1>1, <1>5
<1>7. next.revoked # Missing =>
        now < next.revoked \/ Browser!NoLater(now, by, next.revoked, admin)
  BY <1>1, <1>2, <1>5 DEF Browser!NoLater
<1>8. ever'[next.revision].ended # Missing => now <= ever'[next.revision].ended + ahead[by]
  BY <1>1, <1>2, <1>4
<1>9. QED
  BY <1>1, <1>2, <1>4, <1>6, <1>7, <1>8 DEF InForce, Browser!NoLater

\* So it is with all that the API has taken, as long as it takes nothing more.
LEMMA RequestsStay ==
  ASSUME Browser!BrowserConstants, BrowserHolds, Browser!TypeOK', MembershipsAreKept',
         browserClock <= browserClock', RowsGoOn, MembershipsGoOn, UNCHANGED <<ahead, ingress, dispatched>>
  PROVE  BrowserHolds'
<1>1. browserClock \in Nat /\ browserClock' \in Nat
  BY DEF BrowserHolds, Browser!TypeOK, Browser!BrowserConstants
<1>2. \A by \in Ingress, session \in Token, at \in Nat, now \in Nat :
        InForce(by, session, at, now) => InForce(by, session, at, now)'
  BY <1>1, InForceStays DEF BrowserHolds
<1>3. ASSUME NEW p \in Ingress, ingress[p] # Missing PROVE IngressHolds(p, ingress[p])'
  <2>1. PICK i \in Browser!Pending : i = ingress[p] /\ i = ingress'[p]
    BY <1>3 DEF BrowserHolds, Browser!TypeOK
  <2>2. IngressHolds(p, i) /\ ahead[p] \in Nat /\ i.now \in Nat /\ i.request.session \in Token /\ i.request.at \in Nat
    BY <1>3, <2>1, ClocksAreTimes DEF BrowserHolds, Browser!Pending, Browser!SignedRequest, Browser!Place
  <2>3. i.now <= browserClock' + ahead'[p]
    BY <1>1, <2>2 DEF IngressHolds
  <2>4. i.step = "dispatch" => InForce(p, i.request.session, i.request.at, i.now)'
    BY <1>2, <2>2 DEF IngressHolds
  <2>5. IngressHolds(p, i)'
    BY <2>2, <2>3, <2>4 DEF IngressHolds
  <2>6. QED
    BY <2>1, <2>5 DEF IngressHolds, InForce, Browser!NoLater
<1>4. ASSUME NEW d \in dispatched PROVE InForce(d.by, d.session, d.at, d.now)'
  <2>1. d.by \in Ingress /\ d.session \in Token /\ d.at \in Nat /\ d.now \in Nat /\ InForce(d.by, d.session, d.at, d.now)
    BY DEF BrowserHolds, Browser!TypeOK
  <2>2. QED
    BY <1>2, <2>1
<1>5. QED
  BY <1>3, <1>4 DEF BrowserHolds, InForce, Browser!NoLater

LEMMA MembershipChanges ==
  ASSUME Browser!BrowserConstants, BrowserHolds, NEW active \in BOOLEAN, NEW expires \in Nat,
         Browser!ChangeMembership(active, expires)
  PROVE  BrowserHolds'
<1> DEFINE r == membership.revision
           next == [active |-> active, expires |-> expires, ended |-> Missing]
           closed == [ever EXCEPT ![r].ended = browserClock]
<1>1. /\ membership \in Browser!Membership /\ r \in Nat \ {0} /\ r < MaxRevision
      /\ ever \in Seq(Browser!Held) /\ Len(ever) = r /\ browserClock \in Nat
      /\ MaxRevision \in Nat
  BY DEF Browser!ChangeMembership, BrowserHolds, Browser!TypeOK, Browser!Membership,
         MembershipsAreKept, Browser!BrowserConstants
<1>2. membership' = [revision |-> r + 1, active |-> active, expires |-> expires]
      /\ ever' = Append(closed, next)
      /\ UNCHANGED <<browserClock, ahead, login, rows, browser, signed, used, ingress, dispatched>>
  BY DEF Browser!ChangeMembership
<1>3. next \in Browser!Held /\ closed \in Seq(Browser!Held) /\ Len(closed) = r
  <2>1. next \in Browser!Held
    BY DEF Browser!Held
  <2>2. ever[r] \in Browser!Held /\ r \in 1..Len(ever)
    BY <1>1
  <2>3. [ever[r] EXCEPT !.ended = browserClock] \in Browser!Held
    BY <1>1, <2>2 DEF Browser!Held
  <2>4. closed = [ever EXCEPT ![r] = [ever[r] EXCEPT !.ended = browserClock]]
    OBVIOUS
  <2>5. QED
    BY <1>1, <2>1, <2>2, <2>3, <2>4
<1> HIDE DEF next
<1>4. /\ ever' \in Seq(Browser!Held) /\ Len(ever') = r + 1 /\ ever'[r + 1] = next
      /\ \A n \in 1..r : ever'[n] = closed[n]
  BY <1>1, <1>2, <1>3
<1>5. \A n \in 1..r : closed[n] = IF n = r THEN [ever[r] EXCEPT !.ended = browserClock] ELSE ever[n]
  BY <1>1
<1>6. MembershipsGoOn
  <2> SUFFICES ASSUME NEW n \in 1..r
      PROVE  /\ n \in DOMAIN ever'
             /\ ever'[n].active = ever[n].active /\ ever'[n].expires = ever[n].expires
             /\ \/ ever'[n].ended = ever[n].ended
                \/ ever[n].ended = Missing /\ ever'[n].ended = browserClock
    BY <1>1 DEF MembershipsGoOn
  <2>1. n \in DOMAIN ever' /\ ever[n] \in Browser!Held
    BY <1>1, <1>4
  <2>2. ever[r].ended = Missing
    BY DEF BrowserHolds, MembershipsAreKept
  <2>3. CASE n = r
    <3>1. ever'[n] = [ever[n] EXCEPT !.ended = browserClock]
      BY <1>4, <1>5, <2>3
    <3> HIDE DEF closed
    <3>2. /\ ever'[n].active = ever[n].active /\ ever'[n].expires = ever[n].expires
          /\ ever'[n].ended = browserClock
      BY <2>1, <3>1 DEF Browser!Held
    <3>3. QED
      BY <2>1, <2>2, <2>3, <3>2
  <2>4. CASE n # r
    BY <1>4, <1>5, <2>1, <2>4
  <2>5. QED
    BY <2>3, <2>4
<1>7. RowsGoOn /\ browserClock <= browserClock'
  BY <1>1, <1>2 DEF RowsGoOn
<1>8. membership' \in Browser!Membership
  BY <1>1, <1>2 DEF Browser!Membership
<1>9. Browser!TypeOK'
  BY <1>2, <1>4, <1>8 DEF BrowserHolds, Browser!TypeOK
<1>10. MembershipsAreKept'
  <2>1. Len(ever') = membership'.revision /\ membership'.revision = r + 1
    BY <1>2, <1>4
  <2>2. ever'[membership'.revision]
          = [active |-> membership'.active, expires |-> membership'.expires, ended |-> Missing]
    BY <1>2, <1>4 DEF next
  <2>3. login # Missing => login.revision \in Nat /\ login.revision <= r
    BY DEF BrowserHolds, Browser!TypeOK, Browser!Authorization, MembershipsAreKept
  <2>4. \A t \in Token : rows[t] # Missing => rows[t].revision \in Nat /\ rows[t].revision <= r
    BY DEF BrowserHolds, Browser!TypeOK, Browser!Session, MembershipsAreKept
  <2>5. QED
    BY <1>1, <1>2, <2>1, <2>2, <2>3, <2>4 DEF MembershipsAreKept
<1>11. QED
  BY <1>2, <1>6, <1>7, <1>9, <1>10, RequestsStay

LEMMA RevokeHolds ==
  ASSUME Browser!BrowserConstants, BrowserHolds, NEW t \in Token, Browser!Revoke(t)
  PROVE  BrowserHolds'
<1> DEFINE now == Browser!Now("administration")
<1>1. /\ rows \in [Token -> Browser!Session \cup {Missing}] /\ browserClock \in Nat /\ now \in Nat
      /\ rows[t] \in Browser!Session /\ rows[t].revoked = Missing
  BY ClocksAreTimes DEF Browser!Revoke, BrowserHolds, Browser!TypeOK, Browser!BrowserConstants, Browser!Place
<1> HIDE DEF now
<1>2. rows' = [rows EXCEPT ![t] = [rows[t] EXCEPT !.revoked = now]]
      /\ UNCHANGED <<browserClock, ahead, membership, login, browser, signed, used, ingress, dispatched, ever>>
  BY DEF Browser!Revoke, now
<1> DEFINE over == [rows[t] EXCEPT !.revoked = now]
<1>3. /\ over \in Browser!Session /\ over.revoked = now
      /\ over.revision = rows[t].revision /\ over.issued = rows[t].issued
      /\ over.expires = rows[t].expires
  BY <1>1 DEF Browser!Session
<1> HIDE DEF over
<1>4. /\ rows' \in [Token -> Browser!Session \cup {Missing}]
      /\ \A s \in Token : rows'[s] = IF s = t THEN over ELSE rows[s]
  BY <1>1, <1>2, <1>3 DEF over
<1>5. over # Missing
  BY <1>3 DEF Browser!BrowserConstants
<1>6. RowsGoOn
  BY <1>1, <1>3, <1>4, <1>5 DEF RowsGoOn, now
<1>7. MembershipsGoOn /\ browserClock <= browserClock'
  BY <1>1, <1>2 DEF MembershipsGoOn
<1>8. \A s \in Token : rows'[s] # Missing =>
         /\ rows[s] # Missing
         /\ rows'[s].revision = rows[s].revision /\ rows'[s].issued = rows[s].issued
         /\ rows'[s].expires = rows[s].expires
  BY <1>1, <1>3, <1>4 DEF Browser!BrowserConstants
<1>9. Browser!TypeOK'
  BY <1>2, <1>4, <1>8 DEF BrowserHolds, Browser!TypeOK
<1>10. MembershipsAreKept'
  BY <1>2, <1>8 DEF BrowserHolds, MembershipsAreKept
<1>11. QED
  BY <1>2, <1>6, <1>7, <1>9, <1>10, RequestsStay

LEMMA IssueHolds ==
  ASSUME Browser!BrowserConstants, BrowserHolds, NEW t \in Token, Browser!IssueBrowserSession(t)
  PROVE  BrowserHolds'
<1> DEFINE new == [revision |-> login.revision, issued |-> login.now,
                   expires |-> login.now + Lifetime, revoked |-> Missing]
<1>1. /\ rows \in [Token -> Browser!Session \cup {Missing}] /\ browserClock \in Nat
      /\ login \in Browser!Authorization /\ login.revision <= membership.revision
      /\ rows[t] = Missing
  BY DEF Browser!IssueBrowserSession, BrowserHolds, Browser!TypeOK, Browser!BrowserConstants,
         MembershipsAreKept
<1>2. /\ rows' = [rows EXCEPT ![t] = new] /\ browser' = browser \cup {t} /\ login' = Missing
      /\ UNCHANGED <<browserClock, ahead, membership, signed, used, ingress, dispatched, ever>>
  BY DEF Browser!IssueBrowserSession
<1>3. /\ new \in Browser!Session /\ new.expires = new.issued + Lifetime
      /\ new.revision <= membership.revision
  BY <1>1 DEF Browser!Session, Browser!Authorization, Browser!BrowserConstants
<1> HIDE DEF new
<1>4. /\ rows' \in [Token -> Browser!Session \cup {Missing}]
      /\ \A s \in Token : rows'[s] = IF s = t THEN new ELSE rows[s]
  BY <1>1, <1>2, <1>3
<1>5. RowsGoOn /\ MembershipsGoOn /\ browserClock <= browserClock'
  BY <1>1, <1>2, <1>4 DEF RowsGoOn, MembershipsGoOn
<1>6. Browser!TypeOK'
  BY <1>2, <1>3, <1>4 DEF BrowserHolds, Browser!TypeOK
<1>7. MembershipsAreKept'
  BY <1>2, <1>3, <1>4 DEF BrowserHolds, MembershipsAreKept
<1>8. QED
  BY <1>2, <1>5, <1>6, <1>7, RequestsStay

\* The API takes, authorizes, carries out or refuses one request.
LEMMA IngressStep ==
  ASSUME Browser!BrowserConstants, BrowserHolds,
         NEW p \in Ingress, NEW i \in Browser!Pending \cup {Missing}, i # Missing => IngressHolds(p, i),
         NEW D \in SUBSET [session : Token, at : Nat, now : Nat, by : Ingress],
         \A d \in D : InForce(d.by, d.session, d.at, d.now),
         ingress' = [ingress EXCEPT ![p] = i], dispatched' = dispatched \cup D,
         UNCHANGED <<browserClock, ahead, membership, login, rows, browser, signed, used, ever>>
  PROVE  BrowserHolds'
<1>1. ingress \in [Ingress -> Browser!Pending \cup {Missing}]
  BY DEF BrowserHolds, Browser!TypeOK
<1>2. /\ ingress' \in [Ingress -> Browser!Pending \cup {Missing}]
      /\ \A q \in Ingress : ingress'[q] = IF q = p THEN i ELSE ingress[q]
  BY <1>1
<1>3. Browser!TypeOK' /\ MembershipsAreKept'
  BY <1>2 DEF BrowserHolds, Browser!TypeOK, MembershipsAreKept
<1>4. ASSUME NEW q \in Ingress, ingress'[q] # Missing PROVE IngressHolds(q, ingress[q])'
  <2>1. PICK j : j = ingress'[q]
    OBVIOUS
  <2>2. IngressHolds(q, j)
    BY <1>2, <1>4, <2>1 DEF BrowserHolds
  <2>3. IngressHolds(q, j)'
    BY <2>2 DEF IngressHolds, InForce, Browser!NoLater
  <2>4. QED
    BY <2>1, <2>3 DEF IngressHolds, InForce, Browser!NoLater
<1>5. ASSUME NEW d \in dispatched' PROVE InForce(d.by, d.session, d.at, d.now)'
  <2>1. InForce(d.by, d.session, d.at, d.now)
    BY <1>5 DEF BrowserHolds
  <2>2. QED
    BY <2>1 DEF InForce, Browser!NoLater
<1>6. QED
  BY <1>3, <1>4, <1>5 DEF BrowserHolds

LEMMA TakeHolds ==
  ASSUME Browser!BrowserConstants, BrowserHolds, NEW p \in Ingress, NEW s \in signed,
         Browser!VerifyServerRequest(p, s)
  PROVE  BrowserHolds'
<1> DEFINE i == [step |-> "lookup", request |-> s, now |-> Browser!Now(p)]
<1>1. s \in Browser!SignedRequest /\ Browser!Now(p) \in Nat /\ Browser!Now(p) = browserClock + ahead[p]
  BY ClocksAreTimes DEF BrowserHolds, Browser!TypeOK, Browser!Place, Browser!Now
<1>2. i \in Browser!Pending
  BY <1>1 DEF Browser!Pending
<1>3. IngressHolds(p, i)
  BY <1>1 DEF Browser!VerifyServerRequest, IngressHolds
<1>4. ingress' = [ingress EXCEPT ![p] = i] /\ dispatched' = dispatched \cup {}
      /\ UNCHANGED <<browserClock, ahead, membership, login, rows, browser, signed, used, ever>>
  BY DEF Browser!VerifyServerRequest
<1> HIDE DEF i
<1>5. {} \in SUBSET [session : Token, at : Nat, now : Nat, by : Ingress]
      /\ \A d \in {} : InForce(d.by, d.session, d.at, d.now)
  OBVIOUS
<1>6. QED
  BY <1>2, <1>3, <1>4, <1>5, IngressStep

\* What is authorized is in force: no revision of a membership has ended that
\* is still the one of the row.
LEMMA AuthorizeHolds ==
  ASSUME Browser!BrowserConstants, BrowserHolds, NEW p \in Ingress, Browser!AuthorizeFromPostgres(p)
  PROVE  BrowserHolds'
<1> DEFINE was == ingress[p]
           i == [step |-> "dispatch", request |-> was.request, now |-> was.now]
           row == rows[was.request.session]
<1>1. was \in Browser!Pending /\ IngressHolds(p, was)
  BY DEF Browser!AuthorizeFromPostgres, BrowserHolds, Browser!TypeOK
<1>2. was.request \in Browser!SignedRequest /\ was.request.session \in Token /\ was.now \in Nat
  BY <1>1 DEF Browser!Pending, Browser!SignedRequest
<1>3. i \in Browser!Pending
  BY <1>2 DEF Browser!Pending
<1>4. Browser!Authorized(row, membership, was.now)
  BY DEF Browser!AuthorizeFromPostgres
<1>5. row \in Browser!Session
  BY <1>2, <1>4 DEF Browser!Authorized, BrowserHolds, Browser!TypeOK
<1>6. ever[row.revision] = [active |-> membership.active, expires |-> membership.expires,
                            ended |-> Missing]
  BY <1>4 DEF Browser!Authorized, BrowserHolds, MembershipsAreKept
<1>7. row.revoked # Missing => was.now < row.revoked
  BY <1>4 DEF Browser!Authorized
<1>8. /\ was.now <= browserClock + ahead[p]
      /\ was.now <= was.request.at + Window /\ was.request.at <= was.now + Window
  BY <1>1 DEF IngressHolds
<1>9. InForce(p, was.request.session, was.request.at, was.now)
  BY <1>4, <1>6, <1>7, <1>8 DEF Browser!Authorized, InForce
<1>10. IngressHolds(p, i)
  BY <1>8, <1>9 DEF IngressHolds
<1>11. ingress' = [ingress EXCEPT ![p] = i] /\ dispatched' = dispatched \cup {}
       /\ UNCHANGED <<browserClock, ahead, membership, login, rows, browser, signed, used, ever>>
  BY DEF Browser!AuthorizeFromPostgres
<1> HIDE DEF i
<1>12. {} \in SUBSET [session : Token, at : Nat, now : Nat, by : Ingress]
      /\ \A d \in {} : InForce(d.by, d.session, d.at, d.now)
  OBVIOUS
<1>13. QED
  BY <1>3, <1>10, <1>11, <1>12, IngressStep

LEMMA DispatchHolds ==
  ASSUME Browser!BrowserConstants, BrowserHolds, NEW p \in Ingress, Browser!Dispatch(p)
  PROVE  BrowserHolds'
<1> DEFINE was == ingress[p]
           d == [session |-> was.request.session, at |-> was.request.at, now |-> was.now, by |-> p]
<1>1. was \in Browser!Pending /\ IngressHolds(p, was) /\ was.step = "dispatch"
  BY DEF Browser!Dispatch, BrowserHolds, Browser!TypeOK
<1>2. {d} \in SUBSET [session : Token, at : Nat, now : Nat, by : Ingress]
  BY <1>1 DEF Browser!Pending, Browser!SignedRequest
<1>3. \A x \in {d} : InForce(x.by, x.session, x.at, x.now)
  BY <1>1 DEF IngressHolds
<1>4. ingress' = [ingress EXCEPT ![p] = Missing] /\ dispatched' = dispatched \cup {d}
      /\ UNCHANGED <<browserClock, ahead, membership, login, rows, browser, signed, used, ever>>
  BY DEF Browser!Dispatch
<1> HIDE DEF d
<1>5. QED
  BY <1>2, <1>3, <1>4, IngressStep

LEMMA RefuseHolds ==
  ASSUME Browser!BrowserConstants, BrowserHolds, NEW p \in Ingress, Browser!RefuseRequest(p)
  PROVE  BrowserHolds'
<1>1. ingress' = [ingress EXCEPT ![p] = Missing] /\ dispatched' = dispatched \cup {}
      /\ UNCHANGED <<browserClock, ahead, membership, login, rows, browser, signed, used, ever>>
  BY DEF Browser!RefuseRequest
<1>2. {} \in SUBSET [session : Token, at : Nat, now : Nat, by : Ingress]
      /\ \A d \in {} : InForce(d.by, d.session, d.at, d.now)
  OBVIOUS
<1>3. QED
  BY <1>1, <1>2, IngressStep

LEMMA BrowserNextHolds ==
  ASSUME Browser!BrowserConstants, BrowserHolds, [Browser!Next]_(Browser!vars)
  PROVE  BrowserHolds'
<1>1. browserClock \in Nat /\ Browser!TypeOK /\ MembershipsAreKept
  BY DEF BrowserHolds, Browser!TypeOK, Browser!BrowserConstants
<1>2. CASE UNCHANGED Browser!vars
  <2>1. Browser!TypeOK' /\ MembershipsAreKept' /\ RowsGoOn /\ MembershipsGoOn
        /\ browserClock <= browserClock' /\ UNCHANGED <<ahead, ingress, dispatched>>
    BY <1>1, <1>2 DEF Browser!vars, Browser!TypeOK, MembershipsAreKept, RowsGoOn, MembershipsGoOn
  <2>2. QED
    BY <2>1, RequestsStay
<1>3. CASE Browser!Tick
  <2>1. Browser!TypeOK'
    BY <1>1, <1>3 DEF Browser!Tick, Browser!TypeOK, Browser!BrowserConstants
  <2>2. MembershipsAreKept' /\ RowsGoOn /\ MembershipsGoOn
        /\ browserClock <= browserClock' /\ UNCHANGED <<ahead, ingress, dispatched>>
    BY <1>1, <1>3 DEF Browser!Tick, MembershipsAreKept, RowsGoOn, MembershipsGoOn
  <2>3. QED
    BY <2>1, <2>2, RequestsStay
<1>4. CASE Browser!Login
  <2>1. login' \in Browser!Authorization /\ login'.revision = membership.revision
        /\ UNCHANGED <<browserClock, ahead, membership, rows, browser, signed, used, ingress, dispatched, ever>>
    BY <1>1, <1>4, ClocksAreTimes DEF Browser!Login, Browser!Place, Browser!Authorization, Browser!Membership, Browser!TypeOK
  <2>2. Browser!TypeOK' /\ MembershipsAreKept'
    BY <1>1, <2>1 DEF Browser!TypeOK, MembershipsAreKept, Browser!Membership
  <2>3. RowsGoOn /\ MembershipsGoOn /\ browserClock <= browserClock'
    BY <1>1, <2>1 DEF RowsGoOn, MembershipsGoOn
  <2>4. QED
    BY <2>1, <2>2, <2>3, RequestsStay
<1>5. ASSUME NEW r \in Browser!Request, Browser!Handle(r) PROVE BrowserHolds'
  <2>1. Browser!Sign(r) \in Browser!SignedRequest
    BY <1>1, ClocksAreTimes DEF Browser!Request, Browser!Sign, Browser!SignedRequest, Browser!Place
  <2>2. used' \in 0..Allowance /\ signed' \subseteq Browser!SignedRequest
    BY <1>1, <1>5, <2>1 DEF Browser!Handle, Browser!Prepared, Browser!TypeOK, Browser!BrowserConstants
  <2>3. Browser!TypeOK' /\ MembershipsAreKept' /\ RowsGoOn /\ MembershipsGoOn
        /\ browserClock <= browserClock' /\ UNCHANGED <<ahead, ingress, dispatched>>
    BY <1>1, <1>5, <2>2 DEF Browser!Handle, Browser!TypeOK, MembershipsAreKept, RowsGoOn, MembershipsGoOn
  <2>4. QED
    BY <2>3, RequestsStay
<1>6. ASSUME NEW active \in BOOLEAN, NEW expires \in {browserClock + 1, MaxTime + MaxSkew},
             Browser!ChangeMembership(active, expires)
      PROVE  BrowserHolds'
  <2>1. expires \in Nat
    BY <1>1 DEF Browser!BrowserConstants
  <2>2. QED
    BY <1>6, <2>1, MembershipChanges
<1>7. QED
  BY <1>2, <1>3, <1>4, <1>5, <1>6, RevokeHolds, IssueHolds, TakeHolds, AuthorizeHolds,
     DispatchHolds, RefuseHolds DEF Browser!Next

\* What the API holds of its requests is enough: each was taken in time, and
\* what is authorized was in force when it was taken, and that is history: no
\* revocation and no later membership moves the end of a session before it.
THEOREM BrowserHoldsAlways ==
  ASSUME Browser!BrowserConstants PROVE Browser!Spec => []BrowserHolds
<1>1. Browser!Init => BrowserHolds
  BY BrowserInitHolds
<1>2. BrowserHolds /\ [Browser!Next]_(Browser!vars) => BrowserHolds'
  BY BrowserNextHolds
<1>3. QED
  BY <1>1, <1>2, PTL DEF Browser!Spec

\* Whatever changes while a request is on its way, and however late or often it
\* arrives, it is carried out only if the process of the API that took it found
\* it within the window and its session neither over nor revoked by its own clock,
\* or took it before it was revoked, and before the membership of that session
\* came to its end; however far the clocks are apart.
THEOREM NothingIsDoneAfterTheEnd ==
  ASSUME Browser!BrowserConstants PROVE Browser!Spec => []Browser!NothingAfterTheEnd
<1>1. BrowserHolds => Browser!NothingAfterTheEnd
  BY DEF BrowserHolds, InForce, Browser!NothingAfterTheEnd, Browser!NoLater
<1>2. QED
  BY <1>1, BrowserHoldsAlways, PTL

\* Memberships, sessions, requests and their history keep their types.
THEOREM BrowserTypes ==
  ASSUME Browser!BrowserConstants PROVE Browser!Spec => []Browser!TypeOK
<1>1. BrowserHolds => Browser!TypeOK
  BY DEF BrowserHolds
<1>2. QED
  BY <1>1, BrowserHoldsAlways, PTL

-----------------------------------------------------------------------------
(* What is billed of an application.                                          *)

\* The usage of a period, all of which has been billed.
IsOfItsPeriod(x) ==
  /\ x.lines \subseteq events
  /\ \A e \in x.lines : Billing!InPeriod(e, x.start, x.end)

\* The inductive invariant.  No two source events collide; a source event, on its
\* way or appended, is dated by the final verification of its action; and what a
\* biller is about to save, or has saved, is usage of its period.
BillingHolds ==
  /\ Billing!UsageTypeOK
  /\ Billing!BilledOncePerMeter
  /\ \A p \in Ingester : ingesting[p] # Nil => ingesting[p].at = verifiedAt[ingesting[p].action]
  /\ \A e \in events : e.at = verifiedAt[e.action]
  /\ \A b \in Biller : bill[b] # Nil => IsOfItsPeriod(bill[b])
  /\ \A x \in exports : IsOfItsPeriod(x)

LEMMA BillingInitHolds == Billing!BillingConstants /\ Billing!UsageInit => BillingHolds
<1> SUFFICES ASSUME Billing!BillingConstants, Billing!UsageInit PROVE BillingHolds
  OBVIOUS
<1>1. Billing!UsageTypeOK
  BY DEF Billing!UsageInit, Billing!UsageTypeOK, Billing!Instant, Billing!BillingConstants
<1>2. QED
  BY <1>1 DEF Billing!UsageInit, BillingHolds, Billing!BilledOncePerMeter

LEMMA NormalizeUsageHolds ==
  ASSUME BillingHolds, NEW p \in Ingester, NEW a \in Action, NEW binding \in Binding,
         Billing!Normalize(p, a, binding)
  PROVE  BillingHolds'
<1> DEFINE e == [action |-> a, binding |-> binding, at |-> verifiedAt[a]]
<1>1. e \in Billing!Event /\ e.at = verifiedAt[e.action]
  BY DEF BillingHolds, Billing!UsageTypeOK, Billing!Normalize, Billing!Event
<1>2. ingesting' = [ingesting EXCEPT ![p] = e]
      /\ UNCHANGED <<usageClock, verifiedAt, events, bill, exports>>
  BY DEF Billing!Normalize
<1> HIDE DEF e
<1>3. Billing!UsageTypeOK'
  BY <1>1, <1>2 DEF BillingHolds, Billing!UsageTypeOK
<1>4. \A q \in Ingester : ingesting'[q] # Nil => ingesting'[q].at = verifiedAt'[ingesting'[q].action]
  BY <1>1, <1>2 DEF BillingHolds, Billing!UsageTypeOK
<1>5. QED
  BY <1>2, <1>3, <1>4 DEF BillingHolds, Billing!BilledOncePerMeter, IsOfItsPeriod

LEMMA AppendUsageHolds ==
  ASSUME BillingHolds, NEW p \in Ingester, Billing!AppendUsage(p)
  PROVE  BillingHolds'
<1> DEFINE e == ingesting[p]
<1>1. /\ e \in Billing!Event /\ e.at = verifiedAt[e.action]
      /\ UNCHANGED <<usageClock, verifiedAt, bill, exports>>
      /\ ingesting' = [ingesting EXCEPT ![p] = Nil]
  BY DEF BillingHolds, Billing!UsageTypeOK, Billing!AppendUsage
<1>2. \/ events' = events
      \/ events' = events \cup {e} /\ \A f \in events : ~Billing!Collides(e, f)
  BY DEF Billing!AppendUsage
<1> HIDE DEF e
<1>3. Billing!UsageTypeOK'
  BY <1>1, <1>2 DEF BillingHolds, Billing!UsageTypeOK
<1>4. Billing!BilledOncePerMeter'
  BY <1>2 DEF BillingHolds, Billing!BilledOncePerMeter, Billing!Collides
<1>5. events \subseteq events' /\ \A f \in events' : f.at = verifiedAt'[f.action]
  BY <1>1, <1>2 DEF BillingHolds
<1>6. \A x : IsOfItsPeriod(x) => IsOfItsPeriod(x)'
  BY <1>5 DEF IsOfItsPeriod
<1>7. \A q \in Ingester : ingesting'[q] # Nil => ingesting'[q].at = verifiedAt'[ingesting'[q].action]
  BY <1>1 DEF BillingHolds, Billing!UsageTypeOK
<1>8. (\A b \in Biller : bill'[b] # Nil => IsOfItsPeriod(bill[b])')
      /\ \A x \in exports' : IsOfItsPeriod(x)'
  BY <1>1, <1>5 DEF BillingHolds, IsOfItsPeriod
<1>9. QED
  BY <1>3, <1>4, <1>5, <1>7, <1>8 DEF BillingHolds

LEMMA DraftBillHolds ==
  ASSUME BillingHolds, NEW b \in Biller, NEW id \in ExportId, NEW n \in 1..MaxRevision,
         NEW start \in Billing!Instant, NEW end \in Billing!Instant,
         Billing!Draft(b, id, n, start, end)
  PROVE  BillingHolds'
<1> DEFINE lines == {e \in Billing!History(end) : Billing!InPeriod(e, start, end)}
           x == [id |-> id, revision |-> n, start |-> start, end |-> end, lines |-> lines]
<1>1. lines \subseteq events /\ lines \subseteq Billing!Event
  BY DEF Billing!History, BillingHolds, Billing!UsageTypeOK
<1>2. x \in Billing!Export /\ IsOfItsPeriod(x)
  BY <1>1 DEF Billing!Export, IsOfItsPeriod
<1>3. bill' = [bill EXCEPT ![b] = x]
      /\ UNCHANGED <<usageClock, verifiedAt, events, ingesting, exports>>
  BY DEF Billing!Draft
<1> HIDE DEF x
<1>4. Billing!UsageTypeOK'
  BY <1>2, <1>3 DEF BillingHolds, Billing!UsageTypeOK
<1>5. \A c \in Biller : bill'[c] # Nil => IsOfItsPeriod(bill'[c])
  BY <1>2, <1>3 DEF BillingHolds, Billing!UsageTypeOK
<1>6. QED
  BY <1>3, <1>4, <1>5 DEF BillingHolds, Billing!BilledOncePerMeter, IsOfItsPeriod

LEMMA SaveBillHolds ==
  ASSUME BillingHolds, NEW b \in Biller, Billing!Save(b)
  PROVE  BillingHolds'
<1>1. /\ bill[b] \in Billing!Export /\ IsOfItsPeriod(bill[b])
      /\ bill' = [bill EXCEPT ![b] = Nil] /\ exports' \subseteq exports \cup {bill[b]}
      /\ UNCHANGED <<usageClock, verifiedAt, events, ingesting>>
  BY DEF Billing!Save, BillingHolds, Billing!UsageTypeOK
<1>2. Billing!UsageTypeOK'
  BY <1>1 DEF BillingHolds, Billing!UsageTypeOK
<1>3. \A c \in Biller : bill'[c] # Nil => IsOfItsPeriod(bill'[c])
  BY <1>1 DEF BillingHolds, Billing!UsageTypeOK
<1>4. \A x \in exports' : IsOfItsPeriod(x)
  BY <1>1 DEF BillingHolds
<1>5. Billing!BilledOncePerMeter'
  BY <1>1 DEF BillingHolds, Billing!BilledOncePerMeter
<1>6. (\A c \in Biller : bill'[c] # Nil => IsOfItsPeriod(bill[c])')
      /\ \A x \in exports' : IsOfItsPeriod(x)'
  BY <1>1, <1>3, <1>4 DEF IsOfItsPeriod
<1>7. (\A p \in Ingester : ingesting'[p] # Nil => ingesting'[p].at = verifiedAt'[ingesting'[p].action])
      /\ \A e \in events' : e.at = verifiedAt'[e.action]
  BY <1>1 DEF BillingHolds
<1>8. QED
  BY <1>2, <1>5, <1>6, <1>7 DEF BillingHolds

LEMMA BillingNextHolds ==
  Billing!BillingConstants /\ BillingHolds /\ [Billing!UsageNext]_(Billing!usageVars) => BillingHolds'
<1> SUFFICES ASSUME Billing!BillingConstants, BillingHolds, [Billing!UsageNext]_(Billing!usageVars) PROVE BillingHolds'
  OBVIOUS
<1>1. CASE UNCHANGED Billing!usageVars
  BY <1>1 DEF Billing!usageVars, BillingHolds, Billing!UsageTypeOK, Billing!BilledOncePerMeter,
              IsOfItsPeriod
<1>2. CASE Billing!Tick
  <2>1. usageClock' = usageClock + 1 /\ usageClock < MaxTime
        /\ UNCHANGED <<verifiedAt, events, ingesting, bill, exports>>
    BY <1>2 DEF Billing!Tick
  <2>2. usageClock' \in Billing!Instant
    BY <2>1 DEF BillingHolds, Billing!UsageTypeOK, Billing!Instant, Billing!BillingConstants
  <2>3. Billing!UsageTypeOK'
    BY <2>1, <2>2 DEF BillingHolds, Billing!UsageTypeOK
  <2>4. QED
    BY <2>1, <2>3 DEF BillingHolds, Billing!BilledOncePerMeter, IsOfItsPeriod
<1>3. ASSUME NEW a \in Action, Billing!Verify(a) PROVE BillingHolds'
  <2>1. /\ verifiedAt' = [verifiedAt EXCEPT ![a] = usageClock] /\ verifiedAt[a] = Nil
        /\ UNCHANGED <<usageClock, events, ingesting, bill, exports>>
    BY <1>3 DEF Billing!Verify
  <2>2. Billing!UsageTypeOK'
    BY <2>1 DEF BillingHolds, Billing!UsageTypeOK
  <2>3. \A e \in Billing!Event : e.at = verifiedAt[e.action] => e.at = verifiedAt'[e.action]
    BY <2>1 DEF BillingHolds, Billing!UsageTypeOK, Billing!Event, Billing!BillingConstants
  <2>4. \A p \in Ingester : ingesting[p] # Nil => ingesting[p].at = verifiedAt'[ingesting[p].action]
    BY <2>3 DEF BillingHolds, Billing!UsageTypeOK
  <2>5. \A e \in events : e.at = verifiedAt'[e.action]
    BY <2>3 DEF BillingHolds, Billing!UsageTypeOK
  <2>6. QED
    BY <2>1, <2>2, <2>4, <2>5 DEF BillingHolds, Billing!BilledOncePerMeter, IsOfItsPeriod
<1>4. ASSUME NEW p \in Ingester, Billing!FailIngest(p) PROVE BillingHolds'
  <2>1. /\ ingesting' = [ingesting EXCEPT ![p] = Nil]
        /\ UNCHANGED <<usageClock, verifiedAt, events, bill, exports>>
    BY <1>4 DEF Billing!FailIngest
  <2>2. Billing!UsageTypeOK'
    BY <2>1 DEF BillingHolds, Billing!UsageTypeOK
  <2>3. QED
    BY <2>1, <2>2 DEF BillingHolds, Billing!UsageTypeOK, Billing!BilledOncePerMeter, IsOfItsPeriod
<1>5. QED
  BY <1>1, <1>2, <1>3, <1>4, NormalizeUsageHolds, AppendUsageHolds, DraftBillHolds, SaveBillHolds DEF Billing!UsageNext

\* What is billed is billed once: the invariant holds of every behaviour, however many
\* processes ingest the same action, and whatever the funds of the application do.
THEOREM BillingHoldsAlways ==
  ASSUME Billing!BillingConstants PROVE Billing!Spec => []BillingHolds
<1>1. Billing!Init => BillingHolds
  BY BillingInitHolds DEF Billing!Init
<1>2. BillingHolds /\ [Billing!Next]_<<Billing!usageVars, Billing!fundsVars>> => BillingHolds'
  BY BillingNextHolds DEF Billing!Next, Billing!FundsNext
<1>3. QED
  BY <1>1, <1>2, PTL DEF Billing!Spec

\* No action is billed twice under one meter of one entitlement: appendUsage refuses a
\* source event that collides with one that is there, whoever ingests at the same time.
THEOREM NoUsageIsBilledTwice ==
  ASSUME Billing!BillingConstants PROVE Billing!Spec => []Billing!BilledOncePerMeter
<1>1. BillingHolds => Billing!BilledOncePerMeter
  BY DEF BillingHolds
<1>2. QED
  BY <1>1, BillingHoldsAlways, PTL

\* Invoices of periods that do not overlap share no usage, and none bills what was not
\* metered: an event keeps the instant at which its action was verified for the last time,
\* and a period ends before its end.
THEOREM NoUsageIsInvoicedTwice ==
  ASSUME Billing!BillingConstants PROVE Billing!Spec => []Billing!InvoicedOnce
<1>1. BillingHolds => Billing!InvoicedOnce
  <2> SUFFICES ASSUME BillingHolds, NEW x \in exports, NEW y \in exports
               PROVE  /\ x.lines \subseteq events
                      /\ x.end <= y.start => x.lines \cap y.lines = {}
    BY DEF Billing!InvoicedOnce
  <2>1. IsOfItsPeriod(x) /\ IsOfItsPeriod(y)
    BY DEF BillingHolds
  <2>2. /\ x.end \in Billing!Instant /\ y.start \in Billing!Instant
        /\ \A e \in x.lines : e.at \in Billing!Instant
    BY <2>1 DEF BillingHolds, Billing!UsageTypeOK, Billing!Export, Billing!Event, Billing!Instant
  <2>3. QED
    BY <2>1, <2>2 DEF IsOfItsPeriod, Billing!InPeriod, Billing!Instant
<1>2. QED
  BY <1>1, BillingHoldsAlways, PTL

\* No step takes back or rewrites an invoice that was exported.
THEOREM SavedExportsStay == Billing!Spec => Billing!ExportsAreImmutable
<1>1. Billing!Next => exports \subseteq exports'
  <2>1. Billing!UsageNext => exports \subseteq exports'
    BY DEF Billing!UsageNext, Billing!Tick, Billing!Verify, Billing!Normalize, Billing!AppendUsage,
           Billing!FailIngest, Billing!Draft, Billing!Save
  <2>2. QED
    BY <2>1 DEF Billing!Next, Billing!usageVars
<1>2. [Billing!Next]_<<Billing!usageVars, Billing!fundsVars>>
        => [exports \subseteq exports']_(Billing!usageVars)
  BY <1>1
<1>3. QED
  BY <1>2, PTL DEF Billing!Spec, Billing!ExportsAreImmutable

-----------------------------------------------------------------------------
(* Pages of a source of applications.                                         *)

Pages == [source : SourceId, cursor : Cursor, content : Content]

Answers == [kind : {"page", "not-modified"}, source : SourceId, cursor : Cursor, content : Content,
            validator : [source : SourceId, cursor : Cursor, digest : Pages]]

\* The inductive invariant.  Whatever the transport makes of an answer, the page
\* its validator names is one that was served; what the client holds was served
\* under the source and the cursor it is held under, and may go on; and what it
\* was told is current was what the source had.
FederationHolds ==
  /\ served \in [SourceId -> [Cursor -> Content]]
  /\ everServed \subseteq Pages
  /\ \A s \in SourceId, c \in Cursor : Federation!Served(s, c) \in everServed
  /\ asked # Unknown => asked.source \in SourceId /\ asked.cursor \in Cursor
  /\ answers \subseteq Answers
  /\ \A a \in answers : a.validator.digest \in everServed
  /\ cache \in [SourceId -> [Cursor -> Pages \cup {Unknown}]]
  /\ Federation!CacheWasServed
  /\ Federation!ConfirmedIsCurrent

LEMMA FederationInitHolds == Federation!Init => FederationHolds
<1> SUFFICES ASSUME Federation!Init PROVE FederationHolds
  OBVIOUS
<1>1. \A s \in SourceId, c \in Cursor :
        Federation!Served(s, c) \in everServed /\ Federation!Served(s, c) \in Pages
  BY DEF Federation!Init, Federation!Served, Federation!Page, Pages
<1>2. QED
  BY <1>1 DEF Federation!Init, FederationHolds, Federation!CacheWasServed, Federation!ConfirmedIsCurrent

LEMMA ChangeHolds ==
  ASSUME FederationHolds, NEW s \in SourceId, NEW c \in Cursor, NEW x \in Content,
         Federation!Change(s, c, x)
  PROVE  FederationHolds'
<1> DEFINE p == Federation!Page(s, c, x)
<1>1. /\ served' = [served EXCEPT ![s] = [served[s] EXCEPT ![c] = x]]
      /\ everServed' = everServed \cup {p}
      /\ UNCHANGED <<asked, answers, cache, confirmed>>
  BY DEF Federation!Change
<1>2. p \in Pages
  BY DEF Federation!Page, Pages
<1>3. served' \in [SourceId -> [Cursor -> Content]]
  BY <1>1 DEF FederationHolds
<1>4. ASSUME NEW t \in SourceId, NEW d \in Cursor PROVE Federation!Served(t, d)' \in everServed'
  <2>1. CASE t = s /\ d = c
    <3>1. served'[t][d] = x
      BY <1>1, <2>1 DEF FederationHolds
    <3>2. QED
      BY <1>1, <2>1, <3>1 DEF Federation!Served
  <2>2. CASE ~(t = s /\ d = c)
    <3>1. served'[t][d] = served[t][d]
      BY <1>1, <2>2 DEF FederationHolds
    <3>2. Federation!Served(t, d) \in everServed
      BY DEF FederationHolds
    <3>3. QED
      BY <1>1, <3>1, <3>2 DEF Federation!Served
  <2>3. QED
    BY <2>1, <2>2
<1>5. everServed' \subseteq Pages /\ \A a \in answers' : a.validator.digest \in everServed'
  BY <1>1, <1>2 DEF FederationHolds
<1>6. Federation!CacheWasServed' /\ Federation!ConfirmedIsCurrent'
  BY <1>1 DEF FederationHolds, Federation!CacheWasServed, Federation!ConfirmedIsCurrent
<1>7. QED
  BY <1>1, <1>3, <1>4, <1>5, <1>6 DEF FederationHolds

LEMMA AnswerHolds ==
  ASSUME FederationHolds, Federation!Answer
  PROVE  FederationHolds'
<1> DEFINE page == Federation!Served(asked.source, asked.cursor)
           a == [kind |-> IF asked.match = page THEN "not-modified" ELSE "page",
                 source |-> asked.source, cursor |-> asked.cursor, content |-> page.content,
                 validator |-> Federation!Validator(page)]
<1>1. /\ answers' = answers \cup {a}
      /\ UNCHANGED <<served, asked, cache, everServed, confirmed>>
  BY DEF Federation!Answer
<1>2. page \in everServed
  BY DEF Federation!Answer, FederationHolds
<1>3. a.validator.digest \in everServed
  BY <1>2 DEF Federation!Validator
<1>4. a \in Answers
  <2>1. page \in Pages /\ asked.source \in SourceId /\ asked.cursor \in Cursor
    BY <1>2 DEF Federation!Answer, FederationHolds
  <2>2. page.source = asked.source /\ page.cursor = asked.cursor /\ page.content \in Content
    BY <2>1 DEF Federation!Served, Federation!Page, Pages
  <2> HIDE DEF page
  <2>3. QED
    BY <2>1, <2>2 DEF Federation!Validator, Answers
<1> HIDE DEF a, page
<1>5. answers' \subseteq Answers /\ \A b \in answers' : b.validator.digest \in everServed'
  BY <1>1, <1>3, <1>4 DEF FederationHolds
<1>6. QED
  BY <1>1, <1>5 DEF FederationHolds, Federation!CacheWasServed, Federation!ConfirmedIsCurrent,
                    Federation!Served

LEMMA AcceptPageHolds ==
  ASSUME FederationHolds, NEW a \in answers, Federation!AcceptPage(a)
  PROVE  FederationHolds'
<1> DEFINE p == Federation!Page(a.source, a.cursor, a.content)
<1>1. /\ a.source \in SourceId /\ a.cursor \in Cursor
      /\ Federation!PageIsValid(a.content, a.cursor)
      /\ a.validator.digest = p
      /\ asked' = Unknown
      /\ cache' = [cache EXCEPT ![a.source] = [cache[a.source] EXCEPT ![a.cursor] = p]]
      /\ UNCHANGED <<served, answers, everServed, confirmed>>
  BY DEF FederationHolds, Federation!AcceptPage, Federation!ForRequest
<1>2. p \in everServed /\ p \in Pages
  BY <1>1 DEF FederationHolds
<1>3. p.source = a.source /\ p.cursor = a.cursor /\ p.content = a.content
  BY DEF Federation!Page
<1> HIDE DEF p
<1>4. cache' \in [SourceId -> [Cursor -> Pages \cup {Unknown}]]
  BY <1>1, <1>2 DEF FederationHolds
<1>5. ASSUME NEW s \in SourceId, NEW c \in Cursor, cache'[s][c] # Unknown
      PROVE  /\ cache'[s][c] \in everServed'
             /\ cache'[s][c].source = s /\ cache'[s][c].cursor = c
             /\ Federation!PageIsValid(cache'[s][c].content, c)
  <2>1. CASE s = a.source /\ c = a.cursor
    <3>1. cache'[s][c] = p
      BY <1>1, <2>1 DEF FederationHolds
    <3>2. QED
      BY <1>1, <1>2, <1>3, <2>1, <3>1
  <2>2. CASE ~(s = a.source /\ c = a.cursor)
    <3>1. cache'[s][c] = cache[s][c]
      BY <1>1, <2>2 DEF FederationHolds
    <3>2. QED
      BY <1>1, <1>5, <3>1 DEF FederationHolds, Federation!CacheWasServed
  <2>3. QED
    BY <2>1, <2>2
<1>6. Federation!CacheWasServed'
  BY <1>5 DEF Federation!CacheWasServed, Federation!PageIsValid
<1>7. QED
  BY <1>1, <1>4, <1>6 DEF FederationHolds, Federation!ConfirmedIsCurrent, Federation!Served

LEMMA FederationNextHolds ==
  FederationHolds /\ [Federation!Next]_(Federation!vars) => FederationHolds'
<1> SUFFICES ASSUME FederationHolds, [Federation!Next]_(Federation!vars) PROVE FederationHolds'
  OBVIOUS
<1>1. CASE UNCHANGED Federation!vars
  BY <1>1 DEF Federation!vars, FederationHolds, Federation!CacheWasServed,
              Federation!ConfirmedIsCurrent, Federation!Served
<1>2. ASSUME NEW s \in SourceId, NEW c \in Cursor, Federation!Ask(s, c) PROVE FederationHolds'
  BY <1>2 DEF Federation!Ask, FederationHolds, Federation!CacheWasServed,
              Federation!ConfirmedIsCurrent, Federation!Served
<1>3. ASSUME NEW a \in answers, NEW x \in Content, Federation!Mangle(a, x) PROVE FederationHolds'
  <2>1. a \in Answers /\ a.validator.digest \in everServed
    BY DEF FederationHolds
  <2>2. [a EXCEPT !.content = x] \in Answers /\ [a EXCEPT !.content = x].validator = a.validator
    BY <2>1 DEF Answers
  <2>3. answers' \subseteq Answers /\ \A b \in answers' : b.validator.digest \in everServed
    BY <1>3, <2>1, <2>2 DEF Federation!Mangle, FederationHolds
  <2>4. QED
    BY <1>3, <2>3 DEF Federation!Mangle, FederationHolds, Federation!CacheWasServed,
                      Federation!ConfirmedIsCurrent, Federation!Served
<1>4. ASSUME NEW a \in answers, Federation!AcceptNotModified(a) PROVE FederationHolds'
  <2>1. Federation!ConfirmedIsCurrent'
    BY <1>4 DEF Federation!AcceptNotModified, Federation!Validator, FederationHolds,
                Federation!ConfirmedIsCurrent
  <2>2. asked' = Unknown /\ UNCHANGED <<served, answers, cache, everServed>>
    BY <1>4 DEF Federation!AcceptNotModified
  <2>3. QED
    BY <2>1, <2>2 DEF FederationHolds, Federation!CacheWasServed, Federation!Served
<1>5. QED
  BY <1>1, <1>2, <1>3, <1>4, ChangeHolds, AnswerHolds, AcceptPageHolds DEF Federation!Next

\* Whatever the transport mangles, repeats or delays, the invariant holds of every
\* behaviour.
THEOREM FederationHoldsAlways == Federation!Spec => []FederationHolds
<1>1. FederationHolds /\ [Federation!Next]_(Federation!vars) => FederationHolds'
  BY FederationNextHolds
<1>2. QED
  BY <1>1, FederationInitHolds, PTL DEF Federation!Spec

\* A page that the client holds is one that the source served, under the source and the
\* cursor it is held under, and can be followed.
THEOREM WhatIsHeldWasServed == Federation!Spec => []Federation!CacheWasServed
<1>1. FederationHolds => Federation!CacheWasServed
  BY DEF FederationHolds
<1>2. QED
  BY <1>1, FederationHoldsAlways, PTL

\* A page is confirmed as not modified only while the source serves just that page.
THEOREM WhatIsConfirmedIsCurrent == Federation!Spec => []Federation!ConfirmedIsCurrent
<1>1. FederationHolds => Federation!ConfirmedIsCurrent
  BY DEF FederationHolds
<1>2. QED
  BY <1>1, FederationHoldsAlways, PTL

-----------------------------------------------------------------------------
(* Sums over finite sets. *)

LEMMA LeastOf ==
  ASSUME NEW S, S \subseteq Nat, S # {}
  PROVE  \E x \in S : \A y \in S : x <= y
<1>1. PICK x \in S : \A y \in S : ~(<<y, x>> \in OpToRel(<, Nat))
  BY NatLessThanWellFounded, WFMin
<1>2. \A y \in S : x <= y
  <2> TAKE y \in S
  <2>1. x \in Nat /\ y \in Nat
    OBVIOUS
  <2>2. ~(<<y, x>> \in OpToRel(<, Nat))
    BY <1>1
  <2>3. ~(y < x)
    BY <2>1, <2>2 DEF OpToRel
  <2>4. QED
    BY <2>1, <2>3
<1>3. QED
  BY <1>2

\* Of a family of subsets of a finite set one has no member smaller by an element.
LEMMA SmallestIsThere ==
  ASSUME NEW S, IsFiniteSet(S), NEW F, F \subseteq SUBSET S, F # {}
  PROVE  \E s \in F : \A x \in s : s \ {x} \notin F
<1> DEFINE sizes == {Cardinality(s) : s \in F}
<1>1. \A s \in F : IsFiniteSet(s) /\ Cardinality(s) \in Nat
  BY FS_Subset, FS_CardinalityType
<1>2. sizes \subseteq Nat /\ sizes # {}
  BY <1>1
<1>3. PICK n \in sizes : \A m \in sizes : n <= m
  BY <1>2, LeastOf
<1>4. PICK s \in F : Cardinality(s) = n
  BY <1>3
<1>5. \A x \in s : s \ {x} \notin F
  <2> SUFFICES ASSUME NEW x \in s, s \ {x} \in F PROVE FALSE
    OBVIOUS
  <2>1. Cardinality(s \ {x}) = Cardinality(s) - 1
    BY <1>1, FS_RemoveElement
  <2>2. Cardinality(s) <= Cardinality(s \ {x})
    BY <1>3, <1>4
  <2>3. Cardinality(s) \in Nat
    BY <1>1
  <2>4. QED
    BY <2>1, <2>2, <2>3
<1>6. QED
  BY <1>5

\* The equation that defines a sum over the subsets of S that are in D.
Adds(w, g, D) ==
  g = [s \in D |-> IF s = {} THEN 0
                   ELSE LET x == CHOOSE x \in s : TRUE IN w[x] + g[s \ {x}]]

SumOf(w, S) == CHOOSE g : Adds(w, g, SUBSET S)

Upto(S, n) == {s \in SUBSET S : Cardinality(s) <= n}

\* There is such a sum on the sets of one element more.
LEMMA OneMore ==
  ASSUME NEW w, NEW S, IsFiniteSet(S), NEW n \in Nat, NEW g, Adds(w, g, Upto(S, n))
  PROVE  \E h : Adds(w, h, Upto(S, n + 1))
<1> DEFINE one(s) == CHOOSE x \in s : TRUE
           next(f, s) == IF s = {} THEN 0 ELSE w[one(s)] + f[s \ {one(s)}]
           h == [s \in Upto(S, n + 1) |-> next(g, s)]
<1>1. \A s \in Upto(S, n) : s \in Upto(S, n + 1) /\ g[s] = next(g, s)
  <2> TAKE s \in Upto(S, n)
  <2>1. Cardinality(s) \in Nat
    BY FS_Subset, FS_CardinalityType DEF Upto
  <2>2. s \in Upto(S, n + 1)
    BY <2>1 DEF Upto
  <2>3. g[s] = next(g, s)
    BY DEF Adds
  <2>4. QED
    BY <2>2, <2>3
<1>2. \A s \in Upto(S, n) : h[s] = g[s]
  BY <1>1
<1>3. \A s \in Upto(S, n + 1) : \A x \in s : s \ {x} \in Upto(S, n)
  <2> TAKE s \in Upto(S, n + 1)
  <2> TAKE x \in s
  <2>1. IsFiniteSet(s) /\ Cardinality(s) \in Nat /\ Cardinality(s) <= n + 1
    BY FS_Subset, FS_CardinalityType DEF Upto
  <2>2. Cardinality(s \ {x}) = Cardinality(s) - 1
    BY <2>1, FS_RemoveElement
  <2>3. QED
    BY <2>1, <2>2 DEF Upto
<1>4. \A s \in Upto(S, n + 1) : next(g, s) = next(h, s)
  <2> TAKE s \in Upto(S, n + 1)
  <2>1. CASE s = {}
    BY <2>1
  <2>2. CASE s # {}
    <3> DEFINE x == CHOOSE x \in s : TRUE
    <3>1. x \in s
      BY <2>2
    <3>2. h[s \ {x}] = g[s \ {x}]
      BY <3>1, <1>2, <1>3
    <3> HIDE DEF h
    <3>3. QED
      BY <2>2, <3>2
  <2>3. QED
    BY <2>1, <2>2
<1>5. h = [s \in Upto(S, n + 1) |-> next(h, s)]
  BY <1>4
<1>6. Adds(w, h, Upto(S, n + 1))
  BY <1>5 DEF Adds
<1>7. QED
  BY <1>6

LEMMA SumIsThere ==
  ASSUME NEW w, NEW S, IsFiniteSet(S)
  PROVE  Adds(w, SumOf(w, S), SUBSET S)
<1> DEFINE Bad == {n \in Nat : ~ \E g : Adds(w, g, Upto(S, n))}
<1>1. Bad = {}
  <2> SUFFICES ASSUME Bad # {} PROVE FALSE
    OBVIOUS
  <2>1. PICK n \in Bad : \A m \in Bad : n <= m
    BY LeastOf
  <2>2. n # 0
    <3>1. Upto(S, 0) = {{}}
      <4>1. \A s \in SUBSET S : Cardinality(s) <= 0 <=> s = {}
        BY FS_Subset, FS_CardinalityType, FS_EmptySet
      <4>2. QED
        BY <4>1 DEF Upto
    <3>2. Adds(w, [s \in {{}} |-> 0], {{}})
      BY DEF Adds
    <3>3. QED
      BY <3>1, <3>2
  <2>3. n - 1 \in Nat /\ ~(n - 1 \in Bad)
    BY <2>1, <2>2
  <2>4. PICK g : Adds(w, g, Upto(S, n - 1))
    BY <2>3
  <2>5. \E h : Adds(w, h, Upto(S, (n - 1) + 1))
    BY <2>3, <2>4, OneMore
  <2>6. (n - 1) + 1 = n
    BY <2>1
  <2>7. QED
    BY <2>1, <2>5, <2>6
<1>2. Cardinality(S) \in Nat /\ Upto(S, Cardinality(S)) = SUBSET S
  <2>1. \A s \in SUBSET S : Cardinality(s) <= Cardinality(S)
    BY FS_Subset
  <2>2. QED
    BY <2>1, FS_CardinalityType DEF Upto
<1>3. \E g : Adds(w, g, Upto(S, Cardinality(S)))
  <2>1. Cardinality(S) \notin Bad
    BY <1>1
  <2>2. QED
    BY <2>1, <1>2
<1>4. \E g : Adds(w, g, SUBSET S)
  BY <1>2, <1>3
<1>5. QED
  BY <1>4 DEF SumOf

\* What is added are the naturals w[x].
Countable(w, S) == IsFiniteSet(S) /\ \A x \in S : w[x] \in Nat

LEMMA SumStep ==
  ASSUME NEW w, NEW S, IsFiniteSet(S), NEW s \in SUBSET S, s # {}
  PROVE  \E x \in s : SumOf(w, S)[s] = w[x] + SumOf(w, S)[s \ {x}]
<1> DEFINE x == CHOOSE x \in s : TRUE
<1>1. x \in s
  OBVIOUS
<1>2. PICK f : f = SumOf(w, S)
  OBVIOUS
<1>3. Adds(w, f, SUBSET S)
  BY <1>2, SumIsThere
<1>4. f[s] = w[x] + f[s \ {x}]
  BY <1>3 DEF Adds
<1>5. QED
  BY <1>1, <1>2, <1>4

LEMMA SumIsNat ==
  ASSUME NEW w, NEW S, Countable(w, S)
  PROVE  SumOf(w, S)[{}] = 0 /\ \A s \in SUBSET S : SumOf(w, S)[s] \in Nat
<1> DEFINE Bad == {s \in SUBSET S : SumOf(w, S)[s] \notin Nat}
<1>1. SumOf(w, S)[{}] = 0
  <2>1. PICK f : f = SumOf(w, S)
    OBVIOUS
  <2>2. Adds(w, f, SUBSET S)
    BY <2>1, SumIsThere DEF Countable
  <2>3. f[{}] = 0
    BY <2>2 DEF Adds
  <2>4. QED
    BY <2>1, <2>3
<1>2. Bad = {}
  <2> SUFFICES ASSUME Bad # {} PROVE FALSE
    OBVIOUS
  <2>1. PICK s \in Bad : \A x \in s : s \ {x} \notin Bad
    BY SmallestIsThere DEF Countable
  <2>2. PICK x \in s : SumOf(w, S)[s] = w[x] + SumOf(w, S)[s \ {x}]
    <3>1. s \in SUBSET S /\ s # {} /\ IsFiniteSet(S)
      BY <2>1, <1>1 DEF Countable
    <3>2. QED
      BY <3>1, SumStep
  <2>3. SumOf(w, S)[s \ {x}] \in Nat /\ w[x] \in Nat
    BY <2>1 DEF Countable
  <2>4. QED
    BY <2>2, <2>3
<1>3. QED
  BY <1>1, <1>2

\* The order in which a sum is taken does not matter.
LEMMA AnyStep ==
  ASSUME NEW w, NEW S, Countable(w, S), NEW s \in SUBSET S, NEW x \in s
  PROVE  SumOf(w, S)[s] = w[x] + SumOf(w, S)[s \ {x}]
<1> DEFINE Bad == {t \in SUBSET S : \E y \in t : SumOf(w, S)[t] # w[y] + SumOf(w, S)[t \ {y}]}
<1>1. Bad = {}
  <2> SUFFICES ASSUME Bad # {} PROVE FALSE
    OBVIOUS
  <2>1. PICK t \in Bad : \A y \in t : t \ {y} \notin Bad
    BY SmallestIsThere DEF Countable
  <2>2. PICK y \in t : SumOf(w, S)[t] # w[y] + SumOf(w, S)[t \ {y}]
    BY <2>1
  <2>3. PICK c \in t : SumOf(w, S)[t] = w[c] + SumOf(w, S)[t \ {c}]
    BY <2>1, SumStep DEF Countable
  <2>4. c # y
    BY <2>2, <2>3
  <2>5. SumOf(w, S)[t \ {c}] = w[y] + SumOf(w, S)[(t \ {c}) \ {y}]
    BY <2>1, <2>4
  <2>6. SumOf(w, S)[t \ {y}] = w[c] + SumOf(w, S)[(t \ {y}) \ {c}]
    BY <2>1, <2>4
  <2>7. (t \ {y}) \ {c} = (t \ {c}) \ {y}
    OBVIOUS
  <2>8. /\ w[c] \in Nat /\ w[y] \in Nat /\ SumOf(w, S)[(t \ {c}) \ {y}] \in Nat
    BY SumIsNat DEF Countable
  <2>9. SumOf(w, S)[t \ {y}] = w[c] + SumOf(w, S)[(t \ {c}) \ {y}]
    BY <2>6, <2>7
  <2> DEFINE rest == SumOf(w, S)[(t \ {c}) \ {y}]
  <2>10. SumOf(w, S)[t] = w[c] + (w[y] + rest)
    BY <2>3, <2>5
  <2>11. w[y] + SumOf(w, S)[t \ {y}] = w[y] + (w[c] + rest)
    BY <2>9
  <2>12. w[c] + (w[y] + rest) = w[y] + (w[c] + rest)
    BY <2>8
  <2>13. QED
    BY <2>2, <2>10, <2>11, <2>12
<1>2. QED
  BY <1>1

\* A sum does not depend on the set whose subset is added up.
LEMMA SumIsItsOwn ==
  ASSUME NEW w, NEW S, Countable(w, S), NEW T \in SUBSET S
  PROVE  SumOf(w, S)[T] = SumOf(w, T)[T]
<1> DEFINE Bad == {t \in SUBSET T : SumOf(w, S)[t] # SumOf(w, T)[t]}
<1>1. Countable(w, T)
  BY FS_Subset DEF Countable
<1>2. Bad = {}
  <2> SUFFICES ASSUME Bad # {} PROVE FALSE
    OBVIOUS
  <2>1. PICK t \in Bad : \A y \in t : t \ {y} \notin Bad
    BY <1>1, SmallestIsThere DEF Countable
  <2>2. t # {}
    <3>1. SumOf(w, S)[{}] = 0 /\ SumOf(w, T)[{}] = 0
      BY <1>1, SumIsNat
    <3>2. QED
      BY <2>1, <3>1
  <2>3. PICK y \in t : TRUE
    BY <2>2
  <2>4. SumOf(w, S)[t] = w[y] + SumOf(w, S)[t \ {y}]
    BY AnyStep
  <2>5. SumOf(w, T)[t] = w[y] + SumOf(w, T)[t \ {y}]
    <3>1. t \in SUBSET T /\ y \in t
      BY <2>1, <2>3
    <3> HIDE DEF Bad
    <3>2. QED
      BY <1>1, <3>1, AnyStep
  <2>6. SumOf(w, S)[t \ {y}] = SumOf(w, T)[t \ {y}]
    BY <2>1, <2>3
  <2>7. QED
    BY <2>1, <2>4, <2>5, <2>6
<1>3. QED
  BY <1>2

\* A function that adds up is the sum.
LEMMA AddsIsTheSum ==
  ASSUME NEW w, NEW S, Countable(w, S), NEW g, Adds(w, g, SUBSET S)
  PROVE  g[S] = SumOf(w, S)[S]
<1> DEFINE Bad == {s \in SUBSET S : g[s] # SumOf(w, S)[s]}
<1>1. Bad = {}
  <2> SUFFICES ASSUME Bad # {} PROVE FALSE
    OBVIOUS
  <2>1. PICK s \in Bad : \A x \in s : s \ {x} \notin Bad
    BY SmallestIsThere DEF Countable
  <2>2. Adds(w, SumOf(w, S), SUBSET S)
    BY SumIsThere DEF Countable
  <2>3. s # {}
    <3>1. g[{}] = 0 /\ SumOf(w, S)[{}] = 0
      BY <2>2 DEF Adds
    <3>2. QED
      BY <2>1, <3>1
  <2> DEFINE x == CHOOSE x \in s : TRUE
  <2>4. x \in s
    BY <2>3
  <2>5. g[s] = w[x] + g[s \ {x}] /\ SumOf(w, S)[s] = w[x] + SumOf(w, S)[s \ {x}]
    BY <2>2, <2>3 DEF Adds
  <2>6. s \ {x} \in SUBSET S /\ s \ {x} \notin Bad
    BY <2>1, <2>4
  <2> HIDE DEF x
  <2>7. QED
    BY <2>1, <2>5, <2>6
<1>2. QED
  BY <1>1

\* A set that has one element more.
LEMMA SumOfMore ==
  ASSUME NEW w, NEW S, Countable(w, S), NEW x \in S
  PROVE  /\ SumOf(w, S)[S] = w[x] + SumOf(w, S \ {x})[S \ {x}]
         /\ SumOf(w, S)[S] \in Nat /\ SumOf(w, S \ {x})[S \ {x}] \in Nat
<1>1. Countable(w, S \ {x})
  BY FS_Subset DEF Countable
<1>2. SumOf(w, S)[S \ {x}] = SumOf(w, S \ {x})[S \ {x}]
  BY SumIsItsOwn
<1>3. SumOf(w, S)[S] = w[x] + SumOf(w, S)[S \ {x}]
  BY AnyStep
<1>4. SumOf(w, S)[S] \in Nat /\ SumOf(w, S \ {x})[S \ {x}] \in Nat
  BY <1>1, SumIsNat
<1>5. QED
  BY <1>2, <1>3, <1>4

\* Of weights that are positive a sum is no less than their number.
LEMMA SumOfPositives ==
  ASSUME NEW w, NEW S, Countable(w, S), \A x \in S : w[x] > 0
  PROVE  Cardinality(S) \in Nat /\ Cardinality(S) <= SumOf(w, S)[S]
<1> DEFINE Bad == {s \in SUBSET S : ~(Cardinality(s) <= SumOf(w, S)[s])}
<1>1. Bad = {}
  <2> SUFFICES ASSUME Bad # {} PROVE FALSE
    OBVIOUS
  <2>1. PICK s \in Bad : \A x \in s : s \ {x} \notin Bad
    BY SmallestIsThere DEF Countable
  <2>2. s # {}
    <3>1. SumOf(w, S)[{}] = 0 /\ Cardinality({}) = 0
      BY SumIsNat, FS_EmptySet
    <3>2. QED
      BY <2>1, <3>1
  <2>3. PICK x \in s : TRUE
    BY <2>2
  <2>4. SumOf(w, S)[s] = w[x] + SumOf(w, S)[s \ {x}]
    BY <2>1, AnyStep
  <2>5. IsFiniteSet(s) /\ Cardinality(s) \in Nat /\ Cardinality(s \ {x}) = Cardinality(s) - 1
    BY <2>1, FS_Subset, FS_CardinalityType, FS_RemoveElement DEF Countable
  <2>6. Cardinality(s \ {x}) <= SumOf(w, S)[s \ {x}]
    BY <2>1
  <2>7. w[x] \in Nat /\ w[x] > 0 /\ SumOf(w, S)[s \ {x}] \in Nat
    BY <2>1, SumIsNat DEF Countable
  <2>8. ~(Cardinality(s) <= SumOf(w, S)[s])
    BY <2>1
  <2> HIDE DEF Bad
  <2>9. QED
    BY <2>4, <2>5, <2>6, <2>7, <2>8
<1>2. Cardinality(S) \in Nat
  BY FS_CardinalityType DEF Countable
<1>3. QED
  BY <1>1, <1>2

\* The sums of the model.
LEMMA QuantityIsTheSum ==
  ASSUME NEW w, NEW S, Countable(w, S), \A x \in S : w[x] = x.quantity
  PROVE  Access!Quantity(S) = SumOf(w, S)[S]
<1> DEFINE Raw(g) == g = [s \in SUBSET S |-> IF s = {} THEN 0
                        ELSE LET x == CHOOSE x \in s : TRUE IN x.quantity + g[s \ {x}]]
           sum == CHOOSE g : Raw(g)
<1>1. Access!Quantity(S) = sum[S]
  BY DEF Access!Quantity, Access!MapThenSumSet, Access!MapThenFoldSet
<1>2. \A g : Raw(g) <=> Adds(w, g, SUBSET S)
  <2> TAKE g
  <2>1. \A s \in SUBSET S : s # {} => (CHOOSE x \in s : TRUE) \in S
    OBVIOUS
  <2>2. \A s \in SUBSET S :
          (IF s = {} THEN 0 ELSE LET x == CHOOSE x \in s : TRUE IN x.quantity + g[s \ {x}])
        = (IF s = {} THEN 0 ELSE LET x == CHOOSE x \in s : TRUE IN w[x] + g[s \ {x}])
    BY <2>1
  <2>3. QED
    BY <2>2 DEF Adds
<1>3. Adds(w, SumOf(w, S), SUBSET S)
  BY SumIsThere DEF Countable
<1>4. Raw(sum)
  <2>1. Raw(SumOf(w, S))
    BY <1>2, <1>3
  <2> HIDE DEF Raw
  <2>2. QED
    BY <2>1
<1>5. Adds(w, sum, SUBSET S)
  <2> HIDE DEF Raw, sum
  <2>1. QED
    BY <1>2, <1>4
<1> HIDE DEF sum
<1>6. QED
  BY <1>1, <1>5, AddsIsTheSum

Weights(S) == [x \in S |-> x.quantity]

\* Finitely many records, with the quantities of which they are the usage.
Measured(S) == IsFiniteSet(S) /\ \A x \in S : x.quantity \in Nat

LEMMA MeasuredSum ==
  ASSUME NEW S, Measured(S)
  PROVE  /\ Countable(Weights(S), S) /\ \A x \in S : Weights(S)[x] = x.quantity
         /\ Access!Quantity(S) = SumOf(Weights(S), S)[S] /\ Access!Quantity(S) \in Nat
<1>1. Countable(Weights(S), S) /\ \A x \in S : Weights(S)[x] = x.quantity
  BY DEF Countable, Measured, Weights
<1>2. Access!Quantity(S) = SumOf(Weights(S), S)[S]
  BY <1>1, QuantityIsTheSum
<1>3. SumOf(Weights(S), S)[S] \in Nat
  BY <1>1, SumIsNat
<1>4. QED
  BY <1>1, <1>2, <1>3

\* The quantity of a record more.
LEMMA QuantityOfOneMore ==
  ASSUME NEW S, Measured(S), NEW x, x \notin S, x.quantity \in Nat
  PROVE  Access!Quantity(S \cup {x}) = Access!Quantity(S) + x.quantity
<1> DEFINE T == S \cup {x}
           w == Weights(T)
<1>1. Measured(T)
  BY FS_AddElement DEF Measured
<1>2. /\ Countable(w, T) /\ \A y \in T : w[y] = y.quantity
      /\ Access!Quantity(T) = SumOf(w, T)[T]
  BY <1>1, MeasuredSum
<1>3. x \in T /\ T \ {x} = S
  OBVIOUS
<1> HIDE DEF T, w
<1>4. SumOf(w, T)[T] = w[x] + SumOf(w, S)[S] /\ SumOf(w, S)[S] \in Nat
  BY <1>2, <1>3, SumOfMore
<1>5. Countable(w, S) /\ \A y \in S : w[y] = y.quantity
  BY <1>2, <1>3 DEF Countable, Measured
<1>6. Access!Quantity(S) = SumOf(w, S)[S]
  BY <1>5, QuantityIsTheSum
<1>7. w[x] = x.quantity
  BY <1>2, <1>3
<1>8. Access!Quantity(T) = Access!Quantity(S) + x.quantity
  BY <1>2, <1>4, <1>6, <1>7
<1>9. QED
  BY <1>8 DEF T

LEMMA QuantityOfMore ==
  ASSUME NEW S, Measured(S), NEW x, x.quantity \in Nat
  PROVE  /\ Access!Quantity(S) \in Nat
         /\ Access!Quantity(S \cup {x}) \in Nat
         /\ Access!Quantity(S) <= Access!Quantity(S \cup {x})
         /\ Access!Quantity(S \cup {x}) <= Access!Quantity(S) + x.quantity
<1>1. Access!Quantity(S) \in Nat
  BY MeasuredSum
<1>2. CASE x \in S
  <2>1. S \cup {x} = S
    BY <1>2
  <2> DEFINE T == S \cup {x}
  <2> HIDE DEF T
  <2>2. Access!Quantity(T) = Access!Quantity(S)
    BY <2>1 DEF T
  <2>3. QED
    BY <1>1, <2>2 DEF T
<1>3. CASE x \notin S
  <2>1. Access!Quantity(S \cup {x}) = Access!Quantity(S) + x.quantity
    BY <1>3, QuantityOfOneMore
  <2>2. QED
    BY <1>1, <2>1
<1>4. QED
  BY <1>2, <1>3

LEMMA QuantityOfNothing == Access!Quantity({}) = 0
<1>1. Measured({})
  BY FS_EmptySet DEF Measured
<1>2. Countable(Weights({}), {}) /\ Access!Quantity({}) = SumOf(Weights({}), {})[{}]
  BY <1>1, MeasuredSum
<1>3. QED
  BY <1>2, SumIsNat

\* Records with positive quantities are no more than their quantity.
LEMMA QuantityOfPositives ==
  ASSUME NEW S, Measured(S), \A x \in S : x.quantity > 0
  PROVE  /\ Cardinality(S) \in Nat /\ Cardinality(S) <= Access!Quantity(S)
         /\ Cardinality(S) = 0 <=> Access!Quantity(S) = 0
<1>1. /\ Countable(Weights(S), S) /\ Access!Quantity(S) = SumOf(Weights(S), S)[S]
      /\ Access!Quantity(S) \in Nat /\ \A x \in S : Weights(S)[x] = x.quantity
  BY MeasuredSum
<1>2. Cardinality(S) \in Nat /\ Cardinality(S) <= SumOf(Weights(S), S)[S]
  BY <1>1, SumOfPositives
<1>3. Cardinality(S) = 0 => Access!Quantity(S) = 0
  BY QuantityOfNothing, FS_EmptySet DEF Measured
<1>4. QED
  BY <1>1, <1>2, <1>3

-----------------------------------------------------------------------------
(* What may be used of a limit, by consumers that ask before they use.         *)

Most == Access!Max(Proposal)
Others == Cardinality(Consumer) - 1

\* The consumers that may still be allowed something, when s[p] is what p has seen.
Open(s, limit) == {p \in Consumer : s[p] < limit}

\* Either there is room for one proposal of each of them; or one of them has seen so
\* much that there is room for one of each of the others beyond it.
Fits(spent, s, limit) ==
  \/ spent + Cardinality(Open(s, limit)) * Most <= limit + Others * Most
  \/ \E e \in Open(s, limit) :
       spent + (Cardinality(Open(s, limit)) - 1) * Most <= s[e] + Others * Most

Seen(s) == s \in [Consumer -> Nat]

ConsumersAreSome == IsFiniteSet(Consumer) /\ Consumer # {} /\ Most \in Nat

LEMMA Products ==
  ASSUME NEW j \in Int, NEW k \in Int, j <= k, NEW n \in Nat
  PROVE  /\ j * n <= k * n /\ j * n \in Int /\ k * n \in Int
         /\ (k - 1) * n = k * n - n
         /\ (k - 2) * n = k * n - n - n
<1>1. \A d \in Nat : d * n \in Nat
  OBVIOUS
<1>2. k - j \in Nat
  OBVIOUS
<1>3. (k - j) * n \in Nat
  BY <1>1, <1>2
<1>4. (k - j) * n = k * n - j * n
  OBVIOUS
<1>5. j * n \in Int /\ k * n \in Int
  OBVIOUS
<1>6. j * n <= k * n
  BY <1>3, <1>4, <1>5
<1>7. (k - 1) * n = k * n - n
  OBVIOUS
<1>8. (k - 2) * n = k * n - n - n
  OBVIOUS
<1>9. QED
  BY <1>5, <1>6, <1>7, <1>8

LEMMA OpenAreConsumers ==
  ASSUME ConsumersAreSome, NEW s, NEW limit
  PROVE  /\ IsFiniteSet(Open(s, limit)) /\ Cardinality(Open(s, limit)) \in Nat
         /\ Cardinality(Open(s, limit)) <= Others + 1 /\ Others \in Nat
         /\ Open(s, limit) # {} => Cardinality(Open(s, limit)) >= 1
<1>1. Open(s, limit) \subseteq Consumer
  BY DEF Open
<1>2. Cardinality(Consumer) \in Nat /\ Cardinality(Consumer) # 0
  BY FS_CardinalityType, FS_EmptySet DEF ConsumersAreSome
<1>3. /\ IsFiniteSet(Open(s, limit)) /\ Cardinality(Open(s, limit)) \in Nat
      /\ Cardinality(Open(s, limit)) <= Cardinality(Consumer)
  BY <1>1, FS_Subset, FS_CardinalityType DEF ConsumersAreSome
<1>4. Open(s, limit) # {} => Cardinality(Open(s, limit)) # 0
  BY <1>3, FS_EmptySet
<1>5. QED
  BY <1>2, <1>3, <1>4 DEF Others

LEMMA FitsIsBounded ==
  ASSUME ConsumersAreSome, NEW spent \in Nat, NEW s, Seen(s), NEW limit \in Nat, Fits(spent, s, limit)
  PROVE  spent <= limit + Others * Most
<1> DEFINE k == Cardinality(Open(s, limit))
<1>1. k \in Nat /\ Others \in Nat /\ Most \in Nat /\ (Open(s, limit) # {} => k >= 1)
  BY OpenAreConsumers DEF ConsumersAreSome
<1>2. CASE spent + k * Most <= limit + Others * Most
  <2>1. 0 * Most <= k * Most /\ k * Most \in Int /\ Others * Most \in Int
    BY <1>1, Products
  <2>2. 0 * Most = 0
    BY <1>1
  <2> HIDE DEF k
  <2>3. QED
    BY <2>1, <2>2, <1>2
<1>3. CASE \E e \in Open(s, limit) : spent + (k - 1) * Most <= s[e] + Others * Most
  <2>1. PICK e \in Open(s, limit) : spent + (k - 1) * Most <= s[e] + Others * Most
    BY <1>3
  <2>2. k - 1 \in Nat /\ s[e] \in Nat /\ s[e] < limit
    BY <1>1, <2>1 DEF Open, Seen
  <2>3. 0 * Most <= (k - 1) * Most /\ (k - 1) * Most \in Int /\ Others * Most \in Int
    BY <1>1, <2>2, Products
  <2>4. 0 * Most = 0
    BY <1>1
  <2> HIDE DEF k
  <2>5. QED
    BY <2>1, <2>2, <2>3, <2>4
<1>4. QED
  BY <1>2, <1>3 DEF Fits

\* Who looks now has seen all that is used.
LEMMA WhoLooksFits ==
  ASSUME ConsumersAreSome, NEW spent \in Nat, NEW s, Seen(s), NEW limit \in Nat,
         Fits(spent, s, limit), NEW p \in Consumer, s[p] >= limit
  PROVE  Fits(spent, [s EXCEPT ![p] = spent], limit)
<1> DEFINE next == [s EXCEPT ![p] = spent]
<1>1. \A x \in Consumer : next[x] = IF x = p THEN spent ELSE s[x]
  BY DEF Seen
<1>2. \A x \in Consumer : s[x] \in Nat
  BY DEF Seen
<1> HIDE DEF next
<1>3. CASE spent < limit
  <2> DEFINE k == Cardinality(Open(next, limit))
  <2>1. p \in Open(next, limit)
    BY <1>1, <1>3 DEF Open
  <2>2. k \in Nat /\ k <= Others + 1 /\ Others \in Nat /\ Most \in Nat
    BY OpenAreConsumers DEF ConsumersAreSome
  <2> HIDE DEF k
  <2>3. (k - 1) * Most <= Others * Most /\ (k - 1) * Most \in Int /\ Others * Most \in Int
    BY <2>2, Products
  <2>4. spent + (k - 1) * Most <= next[p] + Others * Most
    BY <2>3, <1>1
  <2>5. QED
    BY <2>1, <2>4 DEF Fits, k, next
<1>4. CASE spent >= limit
  <2>1. Open(next, limit) = Open(s, limit)
    BY <1>1, <1>2, <1>4 DEF Open
  <2>2. \A e \in Open(s, limit) : next[e] = s[e]
    BY <1>1, <1>2 DEF Open
  <2>3. QED
    BY <2>1, <2>2 DEF Fits, next
<1>5. QED
  BY <1>3, <1>4

\* A consumer that was open uses something, or nothing, and is idle; the others have
\* seen what they had seen, or more.
LEMMA WhoUsesFits ==
  ASSUME ConsumersAreSome, NEW spent \in Nat, NEW s, Seen(s), NEW limit \in Nat,
         Fits(spent, s, limit), NEW p \in Consumer, NEW q \in Nat, q <= Most,
         s[p] < limit, s[p] + q <= limit,
         NEW after \in Nat, after <= spent + q, NEW next, Seen(next), next[p] = limit,
         \A x \in Consumer : x # p => s[x] <= next[x]
  PROVE  Fits(after, next, limit)
<1> DEFINE k == Cardinality(Open(s, limit))
           j == Cardinality(Open(next, limit))
<1>1. /\ \A x \in Consumer : s[x] \in Nat /\ next[x] \in Nat
      /\ Open(next, limit) \subseteq Open(s, limit) \ {p} /\ p \in Open(s, limit)
  BY DEF Seen, Open
<1>2. /\ k \in Nat /\ j \in Nat /\ Others \in Nat /\ Most \in Nat
      /\ IsFiniteSet(Open(s, limit))
  BY OpenAreConsumers DEF ConsumersAreSome
<1>3. \A T : T \subseteq Open(s, limit) \ {p} =>
        IsFiniteSet(T) /\ Cardinality(T) \in Nat /\ Cardinality(T) <= k - 1
  <2>1. IsFiniteSet(Open(s, limit) \ {p}) /\ Cardinality(Open(s, limit) \ {p}) = k - 1
    BY <1>1, <1>2, FS_RemoveElement
  <2>2. QED
    BY <2>1, FS_Subset, FS_CardinalityType
<1>4. j <= k - 1
  BY <1>1, <1>3
<1>5. /\ j * Most <= k * Most - Most /\ j * Most \in Int /\ k * Most \in Int
      /\ Others * Most \in Int
  <2>1. j * Most <= (k - 1) * Most /\ (k - 1) * Most = k * Most - Most
    BY <1>2, <1>4, Products
  <2>2. QED
    BY <1>2, <2>1, Products
<1>6. CASE spent + k * Most <= limit + Others * Most
  <2> HIDE DEF j, k
  <2>1. after + j * Most <= limit + Others * Most
    BY <1>2, <1>5, <1>6
  <2>2. QED
    BY <2>1 DEF Fits, j
<1>7. ASSUME NEW e \in Open(s, limit), spent + (k - 1) * Most <= s[e] + Others * Most
      PROVE  Fits(after, next, limit)
  <2>1. spent + (k * Most - Most) <= s[e] + Others * Most
    BY <1>2, <1>7, Products
  <2>2. s[e] \in Nat /\ s[e] < limit /\ e \in Consumer
    BY <1>1 DEF Open
  <2>3. CASE e = p
    <3> HIDE DEF j, k
    <3>1. s[p] \in Nat
      BY <2>2, <2>3
    <3>2. after + j * Most <= limit + Others * Most
      BY <1>2, <1>5, <2>1, <2>3, <3>1
    <3>3. QED
      BY <3>2 DEF Fits, j
  <2>4. CASE e # p /\ e \in Open(next, limit)
    <3>1. next[e] \in Nat /\ s[e] <= next[e]
      BY <1>1, <2>2, <2>4
    <3>2. (j - 1) * Most = j * Most - Most
      BY <1>2, Products
    <3> HIDE DEF j, k
    <3>3. after + (j - 1) * Most <= next[e] + Others * Most
      BY <1>2, <1>5, <2>1, <2>2, <3>1, <3>2
    <3>4. QED
      BY <3>3, <2>4 DEF Fits, j
  <2>5. CASE e # p /\ e \notin Open(next, limit)
    <3>1. Open(next, limit) \subseteq (Open(s, limit) \ {p}) \ {e}
      BY <1>1, <2>5
    <3>2. IsFiniteSet(Open(s, limit) \ {p}) /\ e \in Open(s, limit) \ {p}
      BY <1>3, <2>5
    <3>3. Cardinality((Open(s, limit) \ {p}) \ {e}) = Cardinality(Open(s, limit) \ {p}) - 1
      BY <3>2, FS_RemoveElement
    <3>4. IsFiniteSet((Open(s, limit) \ {p}) \ {e})
      BY <3>2, FS_Subset
    <3>5. j <= Cardinality((Open(s, limit) \ {p}) \ {e})
      BY <3>1, <3>4, FS_Subset
    <3>6. Cardinality(Open(s, limit) \ {p}) \in Nat /\ Cardinality(Open(s, limit) \ {p}) <= k - 1
      BY <1>3
    <3>7. j <= k - 2
      BY <3>3, <3>5, <3>6, <1>2
    <3>8. j * Most <= k * Most - Most - Most
      <4>1. j * Most <= (k - 2) * Most /\ (k - 2) * Most = k * Most - Most - Most
        BY <1>2, <3>7, Products
      <4>2. QED
        BY <4>1
    <3> HIDE DEF j, k
    <3>9. after + j * Most <= limit + Others * Most
      BY <1>2, <1>5, <2>1, <2>2, <3>8
    <3>10. QED
      BY <3>9 DEF Fits, j
  <2>6. QED
    BY <2>3, <2>4, <2>5
<1>8. QED
  BY <1>6, <1>7 DEF Fits

\* Who was not open and is idle changes nothing.
LEMMA WhoWasNotOpenFits ==
  ASSUME NEW spent \in Nat, NEW s, Seen(s), NEW limit \in Nat, Fits(spent, s, limit),
         NEW p \in Consumer, s[p] >= limit,
         NEW next, Seen(next), \A x \in Consumer : next[x] = IF x = p THEN limit ELSE s[x]
  PROVE  Fits(spent, next, limit)
<1>1. \A x \in Consumer : s[x] \in Nat
  BY DEF Seen
<1>2. Open(next, limit) = Open(s, limit)
  BY <1>1 DEF Open
<1>3. \A e \in Open(s, limit) : next[e] = s[e]
  BY <1>1 DEF Open
<1>4. QED
  BY <1>2, <1>3 DEF Fits

\* Of a new window nothing is used.
LEMMA NothingFits ==
  ASSUME ConsumersAreSome, NEW s, Seen(s), NEW limit \in Nat
  PROVE  Fits(0, s, limit)
<1> DEFINE k == Cardinality(Open(s, limit))
<1>1. k \in Nat /\ Others \in Nat /\ Most \in Nat /\ k <= Others + 1 /\ IsFiniteSet(Open(s, limit))
  BY OpenAreConsumers DEF ConsumersAreSome
<1>2. CASE Open(s, limit) = {}
  <2>1. k = 0
    BY <1>2, FS_EmptySet
  <2>2. 0 * Most <= Others * Most /\ 0 * Most = 0 /\ Others * Most \in Int
    BY <1>1, Products
  <2>3. 0 + k * Most <= limit + Others * Most
    BY <2>1, <2>2
  <2>4. QED
    BY <2>3 DEF Fits
<1>3. CASE Open(s, limit) # {}
  <2>1. PICK e \in Open(s, limit) : TRUE
    BY <1>3
  <2>2. s[e] \in Nat
    BY DEF Open, Seen
  <2> HIDE DEF k
  <2>3. (k - 1) * Most <= Others * Most /\ (k - 1) * Most \in Int /\ Others * Most \in Int
    BY <1>1, Products
  <2>4. 0 + (k - 1) * Most <= s[e] + Others * Most
    BY <2>2, <2>3
  <2>5. QED
    BY <2>4 DEF Fits, k
<1>4. QED
  BY <1>2, <1>3

-----------------------------------------------------------------------------
(* Consumers that rate, ask and use.                                           *)

\* What a consumer has seen used of a meter: what it has rated or, as long as it has not, what
\* it will rate; for a consumer that is idle the limit, so that nothing is open to it.
SeenIn(row, m, history) ==
  IF row.asOf = Nil THEN MeterLimit[m]
  ELSE IF m \in DOMAIN row.ratings THEN row.ratings[m].used
  ELSE Access!Quantity(Access!Included(history, MeterWindow[m], row.asOf))

SeenOf(m) == [p \in Consumer |-> SeenIn(desk[p], m, usage[m])]

UsedOf(m) == Access!Quantity(Access!Included(usage[m], MeterWindow[m], quotaClock))

UsageHolds ==
  /\ quotaClock \in Nat
  /\ usage = [m \in Access!Meter |-> usage[m]]
  /\ \A m \in Access!Meter :
       /\ IsFiniteSet(usage[m])
       /\ \A u \in usage[m] : u.at \in Nat /\ u.at <= quotaClock /\ u.quantity \in Proposal

\* What a consumer holds between its reads: ratings of the meters as of the instant at
\* which it began, and a quantity that was allowed by the rating of its meter.
DeskHolds(row, now) ==
  /\ row = [asOf |-> row.asOf, ratings |-> row.ratings, meter |-> row.meter,
            quantity |-> row.quantity]
  /\ row.asOf = Nil => row.ratings = <<>> /\ row.meter = Nil
  /\ row.asOf # Nil => row.asOf \in Nat /\ row.asOf <= now
  /\ \A m \in DOMAIN row.ratings :
       row.ratings[m].used \in Nat /\ row.ratings[m].limit = MeterLimit[m]
  /\ row.meter # Nil =>
       /\ row.meter \in Access!Meter /\ row.quantity \in Proposal
       /\ row.meter \in DOMAIN row.ratings
       /\ ~Access!QuotaBlocks(row.ratings[row.meter], row.quantity)

\* The inductive invariant.
QuotaHolds ==
  /\ UsageHolds
  /\ desk = [p \in Consumer |-> desk[p]] /\ \A p \in Consumer : DeskHolds(desk[p], quotaClock)
  /\ \A m \in Access!Meter : MeterLimit[m] # Nil => Fits(UsedOf(m), SeenOf(m), MeterLimit[m])

LEMMA ProposalsAreSome ==
  ASSUME Access!QuotaConstants
  PROVE  ConsumersAreSome /\ \A q \in Proposal : q \in Nat /\ q <= Most
<1>1. PICK x \in Proposal : \A y \in Proposal : x >= y
  BY DEF Access!QuotaConstants
<1>2. Most \in Proposal /\ \A y \in Proposal : Most >= y
  BY <1>1 DEF Most, Access!Max
<1>3. QED
  BY <1>2 DEF Access!QuotaConstants, ConsumersAreSome, Access!IsFiniteSet, IsFiniteSet

\* Records that can be counted.
LEMMA IncludedCount ==
  ASSUME Access!QuotaConstants, NEW history, IsFiniteSet(history),
         \A u \in history : u.quantity \in Proposal, NEW window, NEW asOf
  PROVE  /\ Measured(Access!Included(history, window, asOf))
         /\ Access!Quantity(Access!Included(history, window, asOf)) \in Nat
<1> DEFINE counted == Access!Included(history, window, asOf)
<1>1. counted \subseteq history
  BY DEF Access!Included
<1>2. IsFiniteSet(counted)
  BY <1>1, FS_Subset
<1>3. \A u \in counted : u.quantity \in Nat
  BY <1>1, ProposalsAreSome
<1> HIDE DEF counted
<1>4. Measured(counted)
  BY <1>2, <1>3 DEF Measured
<1>5. Access!Quantity(counted) \in Nat
  BY <1>4, MeasuredSum
<1>6. QED
  BY <1>4, <1>5 DEF counted

LEMMA SeenIsNat ==
  ASSUME Access!QuotaConstants, NEW row, NEW now, DeskHolds(row, now),
         NEW m \in Access!Meter, MeterLimit[m] # Nil,
         NEW history, IsFiniteSet(history), \A u \in history : u.quantity \in Proposal
  PROVE  SeenIn(row, m, history) \in Nat /\ MeterLimit[m] \in Nat
<1>1. MeterLimit[m] \in Nat
  BY DEF Access!QuotaConstants
<1>2. Access!Quantity(Access!Included(history, MeterWindow[m], row.asOf)) \in Nat
  BY IncludedCount
<1>3. m \in DOMAIN row.ratings => row.ratings[m].used \in Nat
  BY DEF DeskHolds
<1>4. QED
  BY <1>1, <1>2, <1>3 DEF SeenIn

LEMMA SeenIsSeen ==
  ASSUME Access!QuotaConstants, QuotaHolds, NEW m \in Access!Meter, MeterLimit[m] # Nil
  PROVE  Seen(SeenOf(m)) /\ MeterLimit[m] \in Nat /\ UsedOf(m) \in Nat
<1>1. IsFiniteSet(usage[m]) /\ \A u \in usage[m] : u.quantity \in Proposal
  BY DEF QuotaHolds, UsageHolds
<1>2. \A p \in Consumer : SeenIn(desk[p], m, usage[m]) \in Nat /\ MeterLimit[m] \in Nat
  BY <1>1, SeenIsNat DEF QuotaHolds
<1>3. MeterLimit[m] \in Nat
  BY DEF Access!QuotaConstants
<1>4. UsedOf(m) \in Nat
  BY <1>1, IncludedCount DEF UsedOf
<1>5. QED
  BY <1>2, <1>3, <1>4 DEF Seen, SeenOf

\* One consumer's desk changes, and nothing else.
LEMMA DeskStep ==
  ASSUME Access!QuotaConstants, QuotaHolds, NEW p \in Consumer, NEW row,
         desk' = [desk EXCEPT ![p] = row], UNCHANGED <<quotaClock, usage>>,
         DeskHolds(row, quotaClock),
         \A m \in Access!Meter : MeterLimit[m] # Nil =>
           Fits(UsedOf(m), [SeenOf(m) EXCEPT ![p] = SeenIn(row, m, usage[m])], MeterLimit[m])
  PROVE  QuotaHolds'
<1>1. UsageHolds'
  BY DEF QuotaHolds, UsageHolds
<1>2. desk = [x \in Consumer |-> desk[x]]
  BY DEF QuotaHolds
<1>3. \A x \in Consumer : desk'[x] = IF x = p THEN row ELSE desk[x]
  BY <1>2
<1>4. desk' = [x \in Consumer |-> desk'[x]]
  BY <1>2
<1>5. \A x \in Consumer : DeskHolds(desk'[x], quotaClock')
  BY <1>3 DEF QuotaHolds
<1>6. \A m \in Access!Meter :
        UsedOf(m)' = UsedOf(m) /\ SeenOf(m)' = [SeenOf(m) EXCEPT ![p] = SeenIn(row, m, usage[m])]
  <2> TAKE m \in Access!Meter
  <2>1. UsedOf(m)' = UsedOf(m)
    BY DEF UsedOf
  <2>2. SeenOf(m)' = [x \in Consumer |-> SeenIn(desk'[x], m, usage'[m])]
    BY DEF SeenOf
  <2>3. SeenOf(m) = [x \in Consumer |-> SeenIn(desk[x], m, usage[m])]
    BY DEF SeenOf
  <2>4. \A x \in Consumer : SeenIn(desk'[x], m, usage'[m])
          = IF x = p THEN SeenIn(row, m, usage[m]) ELSE SeenIn(desk[x], m, usage[m])
    BY <1>3
  <2>5. QED
    BY <2>1, <2>2, <2>3, <2>4
<1>7. QED
  BY <1>1, <1>4, <1>5, <1>6 DEF QuotaHolds

\* What a consumer has seen of the meters stays as it is.
LEMMA SameSeenFits ==
  ASSUME NEW m, NEW p \in Consumer, NEW row,
         SeenIn(row, m, usage[m]) = SeenIn(desk[p], m, usage[m]),
         Fits(UsedOf(m), SeenOf(m), MeterLimit[m])
  PROVE  Fits(UsedOf(m), [SeenOf(m) EXCEPT ![p] = SeenIn(row, m, usage[m])], MeterLimit[m])
<1>1. [SeenOf(m) EXCEPT ![p] = SeenIn(row, m, usage[m])] = SeenOf(m)
  BY DEF SeenOf
<1>2. QED
  BY <1>1

LEMMA StartRatingHolds ==
  ASSUME Access!QuotaConstants, QuotaHolds, NEW p \in Consumer, Access!StartRating(p)
  PROVE  QuotaHolds'
<1> DEFINE row == [asOf |-> quotaClock, ratings |-> desk[p].ratings, meter |-> desk[p].meter,
                   quantity |-> desk[p].quantity]
<1>1. /\ desk[p] = Access!Idle /\ desk' = [desk EXCEPT ![p].asOf = quotaClock]
      /\ UNCHANGED <<quotaClock, usage>>
  BY DEF Access!StartRating
<1>2. /\ desk[p].asOf = Nil /\ desk[p].ratings = <<>> /\ desk[p].meter = Nil
  BY <1>1 DEF Access!Idle
<1>3. DOMAIN desk[p].ratings = {}
  BY <1>2
<1>4. quotaClock \in Nat /\ quotaClock # Nil
  BY DEF QuotaHolds, UsageHolds, Access!QuotaConstants
<1>5. [desk[p] EXCEPT !.asOf = quotaClock] = row
  BY <1>1 DEF Access!Idle
<1>6. desk' = [desk EXCEPT ![p] = row]
  BY <1>1, <1>5
<1>7. DeskHolds(row, quotaClock)
  BY <1>2, <1>3, <1>4 DEF DeskHolds
<1>8. \A m \in Access!Meter : SeenIn(row, m, usage[m]) = UsedOf(m)
  BY <1>3, <1>4 DEF SeenIn, UsedOf
<1> HIDE DEF row
<1>9. ASSUME NEW m \in Access!Meter, MeterLimit[m] # Nil
      PROVE  Fits(UsedOf(m), [SeenOf(m) EXCEPT ![p] = SeenIn(row, m, usage[m])], MeterLimit[m])
  <2>1. Seen(SeenOf(m)) /\ MeterLimit[m] \in Nat /\ UsedOf(m) \in Nat
    BY <1>9, SeenIsSeen
  <2>2. SeenOf(m)[p] = MeterLimit[m]
    BY <1>2 DEF SeenOf, SeenIn
  <2>3. SeenOf(m)[p] >= MeterLimit[m]
    BY <2>1, <2>2
  <2>4. Fits(UsedOf(m), SeenOf(m), MeterLimit[m])
    BY <1>9 DEF QuotaHolds
  <2>5. Fits(UsedOf(m), [SeenOf(m) EXCEPT ![p] = UsedOf(m)], MeterLimit[m])
    BY <2>1, <2>3, <2>4, WhoLooksFits, ProposalsAreSome
  <2>6. QED
    BY <2>5, <1>8
<1>10. QED
  BY <1>1, <1>6, <1>7, <1>9, DeskStep

LEMMA RatedIs ==
  ASSUME Access!QuotaConstants, QuotaHolds, NEW m \in Access!Meter, NEW asOf, asOf \in Nat,
         Access!Rated(m, asOf) # Nil
  PROVE  /\ Access!Rated(m, asOf).used
              = Access!Quantity(Access!Included(usage[m], MeterWindow[m], asOf))
         /\ Access!Rated(m, asOf).used \in Nat
         /\ Access!Rated(m, asOf).limit = MeterLimit[m]
<1> DEFINE known == {u \in usage[m] : u.at <= asOf}
<1>1. Access!Included(known, MeterWindow[m], asOf) = Access!Included(usage[m], MeterWindow[m], asOf)
  BY DEF Access!Included
<1>2. Access!Quantity(Access!Included(usage[m], MeterWindow[m], asOf)) \in Nat
  BY IncludedCount DEF QuotaHolds, UsageHolds
<1>3. Access!Rated(m, asOf) = Access!Rate(known, MeterLimit[m], MeterWindow[m], asOf)
  BY DEF Access!Rated
<1> HIDE DEF known
<1>4. /\ Access!Rated(m, asOf).used = Access!Quantity(Access!Included(known, MeterWindow[m], asOf))
      /\ Access!Rated(m, asOf).limit = MeterLimit[m]
  BY <1>3 DEF Access!Rate, Access!Rating
<1>5. QED
  BY <1>1, <1>2, <1>4

LEMMA RateMeterHolds ==
  ASSUME Access!QuotaConstants, QuotaHolds, NEW p \in Consumer, NEW m \in Access!Meter,
         Access!RateMeter(p, m)
  PROVE  QuotaHolds'
<1> DEFINE rating == Access!Rated(m, desk[p].asOf)
           all == [k \in DOMAIN desk[p].ratings \cup {m} |->
                     IF k = m THEN rating ELSE desk[p].ratings[k]]
           row == [asOf |-> desk[p].asOf, ratings |-> all, meter |-> desk[p].meter,
                   quantity |-> desk[p].quantity]
<1>1. /\ desk[p].asOf # Nil /\ m \notin DOMAIN desk[p].ratings /\ rating # Nil
      /\ UNCHANGED <<quotaClock, usage>>
      /\ desk' = [desk EXCEPT ![p].ratings = all]
  BY DEF Access!RateMeter
<1>2. DeskHolds(desk[p], quotaClock)
  BY DEF QuotaHolds
<1>3. desk[p].asOf \in Nat
  BY <1>1, <1>2 DEF DeskHolds
<1>4. /\ rating.used = Access!Quantity(Access!Included(usage[m], MeterWindow[m], desk[p].asOf))
      /\ rating.used \in Nat /\ rating.limit = MeterLimit[m]
  BY <1>1, <1>3, RatedIs
<1>5. [desk[p] EXCEPT !.ratings = all] = row
  BY <1>2 DEF DeskHolds
<1>6. desk' = [desk EXCEPT ![p] = row]
  BY <1>1, <1>5
<1> HIDE DEF rating
<1>7. /\ DOMAIN all = DOMAIN desk[p].ratings \cup {m} /\ all[m] = rating
      /\ \A k \in DOMAIN desk[p].ratings : all[k] = desk[p].ratings[k]
  BY <1>1
<1> HIDE DEF all
<1>8. DeskHolds(row, quotaClock)
  BY <1>1, <1>2, <1>4, <1>7 DEF DeskHolds
<1>9. \A k : SeenIn(row, k, usage[k]) = SeenIn(desk[p], k, usage[k])
  BY <1>1, <1>4, <1>7 DEF SeenIn
<1> HIDE DEF row
<1>10. ASSUME NEW k \in Access!Meter, MeterLimit[k] # Nil
       PROVE  Fits(UsedOf(k), [SeenOf(k) EXCEPT ![p] = SeenIn(row, k, usage[k])], MeterLimit[k])
  BY <1>9, <1>10, SameSeenFits DEF QuotaHolds
<1>11. QED
  BY <1>1, <1>6, <1>8, <1>10, DeskStep

LEMMA AllowedIsWithin ==
  ASSUME Access!QuotaConstants, NEW ratings, NEW m, NEW q,
         Access!Preflight(Policy, ratings, m, q) = "allowed"
  PROVE  m \in DOMAIN ratings /\ ~Access!QuotaBlocks(ratings[m], q)
BY DEF Access!Preflight, Access!QuotaConstants

LEMMA AllowedDesk ==
  ASSUME QuotaHolds, NEW p \in Consumer, NEW m, NEW q,
         desk' = [desk EXCEPT ![p].meter = m, ![p].quantity = q]
  PROVE  desk' = [desk EXCEPT ![p] = [asOf |-> desk[p].asOf, ratings |-> desk[p].ratings,
                                      meter |-> m, quantity |-> q]]
<1> DEFINE row == [asOf |-> desk[p].asOf, ratings |-> desk[p].ratings, meter |-> m, quantity |-> q]
<1>1. DeskHolds(desk[p], quotaClock) /\ desk = [x \in Consumer |-> desk[x]]
  BY DEF QuotaHolds
<1>2. desk[p] = [asOf |-> desk[p].asOf, ratings |-> desk[p].ratings, meter |-> desk[p].meter,
                 quantity |-> desk[p].quantity]
  BY <1>1 DEF DeskHolds
<1>3. desk' = [desk EXCEPT ![p] = row]
  <2> DEFINE one == [desk EXCEPT ![p].meter = m]
  <2>1. desk' = [one EXCEPT ![p] = [one[p] EXCEPT !.quantity = q]]
    OBVIOUS
  <2>2. /\ DOMAIN one = Consumer /\ one[p] = [desk[p] EXCEPT !.meter = m]
        /\ \A x \in Consumer : x # p => one[x] = desk[x]
    BY <1>1
  <2> HIDE DEF one
  <2>3. one[p] = [asOf |-> desk[p].asOf, ratings |-> desk[p].ratings, meter |-> m,
                  quantity |-> desk[p].quantity]
    BY <1>2, <2>2
  <2>4. [one[p] EXCEPT !.quantity = q] = row
    BY <2>3
  <2>5. desk' = [x \in Consumer |-> IF x = p THEN row ELSE desk[x]]
    <3>1. one = [x \in Consumer |-> one[x]]
      BY <1>1 DEF one
    <3>2. desk' = [one EXCEPT ![p] = row]
      BY <2>1, <2>4
    <3>3. QED
      BY <3>1, <3>2, <2>2
  <2>6. QED
    BY <1>1, <2>5
<1>4. QED
  BY <1>3

LEMMA AllowHolds ==
  ASSUME Access!QuotaConstants, QuotaHolds, NEW p \in Consumer, NEW m \in Access!Meter,
         NEW q \in Proposal, Access!Allow(p, m, q)
  PROVE  QuotaHolds'
<1> DEFINE row == [asOf |-> desk[p].asOf, ratings |-> desk[p].ratings, meter |-> m, quantity |-> q]
<1>1. /\ desk[p].asOf # Nil /\ UNCHANGED <<quotaClock, usage>>
      /\ Access!Preflight(Policy, desk[p].ratings, m, q) = "allowed"
      /\ desk' = [desk EXCEPT ![p].meter = m, ![p].quantity = q]
  BY DEF Access!Allow
<1>2. DeskHolds(desk[p], quotaClock) /\ desk = [x \in Consumer |-> desk[x]]
  BY DEF QuotaHolds
<1>3. m \in DOMAIN desk[p].ratings /\ ~Access!QuotaBlocks(desk[p].ratings[m], q)
  BY <1>1, AllowedIsWithin
<1>4. desk' = [desk EXCEPT ![p] = row]
  BY <1>1, AllowedDesk
<1>5. DeskHolds(row, quotaClock)
  BY <1>1, <1>2, <1>3 DEF DeskHolds
<1>6. \A k : SeenIn(row, k, usage[k]) = SeenIn(desk[p], k, usage[k])
  BY DEF SeenIn
<1> HIDE DEF row
<1>7. ASSUME NEW k \in Access!Meter, MeterLimit[k] # Nil
      PROVE  Fits(UsedOf(k), [SeenOf(k) EXCEPT ![p] = SeenIn(row, k, usage[k])], MeterLimit[k])
  BY <1>6, <1>7, SameSeenFits DEF QuotaHolds
<1>8. QED
  BY <1>1, <1>4, <1>5, <1>7, DeskStep

LEMMA InitHolds ==
  ASSUME Access!QuotaConstants, Access!QuotaInit
  PROVE  QuotaHolds
<1>1. /\ quotaClock = 0 /\ usage = [m \in Access!Meter |-> {}]
      /\ desk = [p \in Consumer |-> Access!Idle]
  BY DEF Access!QuotaInit
<1>2. UsageHolds
  BY <1>1, FS_EmptySet DEF UsageHolds
<1>3. \A p \in Consumer : DeskHolds(desk[p], quotaClock)
  <2>1. DOMAIN <<>> = {}
    OBVIOUS
  <2>2. DeskHolds(Access!Idle, quotaClock)
    BY <2>1 DEF DeskHolds, Access!Idle
  <2>3. QED
    BY <1>1, <2>2
<1>4. ASSUME NEW m \in Access!Meter, MeterLimit[m] # Nil
      PROVE  Fits(UsedOf(m), SeenOf(m), MeterLimit[m])
  <2>1. MeterLimit[m] \in Nat
    BY <1>4 DEF Access!QuotaConstants
  <2>2. UsedOf(m) = 0
    <3>1. Access!Included(usage[m], MeterWindow[m], quotaClock) = {}
      BY <1>1 DEF Access!Included
    <3>2. QED
      BY <3>1, QuantityOfNothing DEF UsedOf
  <2>3. \A p \in Consumer : SeenIn(desk[p], m, usage[m]) = MeterLimit[m]
    BY <1>1 DEF SeenIn, Access!Idle
  <2>4. Seen(SeenOf(m))
    BY <2>1, <2>3 DEF Seen, SeenOf
  <2>5. QED
    BY <2>1, <2>2, <2>4, NothingFits, ProposalsAreSome
<1>5. QED
  BY <1>1, <1>2, <1>3, <1>4 DEF QuotaHolds

LEMMA IdleIsIdle ==
  ASSUME NEW now
  PROVE  DeskHolds(Access!Idle, now) /\ \A m, history : SeenIn(Access!Idle, m, history) = MeterLimit[m]
<1>1. DOMAIN <<>> = {}
  OBVIOUS
<1>2. QED
  BY <1>1 DEF DeskHolds, SeenIn, Access!Idle

\* A consumer lets go of what it was allowed.
LEMMA IdleFits ==
  ASSUME Access!QuotaConstants, QuotaHolds, NEW p \in Consumer,
         NEW m \in Access!Meter, MeterLimit[m] # Nil
  PROVE  Fits(UsedOf(m), [SeenOf(m) EXCEPT ![p] = MeterLimit[m]], MeterLimit[m])
<1> DEFINE s == SeenOf(m)
           limit == MeterLimit[m]
           next == [s EXCEPT ![p] = limit]
           spent == UsedOf(m)
<1>1. Seen(s) /\ limit \in Nat /\ spent \in Nat
  BY SeenIsSeen
<1>2. Fits(spent, s, limit)
  BY DEF QuotaHolds
<1> HIDE DEF s, limit, spent
<1>3. \A x \in Consumer : s[x] \in Nat
  BY <1>1 DEF Seen
<1>4. Seen(next) /\ \A x \in Consumer : next[x] = IF x = p THEN limit ELSE s[x]
  BY <1>1 DEF Seen
<1> HIDE DEF next
<1>5. ASSUME s[p] >= limit PROVE Fits(spent, next, limit)
  BY <1>1, <1>2, <1>4, <1>5, WhoWasNotOpenFits
<1>6. ASSUME s[p] < limit PROVE Fits(spent, next, limit)
  <2>1. ConsumersAreSome /\ 0 \in Nat /\ 0 <= Most
    BY ProposalsAreSome DEF ConsumersAreSome
  <2>2. s[p] + 0 <= limit /\ spent <= spent + 0
    BY <1>1, <1>3, <1>6
  <2>3. /\ next[p] = limit
        /\ \A x \in Consumer : x # p => s[x] <= next[x]
    BY <1>3, <1>4
  <2>4. QED
    BY <1>1, <1>2, <1>4, <1>6, <2>1, <2>2, <2>3, WhoUsesFits
<1>7. Fits(spent, next, limit)
  BY <1>1, <1>3, <1>5, <1>6
<1>8. QED
  BY <1>7 DEF spent, next, limit, s

LEMMA GiveUpHolds ==
  ASSUME Access!QuotaConstants, QuotaHolds, NEW p \in Consumer, Access!GiveUp(p)
  PROVE  QuotaHolds'
<1>1. desk' = [desk EXCEPT ![p] = Access!Idle] /\ UNCHANGED <<quotaClock, usage>>
  BY DEF Access!GiveUp
<1>2. DeskHolds(Access!Idle, quotaClock)
  BY IdleIsIdle
<1>3. \A m \in Access!Meter : SeenIn(Access!Idle, m, usage[m]) = MeterLimit[m]
  BY IdleIsIdle
<1>4. \A m \in Access!Meter : MeterLimit[m] # Nil =>
        Fits(UsedOf(m), [SeenOf(m) EXCEPT ![p] = SeenIn(Access!Idle, m, usage[m])], MeterLimit[m])
  BY <1>3, IdleFits
<1>5. QED
  BY <1>1, <1>2, <1>4, DeskStep

\* A record more.
LEMMA IncludedOfMore ==
  ASSUME Access!QuotaConstants, NEW history, IsFiniteSet(history),
         \A u \in history : u.quantity \in Proposal, NEW x, x.quantity \in Proposal,
         NEW window, NEW asOf
  PROVE  LET before == Access!Quantity(Access!Included(history, window, asOf))
             after == Access!Quantity(Access!Included(history \cup {x}, window, asOf)) IN
         /\ before \in Nat /\ after \in Nat
         /\ before <= after /\ after <= before + x.quantity
<1> DEFINE old == Access!Included(history, window, asOf)
           new == Access!Included(history \cup {x}, window, asOf)
<1>1. new = old \/ new = old \cup {x}
  BY DEF Access!Included
<1>2. Measured(old) /\ Access!Quantity(old) \in Nat
  BY IncludedCount
<1>3. x.quantity \in Nat
  BY ProposalsAreSome
<1> HIDE DEF old, new
<1>4. /\ Access!Quantity(old \cup {x}) \in Nat
      /\ Access!Quantity(old) <= Access!Quantity(old \cup {x})
      /\ Access!Quantity(old \cup {x}) <= Access!Quantity(old) + x.quantity
  BY <1>2, <1>3, QuantityOfMore
<1>5. CASE new = old
  BY <1>2, <1>3, <1>5 DEF old, new
<1>6. CASE new = old \cup {x}
  BY <1>2, <1>4, <1>6 DEF old, new
<1>7. QED
  BY <1>1, <1>5, <1>6

\* Of the meter that is used a consumer uses what it was allowed: what it had seen of it
\* and the proposal are within the limit.
LEMMA UsedFits ==
  ASSUME Access!QuotaConstants, QuotaHolds, NEW p \in Consumer,
         desk[p].meter \in Access!Meter, MeterLimit[desk[p].meter] # Nil,
         NEW after \in Nat, after <= UsedOf(desk[p].meter) + desk[p].quantity,
         NEW next, Seen(next), next[p] = MeterLimit[desk[p].meter],
         \A x \in Consumer : x # p => SeenOf(desk[p].meter)[x] <= next[x]
  PROVE  Fits(after, next, MeterLimit[desk[p].meter])
<1> DEFINE m == desk[p].meter
           q == desk[p].quantity
           s == SeenOf(m)
           limit == MeterLimit[m]
           spent == UsedOf(m)
<1>1. Seen(s) /\ limit \in Nat /\ spent \in Nat
  BY SeenIsSeen
<1>2. Fits(spent, s, limit)
  BY DEF QuotaHolds
<1>3. m # Nil
  BY DEF Access!QuotaConstants
<1>4. DeskHolds(desk[p], quotaClock)
  BY DEF QuotaHolds
<1>5. /\ q \in Proposal /\ m \in DOMAIN desk[p].ratings /\ desk[p].asOf # Nil
      /\ ~Access!QuotaBlocks(desk[p].ratings[m], q)
      /\ desk[p].ratings[m].used \in Nat /\ desk[p].ratings[m].limit = limit
  BY <1>3, <1>4 DEF DeskHolds
<1>6. s[p] = desk[p].ratings[m].used
  BY <1>5 DEF SeenOf, SeenIn
<1>7. q \in Nat /\ q <= Most /\ ConsumersAreSome
  BY <1>5, ProposalsAreSome
<1>8. ~(s[p] >= limit \/ s[p] + q > limit)
  BY <1>5, <1>6 DEF Access!QuotaBlocks
<1> HIDE DEF s, spent
<1>9. s[p] < limit /\ s[p] + q <= limit
  <2>1. s[p] \in Nat
    BY <1>1 DEF Seen
  <2>2. QED
    BY <2>1, <1>1, <1>7, <1>8
<1>10. /\ after <= spent + q /\ next[p] = limit
       /\ \A x \in Consumer : x # p => s[x] <= next[x]
  BY DEF s, spent
<1> HIDE DEF q, limit, m
<1>11. Fits(after, next, limit)
  BY <1>1, <1>2, <1>7, <1>9, <1>10, WhoUsesFits
<1>12. QED
  BY <1>11 DEF limit, m

LEMMA SeenInIs ==
  ASSUME NEW row, NEW m, NEW history
  PROVE  /\ row.asOf = Nil => SeenIn(row, m, history) = MeterLimit[m]
         /\ row.asOf # Nil /\ m \in DOMAIN row.ratings =>
              SeenIn(row, m, history) = row.ratings[m].used
         /\ row.asOf # Nil /\ m \notin DOMAIN row.ratings =>
              SeenIn(row, m, history)
                = Access!Quantity(Access!Included(history, MeterWindow[m], row.asOf))
BY DEF SeenIn

LEMMA ConsumeHolds ==
  ASSUME Access!QuotaConstants, QuotaHolds, NEW p \in Consumer, Access!Consume(p)
  PROVE  QuotaHolds'
<1>0. PICK k : k = desk[p].meter
  OBVIOUS
<1> DEFINE x == [id |-> Access!Recorded + 1, at |-> quotaClock, quantity |-> desk[p].quantity]
<1>1. /\ k # Nil /\ quotaClock' = quotaClock
      /\ usage' = [usage EXCEPT ![k] = @ \cup {x}]
      /\ desk' = [desk EXCEPT ![p] = Access!Idle]
  BY <1>0 DEF Access!Consume
<1>2. /\ UsageHolds /\ DeskHolds(desk[p], quotaClock)
      /\ desk = [c \in Consumer |-> desk[c]] /\ \A c \in Consumer : DeskHolds(desk[c], quotaClock)
  BY DEF QuotaHolds
<1>3. k \in Access!Meter /\ x.quantity \in Proposal /\ x.at = quotaClock
      /\ x.quantity = desk[p].quantity
  BY <1>0, <1>1, <1>2 DEF DeskHolds
<1> HIDE DEF x
<1>4. /\ usage' = [m \in Access!Meter |-> usage'[m]]
      /\ usage'[k] = usage[k] \cup {x}
      /\ \A m \in Access!Meter : m # k => usage'[m] = usage[m]
  BY <1>1, <1>2, <1>3 DEF UsageHolds
<1>5. UsageHolds'
  <2>1. quotaClock' \in Nat
    BY <1>1, <1>2 DEF UsageHolds
  <2>2. ASSUME NEW m \in Access!Meter
        PROVE  /\ IsFiniteSet(usage'[m])
               /\ \A u \in usage'[m] : u.at \in Nat /\ u.at <= quotaClock' /\ u.quantity \in Proposal
    <3>1. /\ IsFiniteSet(usage[m])
          /\ \A u \in usage[m] : u.at \in Nat /\ u.at <= quotaClock /\ u.quantity \in Proposal
      BY <1>2 DEF UsageHolds
    <3>2. CASE m = k
      <4>1. IsFiniteSet(usage'[m])
        BY <1>4, <3>1, <3>2, FS_AddElement
      <4>2. x.at \in Nat /\ x.at <= quotaClock
        BY <1>2, <1>3 DEF UsageHolds
      <4>3. QED
        BY <1>1, <1>3, <1>4, <3>1, <3>2, <4>1, <4>2
    <3>3. CASE m # k
      BY <1>1, <1>4, <3>1, <3>3
    <3>4. QED
      BY <3>2, <3>3
  <2>3. QED
    BY <1>4, <2>1, <2>2 DEF UsageHolds
<1>6. /\ desk' = [c \in Consumer |-> desk'[c]]
      /\ \A c \in Consumer : desk'[c] = IF c = p THEN Access!Idle ELSE desk[c]
  BY <1>1, <1>2
<1>7. \A c \in Consumer : DeskHolds(desk'[c], quotaClock')
  BY <1>1, <1>2, <1>6, IdleIsIdle
<1>8. ASSUME NEW m \in Access!Meter, MeterLimit[m] # Nil, m # k
      PROVE  Fits(UsedOf(m), SeenOf(m), MeterLimit[m])'
  <2>1. UsedOf(m)' = UsedOf(m)
    BY <1>1, <1>4, <1>8 DEF UsedOf
  <2>2. SeenOf(m)' = [c \in Consumer |-> SeenIn(desk'[c], m, usage'[m])]
    BY DEF SeenOf
  <2>3. SeenOf(m) = [c \in Consumer |-> SeenIn(desk[c], m, usage[m])]
    BY DEF SeenOf
  <2>4. \A c \in Consumer : SeenIn(desk'[c], m, usage'[m])
          = IF c = p THEN MeterLimit[m] ELSE SeenIn(desk[c], m, usage[m])
    BY <1>4, <1>6, <1>8, IdleIsIdle
  <2>5. SeenOf(m)' = [SeenOf(m) EXCEPT ![p] = MeterLimit[m]]
    BY <2>2, <2>3, <2>4
  <2>6. Fits(UsedOf(m), [SeenOf(m) EXCEPT ![p] = MeterLimit[m]], MeterLimit[m])
    BY <1>8, IdleFits
  <2>7. QED
    BY <2>1, <2>5, <2>6
<1>9. ASSUME MeterLimit[k] # Nil
      PROVE  Fits(UsedOf(k)', SeenOf(k)', MeterLimit[k])
  <2>1. MeterLimit[k] \in Nat
    BY <1>3, <1>9 DEF Access!QuotaConstants
  <2>2. IsFiniteSet(usage[k]) /\ \A u \in usage[k] : u.quantity \in Proposal
    BY <1>2, <1>3 DEF UsageHolds
  <2>3. UsedOf(k)' = Access!Quantity(Access!Included(usage'[k], MeterWindow[k], quotaClock'))
    BY DEF UsedOf
  <2>4. UsedOf(k)' \in Nat /\ UsedOf(k)' <= UsedOf(k) + desk[p].quantity
    BY <1>1, <1>3, <1>4, <2>2, <2>3, IncludedOfMore DEF UsedOf
  <2>5. /\ SeenOf(k)' = [c \in Consumer |-> SeenIn(desk'[c], k, usage'[k])]
        /\ SeenOf(k) = [c \in Consumer |-> SeenIn(desk[c], k, usage[k])]
    BY DEF SeenOf
  <2>6. SeenIn(desk'[p], k, usage'[k]) = MeterLimit[k]
    BY <1>6, IdleIsIdle
  <2>7. ASSUME NEW c \in Consumer, c # p
        PROVE  /\ SeenIn(desk[c], k, usage[k]) \in Nat /\ SeenIn(desk'[c], k, usage'[k]) \in Nat
               /\ SeenIn(desk[c], k, usage[k]) <= SeenIn(desk'[c], k, usage'[k])
    <3>1. desk'[c] = desk[c]
      BY <1>6, <2>7
    <3>2. SeenIn(desk[c], k, usage[k]) \in Nat
      BY <1>2, <1>3, <1>9, <2>2, SeenIsNat
    <3> DEFINE old == Access!Quantity(Access!Included(usage[k], MeterWindow[k], desk[c].asOf))
               new == Access!Quantity(Access!Included(usage'[k], MeterWindow[k], desk[c].asOf))
    <3>3. old \in Nat /\ new \in Nat /\ old <= new
      BY <1>3, <1>4, <2>2, IncludedOfMore
    <3>4. CASE desk[c].asOf # Nil /\ k \notin DOMAIN desk[c].ratings
      <4>1. SeenIn(desk[c], k, usage[k]) = old
        BY <3>4, SeenInIs
      <4>2. SeenIn(desk[c], k, usage'[k]) = new
        BY <3>4, SeenInIs
      <4>3. QED
        BY <3>1, <3>3, <4>1, <4>2
    <3>5. CASE desk[c].asOf # Nil /\ k \in DOMAIN desk[c].ratings
      <4>1. SeenIn(desk[c], k, usage[k]) = desk[c].ratings[k].used
        BY <3>5, SeenInIs
      <4>2. SeenIn(desk[c], k, usage'[k]) = desk[c].ratings[k].used
        BY <3>5, SeenInIs
      <4>3. QED
        BY <3>1, <3>2, <4>1, <4>2
    <3>6. CASE desk[c].asOf = Nil
      <4>1. SeenIn(desk[c], k, usage[k]) = MeterLimit[k]
        BY <3>6, SeenInIs
      <4>2. SeenIn(desk[c], k, usage'[k]) = MeterLimit[k]
        BY <3>6, SeenInIs
      <4>3. QED
        BY <3>1, <3>2, <4>1, <4>2
    <3>7. QED
      BY <3>4, <3>5, <3>6
  <2>8. Seen(SeenOf(k)') /\ SeenOf(k)'[p] = MeterLimit[k]
    BY <2>1, <2>5, <2>6, <2>7 DEF Seen
  <2>9. \A c \in Consumer : c # p => SeenOf(k)[c] <= SeenOf(k)'[c]
    BY <2>5, <2>7
  <2>10. QED
    BY <1>0, <1>3, <1>9, <2>4, <2>8, <2>9, UsedFits
<1>10. \A m \in Access!Meter :
         MeterLimit[m] # Nil => Fits(UsedOf(m)', SeenOf(m)', MeterLimit[m])
  BY <1>8, <1>9
<1>11. QED
  BY <1>5, <1>6, <1>7, <1>10 DEF QuotaHolds

LEMMA QuotientsGrow ==
  ASSUME NEW a \in Nat, NEW b \in Nat, a <= b, NEW n \in Nat, n > 0
  PROVE  a \div n <= b \div n /\ a \div n \in Nat /\ b \div n \in Nat
OBVIOUS

\* The window of a meter goes on, or a new one begins of which nothing is used.
LEMMA WindowGoesOn ==
  ASSUME Access!QuotaConstants, UsageHolds, NEW m \in Access!Meter
  PROVE  LET now == Access!Included(usage[m], MeterWindow[m], quotaClock)
             next == Access!Included(usage[m], MeterWindow[m], quotaClock + 1) IN
         next = now \/ next = {}
<1> DEFINE n == WindowLength[MeterWindow[m]]
<1>1. quotaClock \in Nat /\ \A u \in usage[m] : u.at \in Nat /\ u.at <= quotaClock
  BY DEF UsageHolds
<1>2. CASE MeterWindow[m] = "lifetime"
  BY <1>1, <1>2 DEF Access!Included, Access!InWindow
<1>3. CASE MeterWindow[m] # "lifetime"
  <2>1. n \in Nat /\ n > 0
    BY <1>3 DEF Access!QuotaConstants
  <2>2. \A asOf : Access!Included(usage[m], MeterWindow[m], asOf)
          = {u \in usage[m] : u.at <= asOf /\ u.at \div n = asOf \div n}
    BY <1>3 DEF Access!Included, Access!InWindow
  <2> HIDE DEF n
  <2>3. /\ quotaClock \div n <= (quotaClock + 1) \div n
        /\ quotaClock \div n \in Nat /\ (quotaClock + 1) \div n \in Nat
    <3>1. quotaClock + 1 \in Nat /\ quotaClock <= quotaClock + 1
      BY <1>1
    <3>2. QED
      BY <1>1, <2>1, <3>1, QuotientsGrow
  <2>4. \A u \in usage[m] :
          u.at \div n <= quotaClock \div n /\ u.at \div n \in Nat /\ u.at <= quotaClock + 1
    BY <1>1, <2>1, QuotientsGrow
  <2>5. CASE quotaClock \div n = (quotaClock + 1) \div n
    BY <1>1, <2>2, <2>4, <2>5
  <2>6. CASE quotaClock \div n # (quotaClock + 1) \div n
    <3>1. \A u \in usage[m] : u.at \div n # (quotaClock + 1) \div n
      BY <2>3, <2>4, <2>6
    <3>2. QED
      BY <2>2, <3>1
  <2>7. QED
    BY <2>5, <2>6
<1>4. QED
  BY <1>2, <1>3

LEMMA TickHolds ==
  ASSUME Access!QuotaConstants, QuotaHolds, Access!Tick
  PROVE  QuotaHolds'
<1>1. quotaClock' = quotaClock + 1 /\ UNCHANGED <<usage, desk>>
  BY DEF Access!Tick
<1>2. UsageHolds /\ quotaClock \in Nat
  BY DEF QuotaHolds, UsageHolds
<1>3. UsageHolds'
  BY <1>1, <1>2 DEF UsageHolds
<1>4. ASSUME NEW p \in Consumer
      PROVE  DeskHolds(desk'[p], quotaClock')
  <2>1. DeskHolds(desk[p], quotaClock) /\ desk'[p] = desk[p]
    BY <1>1 DEF QuotaHolds
  <2>2. desk[p].asOf # Nil => desk[p].asOf \in Nat /\ desk[p].asOf <= quotaClock + 1
    BY <1>2, <2>1 DEF DeskHolds
  <2>3. DeskHolds(desk[p], quotaClock + 1)
    BY <2>1, <2>2 DEF DeskHolds
  <2>4. QED
    BY <1>1, <2>1, <2>3
<1>5. ASSUME NEW m \in Access!Meter, MeterLimit[m] # Nil
      PROVE  Fits(UsedOf(m)', SeenOf(m)', MeterLimit[m])
  <2>1. SeenOf(m)' = SeenOf(m)
    BY <1>1 DEF SeenOf
  <2>2. Seen(SeenOf(m)) /\ MeterLimit[m] \in Nat
    BY <1>5, SeenIsSeen
  <2>3. UsedOf(m)' = Access!Quantity(Access!Included(usage[m], MeterWindow[m], quotaClock + 1))
    BY <1>1 DEF UsedOf
  <2>4. UsedOf(m)' = UsedOf(m) \/ UsedOf(m)' = 0
    BY <1>2, <2>3, WindowGoesOn, QuantityOfNothing DEF UsedOf
  <2>5. Fits(UsedOf(m), SeenOf(m), MeterLimit[m])
    BY <1>5 DEF QuotaHolds
  <2>6. Fits(0, SeenOf(m), MeterLimit[m])
    BY <2>2, NothingFits, ProposalsAreSome
  <2>7. QED
    BY <2>1, <2>4, <2>5, <2>6
<1>6. desk' = [p \in Consumer |-> desk'[p]]
  BY <1>1 DEF QuotaHolds
<1>7. QED
  BY <1>3, <1>4, <1>5, <1>6 DEF QuotaHolds

LEMMA QuotaStepHolds ==
  ASSUME Access!QuotaConstants, QuotaHolds, [Access!QuotaNext]_(Access!quotaVars)
  PROVE  QuotaHolds'
<1>1. CASE Access!Tick
  BY <1>1, TickHolds
<1>2. CASE UNCHANGED Access!quotaVars
  <2>1. UNCHANGED <<quotaClock, usage, desk>>
    BY <1>2 DEF Access!quotaVars
  <2>2. \A m : UsedOf(m)' = UsedOf(m) /\ SeenOf(m)' = SeenOf(m)
    BY <2>1 DEF UsedOf, SeenOf
  <2>3. UsageHolds'
    BY <2>1 DEF QuotaHolds, UsageHolds
  <2>4. QED
    BY <2>1, <2>2, <2>3 DEF QuotaHolds
<1>3. ASSUME NEW p \in Consumer,
             \/ Access!StartRating(p)
             \/ \E m \in Access!Meter : Access!RateMeter(p, m)
             \/ \E m \in Access!Meter, q \in Proposal : Access!Allow(p, m, q)
             \/ Access!GiveUp(p)
             \/ Access!Consume(p)
      PROVE  QuotaHolds'
  BY <1>3, StartRatingHolds, RateMeterHolds, AllowHolds, GiveUpHolds, ConsumeHolds
<1>4. QED
  BY <1>1, <1>2, <1>3 DEF Access!QuotaNext

LEMMA QuotaIsBounded ==
  ASSUME Access!QuotaConstants, QuotaHolds
  PROVE  Access!OverrunIsBounded
<1>1. Access!Cardinality(Consumer) = Cardinality(Consumer)
  BY DEF Access!Cardinality, Cardinality
<1>2. ASSUME NEW m \in Access!Meter, MeterLimit[m] # Nil
      PROVE  UsedOf(m) <= MeterLimit[m] + Others * Most
  <2>1. Seen(SeenOf(m)) /\ MeterLimit[m] \in Nat /\ UsedOf(m) \in Nat
    BY <1>2, SeenIsSeen
  <2>2. Fits(UsedOf(m), SeenOf(m), MeterLimit[m])
    BY <1>2 DEF QuotaHolds
  <2>3. QED
    BY <2>1, <2>2, FitsIsBounded, ProposalsAreSome
<1>3. QED
  BY <1>1, <1>2 DEF Access!OverrunIsBounded, UsedOf, Others, Most

\* A limit is exceeded by at most one proposal for every other consumer, in any window
\* (OverrunIsBounded): however many consumers rate, ask and use at the same time on one clock,
\* and however late usage is recorded after it was allowed.
THEOREM OverrunStaysBounded ==
  ASSUME Access!QuotaConstants
  PROVE  Access!Spec => []Access!OverrunIsBounded
<1>1. Access!Init => QuotaHolds
  BY InitHolds DEF Access!Init
<1>2. QuotaHolds /\ [Access!Next]_<<Access!quotaVars, entitlements>> => QuotaHolds'
  <2>1. [Access!Next]_<<Access!quotaVars, entitlements>> => [Access!QuotaNext]_(Access!quotaVars)
    BY DEF Access!Next
  <2>2. QED
    BY <2>1, QuotaStepHolds
<1>3. QuotaHolds => Access!OverrunIsBounded
  BY QuotaIsBounded
<1>4. QED
  BY <1>1, <1>2, <1>3, PTL DEF Access!Spec

-----------------------------------------------------------------------------
(* Entitlements: that one request has at most one of them.                     *)

LEMMA OneOfThem ==
  ASSUME NEW S, IsFiniteSet(S), ~(Cardinality(S) > 1), NEW x \in S, NEW y \in S
  PROVE  x = y
<1> SUFFICES ASSUME x # y PROVE FALSE
  OBVIOUS
<1>1. IsFiniteSet(S \ {x}) /\ Cardinality(S \ {x}) = Cardinality(S) - 1
  BY FS_RemoveElement
<1>2. Cardinality(S \ {x}) \in Nat /\ Cardinality(S) \in Nat
  BY <1>1, FS_CardinalityType
<1>3. Cardinality(S \ {x}) # 0
  BY <1>1, FS_EmptySet
<1>4. QED
  BY <1>1, <1>2, <1>3

LEMMA GrantedIs ==
  ASSUME NEW set, IsFiniteSet(set), NEW request, Access!Granted(set, request) # Nil
  PROVE  /\ Access!Granted(set, request) \in Access!Candidates(set, request)
         /\ \A g \in Access!Candidates(set, request) : g = Access!Granted(set, request)
<1> DEFINE found == Access!Candidates(set, request)
<1>1. Access!Evaluate(set, request) = "MATCHED"
  BY DEF Access!Granted
<1>2. Access!Granted(set, request) = CHOOSE g \in found : TRUE
  BY <1>1 DEF Access!Granted
<1>3. ~(Access!Cardinality(found) > 1) /\ found # {}
  BY <1>1 DEF Access!Evaluate
<1>4. IsFiniteSet(found)
  BY FS_Subset DEF Access!Candidates
<1> HIDE DEF found
<1>5. Access!Cardinality(found) = Cardinality(found)
  BY DEF Access!Cardinality, Cardinality
<1>6. Access!Granted(set, request) \in found
  BY <1>2, <1>3
<1>7. \A g \in found : g = Access!Granted(set, request)
  BY <1>3, <1>4, <1>5, <1>6, OneOfThem
<1>8. QED
  BY <1>6, <1>7 DEF found

LEMMA EntitlementStepIsFinite ==
  ASSUME IsFiniteSet(entitlements), Access!Next
  PROVE  IsFiniteSet(entitlements')
<1>1. ASSUME NEW g \in Access!Entitlement, Access!Grant(g)
      PROVE  IsFiniteSet(entitlements')
  BY <1>1, FS_AddElement DEF Access!Grant
<1>2. ASSUME NEW g \in Access!Entitlement, Access!Revoke(g)
      PROVE  IsFiniteSet(entitlements')
  BY <1>2, FS_RemoveElement DEF Access!Revoke
<1>3. ASSUME NEW g \in Access!Entitlement, Access!Switch(g)
      PROVE  IsFiniteSet(entitlements')
  BY <1>3, FS_AddElement, FS_RemoveElement DEF Access!Switch
<1>4. QED
  BY <1>1, <1>2, <1>3 DEF Access!Next, Access!EntitlementNext

LEMMA NoneIsDisplaced ==
  ASSUME IsFiniteSet(entitlements), IsFiniteSet(entitlements')
  PROVE  Access!Undisplaced
<1> SUFFICES ASSUME NEW request \in Access!Request,
                    Access!Granted(entitlements, request) # Nil,
                    Access!Granted(entitlements, request) \in entitlements',
                    Access!Granted(entitlements', request) # Nil
             PROVE  Access!Granted(entitlements', request) = Access!Granted(entitlements, request)
  BY DEF Access!Undisplaced
<1>1. Access!Granted(entitlements, request) \in Access!Candidates(entitlements, request)
  BY GrantedIs
<1>2. Access!Granted(entitlements, request) \in Access!Candidates(entitlements', request)
  BY <1>1 DEF Access!Candidates
<1>3. QED
  BY <1>2, GrantedIs

\* While the entitlement of a request stays as it is no other takes its place, whatever is
\* granted, revoked or switched beside it (NeverDisplaced).
THEOREM NoGrantIsDisplaced == Access!Spec => Access!NeverDisplaced
<1>1. Access!Init => IsFiniteSet(entitlements)
  BY FS_EmptySet DEF Access!Init, Access!EntitlementInit
<1>2. IsFiniteSet(entitlements) /\ [Access!Next]_<<Access!quotaVars, entitlements>>
        => IsFiniteSet(entitlements)'
  BY EntitlementStepIsFinite
<1>3. IsFiniteSet(entitlements) /\ IsFiniteSet(entitlements)'
        => [Access!Undisplaced]_entitlements
  BY NoneIsDisplaced
<1>4. QED
  BY <1>1, <1>2, <1>3, PTL DEF Access!Spec, Access!NeverDisplaced

-----------------------------------------------------------------------------
(* What is rated, priced and projected.                                        *)

LEMMA CountsAreCounts ==
  ASSUME NEW S
  PROVE  Access!Cardinality(S) = Cardinality(S) /\ (Access!IsFiniteSet(S) <=> IsFiniteSet(S))
BY DEF Access!Cardinality, Cardinality, Access!IsFiniteSet, IsFiniteSet

\* What the lines of a quote add up to.
LEMMA TotalIsNat ==
  ASSUME NEW lines, IsFiniteSet(DOMAIN lines), \A m \in DOMAIN lines : lines[m].amount \in Nat,
         NEW fixed \in Nat
  PROVE  Access!Total(fixed, lines) \in Nat
<1> DEFINE S == DOMAIN lines
           w == [m \in S |-> lines[m].amount]
           Raw(g) == g = [s \in SUBSET S |-> IF s = {} THEN 0
                        ELSE LET m == CHOOSE m \in s : TRUE IN lines[m].amount + g[s \ {m}]]
           sum == CHOOSE g : Raw(g)
<1>1. Access!Total(fixed, lines) = fixed + sum[S]
  BY DEF Access!Total, Access!MapThenSumSet, Access!MapThenFoldSet
<1>2. Countable(w, S) /\ \A m \in S : w[m] = lines[m].amount
  BY DEF Countable
<1> HIDE DEF w
<1>3. \A g : Raw(g) <=> Adds(w, g, SUBSET S)
  <2> TAKE g
  <2>1. \A s \in SUBSET S : s # {} => (CHOOSE m \in s : TRUE) \in S
    OBVIOUS
  <2>2. \A s \in SUBSET S :
          (IF s = {} THEN 0
           ELSE LET m == CHOOSE m \in s : TRUE IN lines[m].amount + g[s \ {m}])
        = (IF s = {} THEN 0 ELSE LET m == CHOOSE m \in s : TRUE IN w[m] + g[s \ {m}])
    BY <1>2, <2>1
  <2>3. QED
    BY <2>2 DEF Adds
<1>4. Adds(w, SumOf(w, S), SUBSET S)
  BY <1>2, SumIsThere DEF Countable
<1>5. Raw(sum)
  <2> HIDE DEF Raw
  <2>1. Raw(SumOf(w, S))
    BY <1>3, <1>4
  <2>2. QED
    BY <2>1
<1>6. Adds(w, sum, SUBSET S)
  <2> HIDE DEF Raw, sum
  <2>1. QED
    BY <1>3, <1>5
<1> HIDE DEF sum, S
<1>7. sum[S] = SumOf(w, S)[S] /\ SumOf(w, S)[S] \in Nat
  BY <1>2, <1>6, AddsIsTheSum, SumIsNat
<1>8. QED
  BY <1>1, <1>7

\* The records of all meters are counted: the id of the next one is not 0.
LEMMA RecordedIsNat ==
  ASSUME Access!QuotaConstants, UsageHolds
  PROVE  Access!Recorded \in Nat
<1> DEFINE S == Access!Meter
           w == [m \in S |-> Cardinality(usage[m])]
           Raw(g) == g = [s \in SUBSET S |-> IF s = {} THEN 0
                        ELSE LET m == CHOOSE m \in s : TRUE
                             IN Access!Cardinality(usage[m]) + g[s \ {m}]]
           sum == CHOOSE g : Raw(g)
<1>1. Access!Recorded = sum[S]
  BY DEF Access!Recorded, Access!MapThenSumSet, Access!MapThenFoldSet
<1>2. Countable(w, S) /\ \A m \in S : w[m] = Access!Cardinality(usage[m])
  <2>1. IsFiniteSet(S)
    BY CountsAreCounts DEF Access!QuotaConstants
  <2>2. \A m \in S : Cardinality(usage[m]) \in Nat
    BY FS_CardinalityType DEF UsageHolds
  <2>3. QED
    BY <2>1, <2>2, CountsAreCounts DEF Countable
<1> HIDE DEF w, S
<1>3. \A g : Raw(g) <=> Adds(w, g, SUBSET S)
  <2> TAKE g
  <2>1. \A s \in SUBSET S : s # {} => (CHOOSE m \in s : TRUE) \in S
    OBVIOUS
  <2>2. \A s \in SUBSET S :
          (IF s = {} THEN 0
           ELSE LET m == CHOOSE m \in s : TRUE
                IN Access!Cardinality(usage[m]) + g[s \ {m}])
        = (IF s = {} THEN 0 ELSE LET m == CHOOSE m \in s : TRUE IN w[m] + g[s \ {m}])
    BY <1>2, <2>1
  <2>3. QED
    BY <2>2 DEF Adds
<1>4. Adds(w, SumOf(w, S), SUBSET S)
  BY <1>2, SumIsThere DEF Countable
<1>5. Raw(sum)
  <2> HIDE DEF Raw
  <2>1. Raw(SumOf(w, S))
    BY <1>3, <1>4
  <2>2. QED
    BY <2>1
<1>6. Adds(w, sum, SUBSET S)
  <2> HIDE DEF Raw, sum
  <2>1. QED
    BY <1>3, <1>5
<1> HIDE DEF sum
<1>7. QED
  BY <1>1, <1>2, <1>6, AddsIsTheSum, SumIsNat


\* What is left of a limit and what exceeds it are true.
LEMMA StandingHolds ==
  ASSUME Access!QuotaConstants, NEW spent \in Nat, NEW count, NEW limit, limit \in Nat \cup {Nil},
         NEW window, NEW asOf
  PROVE  LET r == Access!Rating(spent, count, limit, window, asOf) IN
         Access!StandingIsTrue(r) /\ r.standing.excess \in Nat
<1>1. Nil \notin Nat
  BY DEF Access!QuotaConstants
<1> DEFINE r == Access!Rating(spent, count, limit, window, asOf)
           s == Access!Status(spent, limit)
<1>2. r.used = spent /\ r.limit = limit /\ r.standing = s
  BY DEF Access!Rating
<1> HIDE DEF r
<1>3. CASE limit = Nil
  BY <1>2, <1>3 DEF Access!StandingIsTrue, Access!Status, r
<1>4. CASE limit \in Nat
  <2>1. limit # Nil
    BY <1>1, <1>4
  <2>2. /\ spent < limit => s = [status |-> "within-limit", remaining |-> limit - spent, excess |-> 0]
        /\ spent = limit => s = [status |-> "limit-reached", remaining |-> 0, excess |-> spent - limit]
        /\ spent > limit => s = [status |-> "over-limit", remaining |-> 0, excess |-> spent - limit]
    BY <1>4, <2>1 DEF Access!Status
  <2> HIDE DEF s
  <2>3. /\ s.excess \in Nat /\ s.remaining \in Nat
        /\ s.remaining + spent = limit + s.excess /\ 0 \in {s.remaining, s.excess}
    BY <1>4, <2>2
  <2>4. s.status = IF s.excess > 0 THEN "over-limit"
                   ELSE IF s.remaining = 0 THEN "limit-reached" ELSE "within-limit"
    <3>1. CASE spent < limit
      <4>1. s.status = "within-limit" /\ s.remaining = limit - spent /\ s.excess = 0
        BY <2>2, <3>1
      <4>2. ~(s.excess > 0) /\ s.remaining # 0
        BY <1>4, <3>1, <4>1
      <4>3. QED
        BY <4>1, <4>2
    <3>2. CASE spent = limit
      <4>1. s.status = "limit-reached" /\ s.remaining = 0 /\ s.excess = spent - limit
        BY <2>2, <3>2
      <4>2. ~(s.excess > 0)
        BY <1>4, <3>2, <4>1
      <4>3. QED
        BY <4>1, <4>2
    <3>3. CASE spent > limit
      <4>1. s.status = "over-limit" /\ s.excess = spent - limit
        BY <2>2, <3>3
      <4>2. s.excess > 0
        BY <1>4, <3>3, <4>1
      <4>3. QED
        BY <4>1, <4>2
    <3>4. QED
      BY <1>4, <3>1, <3>2, <3>3
  <2>5. Access!StandingIsTrue(r)
    BY <1>2, <2>1, <2>3, <2>4 DEF Access!StandingIsTrue
  <2>6. QED
    BY <1>2, <2>3, <2>5 DEF r
<1>5. QED
  BY <1>3, <1>4

\* A history that is rated has a rating that its reader accepts.
LEMMA RatedIsCanonical ==
  ASSUME Access!QuotaConstants, UsageHolds, NEW m \in Access!Meter, NEW asOf, asOf \in Nat,
         Access!Cardinality(usage[m]) <= BatchSize, Access!Rated(m, asOf) # Nil
  PROVE  LET r == Access!Rated(m, asOf)
             counted == Access!Included({u \in usage[m] : u.at <= asOf}, MeterWindow[m], asOf) IN
         /\ Access!RatingOk(r, m) /\ r.asOf = asOf
         /\ r.used \in Nat /\ r.standing.excess \in Nat
         /\ r.used = Access!Quantity(counted) /\ r.count = Access!Cardinality(counted)
<1> DEFINE known == {u \in usage[m] : u.at <= asOf}
           counted == Access!Included(known, MeterWindow[m], asOf)
           r == Access!Rated(m, asOf)
<1>1. /\ IsFiniteSet(usage[m]) /\ \A u \in usage[m] : u.quantity \in Proposal
      /\ Proposal \subseteq Nat \ {0} /\ BatchSize \in Nat /\ MaxSafe \in Nat
      /\ MeterLimit[m] \in Nat \cup {Nil}
  BY DEF UsageHolds, Access!QuotaConstants
<1>2. counted \subseteq usage[m]
  BY DEF Access!Included
<1>3. IsFiniteSet(counted) /\ Cardinality(counted) <= Cardinality(usage[m])
      /\ Cardinality(counted) \in Nat /\ Cardinality(usage[m]) \in Nat
  BY <1>1, <1>2, FS_Subset, FS_CardinalityType
<1>4. Measured(counted) /\ \A u \in counted : u.quantity > 0
  <2> HIDE DEF counted
  <2>1. \A u \in counted : u.quantity \in Nat \ {0}
    BY <1>1, <1>2
  <2>2. \A u \in counted : u.quantity \in Nat /\ u.quantity > 0
    BY <2>1
  <2>3. QED
    BY <1>3, <2>2 DEF Measured
<1>5. r = Access!Rate(known, MeterLimit[m], MeterWindow[m], asOf)
  BY DEF Access!Rated
<1> HIDE DEF known
<1>6. /\ ~(Access!Quantity(counted) > MaxSafe)
      /\ r = Access!Rating(Access!Quantity(counted), Access!Cardinality(counted), MeterLimit[m],
                           MeterWindow[m], asOf)
  BY <1>5 DEF Access!Rate
<1> HIDE DEF r, counted
<1> DEFINE spent == Access!Quantity(counted)
           count == Cardinality(counted)
<1>7. spent \in Nat /\ count <= spent /\ (count = 0 <=> spent = 0)
  BY <1>4, MeasuredSum, QuantityOfPositives
<1>8. Access!Cardinality(counted) = count /\ Access!Cardinality(usage[m]) = Cardinality(usage[m])
  BY CountsAreCounts
<1>9. Access!StandingIsTrue(r) /\ r.standing.excess \in Nat
  BY <1>1, <1>6, <1>7, StandingHolds
<1>10. /\ r.used = spent /\ r.count = count /\ r.limit = MeterLimit[m]
       /\ r.window = MeterWindow[m] /\ r.asOf = asOf
  BY <1>6, <1>8 DEF Access!Rating
<1>11. count <= BatchSize /\ spent <= MaxSafe
  <2> HIDE DEF spent, count
  <2>1. ~(spent > MaxSafe)
    BY <1>6 DEF spent
  <2>2. Cardinality(usage[m]) <= BatchSize /\ count <= Cardinality(usage[m])
    BY <1>3, <1>8 DEF count
  <2>3. QED
    BY <1>1, <1>3, <1>7, <2>1, <2>2 DEF count
<1>12. Access!RatingOk(r, m)
  BY <1>7, <1>9, <1>10, <1>11 DEF Access!RatingOk, Access!CanonicalRating
<1>13. QED
  BY <1>7, <1>8, <1>9, <1>10, <1>12 DEF r, counted, known

\* What a consumer has on its desk is what its ratings say, and what it was allowed may be added.
EvidenceOn(row) ==
  /\ \A m \in DOMAIN row.ratings :
       /\ m \in Access!Meter /\ row.ratings[m] # Nil
       /\ Access!RatingOk(row.ratings[m], m) /\ row.ratings[m].asOf = row.asOf
       /\ row.ratings[m].used \in Nat /\ row.ratings[m].standing.excess \in Nat
  /\ row.meter # Nil =>
       Access!CanonicalRating(Access!Projected(row.ratings[row.meter], row.quantity))

EvidenceHolds ==
  /\ \A m \in Access!Meter : \A u \in usage[m] : u.id # 0
  /\ \A p \in Consumer : EvidenceOn(desk[p])

LEMMA EvidenceOfIdle == EvidenceOn(Access!Idle)
<1>1. DOMAIN <<>> = {}
  OBVIOUS
<1>2. QED
  BY <1>1 DEF EvidenceOn, Access!Idle

\* One consumer's desk changes.
LEMMA EvidenceStep ==
  ASSUME EvidenceHolds, QuotaHolds, NEW p \in Consumer, NEW row, desk' = [desk EXCEPT ![p] = row],
         EvidenceOn(row), \A m \in Access!Meter : \A u \in usage'[m] : u.id # 0
  PROVE  EvidenceHolds'
<1>1. desk = [x \in Consumer |-> desk[x]]
  BY DEF QuotaHolds
<1>2. \A x \in Consumer : desk'[x] = IF x = p THEN row ELSE desk[x]
  BY <1>1
<1>3. \A x \in Consumer : EvidenceOn(desk'[x])
  BY <1>2 DEF EvidenceHolds
<1>4. QED
  BY <1>3 DEF EvidenceHolds

LEMMA EvidenceOfStart ==
  ASSUME QuotaHolds, EvidenceHolds, NEW p \in Consumer, Access!StartRating(p)
  PROVE  EvidenceHolds'
<1> DEFINE row == [asOf |-> quotaClock, ratings |-> <<>>, meter |-> Nil, quantity |-> Nil]
<1>1. /\ desk[p] = Access!Idle /\ desk' = [desk EXCEPT ![p].asOf = quotaClock]
      /\ UNCHANGED usage
  BY DEF Access!StartRating
<1>2. [desk[p] EXCEPT !.asOf = quotaClock] = row
  BY <1>1 DEF Access!Idle
<1>3. desk' = [desk EXCEPT ![p] = row]
  BY <1>1, <1>2
<1>4. EvidenceOn(row)
  <2>1. DOMAIN <<>> = {}
    OBVIOUS
  <2>2. QED
    BY <2>1 DEF EvidenceOn
<1>5. QED
  BY <1>1, <1>3, <1>4, EvidenceStep DEF EvidenceHolds

LEMMA EvidenceOfRating ==
  ASSUME Access!QuotaConstants, QuotaHolds, EvidenceHolds, NEW p \in Consumer,
         NEW m \in Access!Meter, Access!RateMeter(p, m)
  PROVE  EvidenceHolds'
<1> DEFINE rating == Access!Rated(m, desk[p].asOf)
           all == [k \in DOMAIN desk[p].ratings \cup {m} |->
                     IF k = m THEN rating ELSE desk[p].ratings[k]]
           row == [asOf |-> desk[p].asOf, ratings |-> all, meter |-> desk[p].meter,
                   quantity |-> desk[p].quantity]
<1>1. /\ desk[p].asOf # Nil /\ m \notin DOMAIN desk[p].ratings /\ rating # Nil
      /\ Access!Cardinality(usage[m]) <= BatchSize
      /\ UNCHANGED usage
      /\ desk' = [desk EXCEPT ![p].ratings = all]
  BY DEF Access!RateMeter
<1>2. DeskHolds(desk[p], quotaClock) /\ UsageHolds /\ EvidenceOn(desk[p])
  BY DEF QuotaHolds, EvidenceHolds
<1>3. desk[p].asOf \in Nat
  BY <1>1, <1>2 DEF DeskHolds
<1>4. /\ Access!RatingOk(rating, m) /\ rating.asOf = desk[p].asOf
      /\ rating.used \in Nat /\ rating.standing.excess \in Nat
  BY <1>1, <1>2, <1>3, RatedIsCanonical
<1>5. [desk[p] EXCEPT !.ratings = all] = row
  BY <1>2 DEF DeskHolds
<1>6. desk' = [desk EXCEPT ![p] = row]
  BY <1>1, <1>5
<1> HIDE DEF rating
<1>7. /\ DOMAIN all = DOMAIN desk[p].ratings \cup {m} /\ all[m] = rating
      /\ \A k \in DOMAIN desk[p].ratings : all[k] = desk[p].ratings[k]
  BY <1>1
<1> HIDE DEF all
<1>8. row.asOf = desk[p].asOf /\ row.ratings = all /\ row.meter = desk[p].meter
      /\ row.quantity = desk[p].quantity
  OBVIOUS
<1> HIDE DEF row
<1>9. ASSUME NEW k \in DOMAIN row.ratings
      PROVE  /\ k \in Access!Meter /\ row.ratings[k] # Nil
             /\ Access!RatingOk(row.ratings[k], k) /\ row.ratings[k].asOf = row.asOf
             /\ row.ratings[k].used \in Nat /\ row.ratings[k].standing.excess \in Nat
  <2>1. CASE k = m
    BY <1>1, <1>4, <1>7, <1>8, <2>1
  <2>2. CASE k # m
    BY <1>2, <1>7, <1>8, <1>9, <2>2 DEF EvidenceOn
  <2>3. QED
    BY <2>1, <2>2
<1>10. row.meter # Nil =>
         Access!CanonicalRating(Access!Projected(row.ratings[row.meter], row.quantity))
  <2> SUFFICES ASSUME row.meter # Nil
               PROVE  Access!CanonicalRating(Access!Projected(row.ratings[row.meter], row.quantity))
    OBVIOUS
  <2>1. desk[p].meter \in DOMAIN desk[p].ratings
    BY <1>2, <1>8 DEF DeskHolds
  <2>2. row.ratings[row.meter] = desk[p].ratings[desk[p].meter]
    BY <1>7, <1>8, <2>1
  <2>3. QED
    BY <1>2, <1>8, <2>2 DEF EvidenceOn
<1>11. EvidenceOn(row)
  BY <1>9, <1>10 DEF EvidenceOn
<1>12. QED
  BY <1>1, <1>6, <1>11, EvidenceStep DEF EvidenceHolds

LEMMA AllowedIsCanonical ==
  ASSUME Access!QuotaConstants, NEW ratings, NEW m, NEW q,
         Access!Preflight(Policy, ratings, m, q) = "allowed"
  PROVE  Access!CanonicalRating(Access!Projected(ratings[m], q))
BY DEF Access!Preflight, Access!QuotaConstants

LEMMA EvidenceOfAllow ==
  ASSUME Access!QuotaConstants, QuotaHolds, EvidenceHolds, NEW p \in Consumer,
         NEW m \in Access!Meter, NEW q \in Proposal, Access!Allow(p, m, q)
  PROVE  EvidenceHolds'
<1> DEFINE row == [asOf |-> desk[p].asOf, ratings |-> desk[p].ratings, meter |-> m, quantity |-> q]
<1>1. /\ UNCHANGED usage /\ Access!Preflight(Policy, desk[p].ratings, m, q) = "allowed"
      /\ desk' = [desk EXCEPT ![p].meter = m, ![p].quantity = q]
  BY DEF Access!Allow
<1>2. desk' = [desk EXCEPT ![p] = row]
  BY <1>1, AllowedDesk
<1>3. Access!CanonicalRating(Access!Projected(desk[p].ratings[m], q))
  BY <1>1, AllowedIsCanonical
<1>4. EvidenceOn(desk[p])
  BY DEF EvidenceHolds
<1>5. EvidenceOn(row)
  BY <1>3, <1>4 DEF EvidenceOn
<1>6. QED
  BY <1>1, <1>2, <1>5, EvidenceStep DEF EvidenceHolds

LEMMA EvidenceOfConsume ==
  ASSUME Access!QuotaConstants, QuotaHolds, EvidenceHolds, NEW p \in Consumer, Access!Consume(p)
  PROVE  EvidenceHolds'
<1> DEFINE x == [id |-> Access!Recorded + 1, at |-> quotaClock, quantity |-> desk[p].quantity]
<1>1. /\ usage' = [usage EXCEPT ![desk[p].meter] = @ \cup {x}] /\ x.id = Access!Recorded + 1
      /\ desk' = [desk EXCEPT ![p] = Access!Idle]
  BY DEF Access!Consume
<1> HIDE DEF x
<1>2. usage = [m \in Access!Meter |-> usage[m]] /\ Access!Recorded \in Nat
  BY RecordedIsNat DEF QuotaHolds, UsageHolds
<1>3. x.id # 0
  BY <1>1, <1>2
<1>4. ASSUME NEW m \in Access!Meter, NEW u \in usage'[m]
      PROVE  u.id # 0
  <2>1. u \in usage[m] \/ u = x
    BY <1>1, <1>2
  <2>2. QED
    BY <1>3, <2>1 DEF EvidenceHolds
<1>5. QED
  BY <1>1, <1>4, EvidenceOfIdle, EvidenceStep

LEMMA EvidenceStepHolds ==
  ASSUME Access!QuotaConstants, QuotaHolds, EvidenceHolds,
         [Access!QuotaNext]_(Access!quotaVars)
  PROVE  EvidenceHolds'
<1>1. CASE Access!Tick \/ UNCHANGED Access!quotaVars
  BY <1>1 DEF Access!Tick, Access!quotaVars, EvidenceHolds
<1>2. ASSUME NEW p \in Consumer, Access!GiveUp(p)
      PROVE  EvidenceHolds'
  BY <1>2, EvidenceOfIdle, EvidenceStep DEF Access!GiveUp, EvidenceHolds
<1>3. ASSUME NEW p \in Consumer,
             \/ Access!StartRating(p)
             \/ \E m \in Access!Meter : Access!RateMeter(p, m)
             \/ \E m \in Access!Meter, q \in Proposal : Access!Allow(p, m, q)
             \/ Access!Consume(p)
      PROVE  EvidenceHolds'
  BY <1>3, EvidenceOfStart, EvidenceOfRating, EvidenceOfAllow, EvidenceOfConsume
<1>4. QED
  BY <1>1, <1>2, <1>3 DEF Access!QuotaNext

LEMMA InitialEvidence ==
  ASSUME Access!QuotaInit
  PROVE  EvidenceHolds
BY EvidenceOfIdle DEF Access!QuotaInit, EvidenceHolds

LEMMA EvidenceIsWhatItSays ==
  ASSUME Access!QuotaConstants, EvidenceHolds
  PROVE  Access!EvidenceIsCanonical
<1>1. ASSUME NEW p \in Consumer, NEW m \in DOMAIN desk[p].ratings
      PROVE  Access!RatingOk(desk[p].ratings[m], m)
  BY <1>1 DEF EvidenceHolds, EvidenceOn
<1>2. ASSUME NEW p \in Consumer, Access!Missing(Policy.plan, desk[p].ratings) = {},
             Access!Price(Policy.plan, desk[p].ratings) # Nil
      PROVE  Access!CanonicalQuote(Access!Price(Policy.plan, desk[p].ratings))
  <2> DEFINE ratings == desk[p].ratings
             plan == Policy.plan
             lines == [m \in DOMAIN plan.rates |-> Access!Line(plan.rates[m], ratings[m])]
             q == Access!Price(plan, ratings)
  <2>1. \A m \in DOMAIN plan.rates :
          /\ m \in DOMAIN ratings /\ plan.rates[m].amount \in Nat
          /\ ratings[m].used \in Nat /\ ratings[m].standing.excess \in Nat
    BY <1>2 DEF Access!Missing, EvidenceHolds, EvidenceOn, Access!QuotaConstants
  <2>2. /\ q.fixed = plan.fixed /\ q.lines = lines /\ q.total = Access!Total(plan.fixed, lines)
        /\ ~(Access!Total(plan.fixed, lines) > MaxSafe)
        /\ \A m \in DOMAIN plan.rates :
             ~Access!Overflows(Access!Charged(plan.rates[m], ratings[m]), plan.rates[m].amount)
    BY <1>2 DEF Access!Price
  <2>3. IsFiniteSet(DOMAIN plan.rates) /\ plan.fixed \in Nat /\ MaxSafe \in Nat
    BY CountsAreCounts DEF Access!QuotaConstants
  <2> HIDE DEF q, plan, ratings
  <2>4. ASSUME NEW m \in DOMAIN plan.rates
        PROVE  /\ lines[m].quantity = Access!Charged(plan.rates[m], ratings[m])
               /\ lines[m].perUnit = plan.rates[m].amount
               /\ lines[m].amount = lines[m].quantity * lines[m].perUnit
               /\ lines[m].amount \in Nat
    <3>1. /\ lines[m].quantity = Access!Charged(plan.rates[m], ratings[m])
          /\ lines[m].perUnit = plan.rates[m].amount
          /\ lines[m].amount = Access!Charged(plan.rates[m], ratings[m]) * plan.rates[m].amount
      BY DEF Access!Line
    <3>2. Access!Charged(plan.rates[m], ratings[m]) \in Nat /\ plan.rates[m].amount \in Nat
      BY <2>1 DEF Access!Charged
    <3> HIDE DEF lines
    <3>3. Access!Charged(plan.rates[m], ratings[m]) * plan.rates[m].amount \in Nat
      BY <3>2
    <3>4. QED
      BY <3>1, <3>3
  <2>5. DOMAIN lines = DOMAIN plan.rates
    OBVIOUS
  <2> HIDE DEF lines
  <2>6. Access!Total(plan.fixed, lines) \in Nat
    BY <2>3, <2>4, <2>5, TotalIsNat
  <2>7. q.total <= MaxSafe
    BY <2>2, <2>3, <2>6
  <2>8. Access!CanonicalQuote(q)
    BY <2>2, <2>4, <2>5, <2>7 DEF Access!CanonicalQuote
  <2>9. QED
    BY <2>8 DEF q, plan, ratings
<1>3. QED
  BY <1>1, <1>2 DEF Access!EvidenceIsCanonical

\* What is proposed is rated, once it is recorded at the instant of the rating, as the
\* preflight has projected it.
LEMMA ProjectionIsRated ==
  ASSUME Access!QuotaConstants, QuotaHolds, EvidenceHolds
  PROVE  Access!ProjectionIsTheRating
<1> SUFFICES ASSUME NEW p \in Consumer, desk[p].meter # Nil,
                    Access!Rated(desk[p].meter, desk[p].ratings[desk[p].meter].asOf)
                      = desk[p].ratings[desk[p].meter]
             PROVE  LET m == desk[p].meter
                        r == desk[p].ratings[m]
                        entry == [id |-> 0, at |-> r.asOf, quantity |-> desk[p].quantity] IN
                    Access!Rate({u \in usage[m] : u.at <= r.asOf} \cup {entry}, MeterLimit[m],
                                MeterWindow[m], r.asOf)
                      = Access!Projected(r, desk[p].quantity)
  BY DEF Access!ProjectionIsTheRating
<1> DEFINE m == desk[p].meter
           r == desk[p].ratings[m]
           q == desk[p].quantity
           entry == [id |-> 0, at |-> r.asOf, quantity |-> q]
           known == {u \in usage[m] : u.at <= r.asOf}
           counted == Access!Included(known, MeterWindow[m], r.asOf)
           more == Access!Included(known \cup {entry}, MeterWindow[m], r.asOf)
<1>1. /\ DeskHolds(desk[p], quotaClock) /\ EvidenceOn(desk[p]) /\ UsageHolds
  BY DEF QuotaHolds, EvidenceHolds
<1>2. /\ m \in Access!Meter /\ q \in Proposal /\ m \in DOMAIN desk[p].ratings /\ r # Nil
      /\ r.asOf = desk[p].asOf /\ r.limit = MeterLimit[m] /\ r.window = MeterWindow[m]
      /\ Access!CanonicalRating(Access!Projected(r, q))
  BY <1>1 DEF DeskHolds, EvidenceOn, Access!RatingOk
<1>3. r.asOf \in Nat
  <2>1. desk[p].asOf # Nil
    BY <1>1 DEF DeskHolds
  <2>2. QED
    BY <1>1, <1>2, <2>1 DEF DeskHolds
<1>4. /\ IsFiniteSet(usage[m]) /\ \A u \in usage[m] : u.quantity \in Proposal /\ u.id # 0
      /\ Proposal \subseteq Nat \ {0} /\ MaxSafe \in Nat
  BY <1>1, <1>2 DEF UsageHolds, EvidenceHolds, Access!QuotaConstants
<1>5. r = Access!Rate(known, MeterLimit[m], MeterWindow[m], r.asOf) /\ r # Nil
  BY <1>2 DEF Access!Rated
<1>6. counted \subseteq usage[m] /\ entry \notin counted /\ more = counted \cup {entry}
  <2>1. counted \subseteq usage[m]
    BY DEF Access!Included
  <2>2. entry \notin counted
    BY <1>4, <2>1
  <2>3. entry.at <= r.asOf /\ Access!InWindow(MeterWindow[m], r.asOf, entry.at)
    BY <1>3 DEF Access!InWindow
  <2> HIDE DEF entry, known
  <2>4. more = counted \cup {entry}
    BY <2>3 DEF Access!Included
  <2>5. QED
    BY <2>1, <2>2, <2>4 DEF known
<1> DEFINE spent == Access!Quantity(counted)
           count == Access!Cardinality(counted)
<1>7. r.used = spent /\ r.count = count
  <2> HIDE DEF r, known
  <2>1. Access!Rate(known, MeterLimit[m], MeterWindow[m], r.asOf)
          = Access!Rating(spent, count, MeterLimit[m], MeterWindow[m], r.asOf)
    BY <1>5 DEF Access!Rate
  <2>2. r = Access!Rating(spent, count, MeterLimit[m], MeterWindow[m], r.asOf)
    BY <1>5, <2>1
  <2> HIDE DEF counted, spent, count
  <2>3. Access!Rating(spent, count, MeterLimit[m], MeterWindow[m], r.asOf).used = spent
        /\ Access!Rating(spent, count, MeterLimit[m], MeterWindow[m], r.asOf).count = count
    BY DEF Access!Rating
  <2>4. QED
    BY <2>2, <2>3
<1>8. entry.quantity = q
  OBVIOUS
<1> HIDE DEF entry, r, known, counted, more
<1>9. Measured(counted) /\ q \in Nat
  <2>1. \A u \in counted : u.quantity \in Nat
    BY <1>4, <1>6
  <2>2. IsFiniteSet(counted)
    BY <1>4, <1>6, FS_Subset
  <2>3. QED
    BY <1>2, <1>4, <2>1, <2>2 DEF Measured
<1>10. spent \in Nat /\ Access!Quantity(more) = spent + q
  BY <1>6, <1>8, <1>9, MeasuredSum, QuantityOfOneMore
<1>11. Access!Cardinality(more) = count + 1
  <2>1. IsFiniteSet(counted)
    BY <1>9 DEF Measured
  <2>2. Cardinality(counted \cup {entry}) = Cardinality(counted) + 1
    BY <1>6, <2>1, FS_AddElement
  <2>3. QED
    BY <1>6, <2>2, CountsAreCounts
<1>12. ~(Access!Quantity(more) > MaxSafe)
  <2>1. Access!Projected(r, q).used = r.used + q
    BY DEF Access!Projected, Access!Rating
  <2>2. r.used + q <= MaxSafe
    BY <1>2, <2>1 DEF Access!CanonicalRating
  <2> HIDE DEF spent
  <2>3. QED
    BY <1>4, <1>7, <1>9, <1>10, <2>2
<1>13. Access!Rate(known \cup {entry}, MeterLimit[m], MeterWindow[m], r.asOf)
         = Access!Rating(spent + q, count + 1, MeterLimit[m], MeterWindow[m], r.asOf)
  BY <1>10, <1>11, <1>12 DEF Access!Rate, more
<1>14. Access!Projected(r, q)
         = Access!Rating(spent + q, count + 1, MeterLimit[m], MeterWindow[m], r.asOf)
  BY <1>2, <1>7 DEF Access!Projected
<1>15. QED
  BY <1>13, <1>14 DEF entry, r, known

\* Every rating, and every quote of it, is accepted by the parser that reads it
\* (EvidenceIsCanonical), and what is allowed is rated afterwards as it was projected
\* (ProjectionIsTheRating).
THEOREM EvidenceStaysCanonical ==
  ASSUME Access!QuotaConstants
  PROVE  Access!Spec => [](Access!EvidenceIsCanonical /\ Access!ProjectionIsTheRating)
<1>1. Access!Init => QuotaHolds /\ EvidenceHolds
  BY InitHolds, InitialEvidence DEF Access!Init
<1>2. (QuotaHolds /\ EvidenceHolds) /\ [Access!Next]_<<Access!quotaVars, entitlements>>
        => (QuotaHolds /\ EvidenceHolds)'
  <2>1. [Access!Next]_<<Access!quotaVars, entitlements>> => [Access!QuotaNext]_(Access!quotaVars)
    BY DEF Access!Next
  <2>2. QED
    BY <2>1, QuotaStepHolds, EvidenceStepHolds
<1>3. QuotaHolds /\ EvidenceHolds => Access!EvidenceIsCanonical /\ Access!ProjectionIsTheRating
  BY EvidenceIsWhatItSays, ProjectionIsRated
<1>4. QED
  BY <1>1, <1>2, <1>3, PTL DEF Access!Spec

-----------------------------------------------------------------------------
(* What a settlement hands out.                                                *)

LEMMA Multiples ==
  ASSUME NEW j \in Int, NEW k \in Int, j <= k, NEW n \in Nat
  PROVE  j * n <= k * n /\ j * n \in Int /\ k * n \in Int
OBVIOUS

\* A quotient rounded down.
LEMMA RoundedDown ==
  ASSUME NEW a \in Nat, NEW d \in Nat, d > 0
  PROVE  a \div d \in Nat /\ d * (a \div d) <= a /\ a < d * (a \div d) + d
OBVIOUS

LEMMA OnlyOneIsRoundedDown ==
  ASSUME NEW a \in Nat, NEW d \in Nat, d > 0, NEW q \in Nat, d * q <= a, a < d * q + d
  PROVE  q = a \div d
<1> DEFINE p == a \div d
<1>1. p \in Nat /\ d * p <= a /\ a < d * p + d
  BY RoundedDown
<1> HIDE DEF p
<1>2. d * (p + 1) = d * p + d /\ d * (q + 1) = d * q + d
  BY <1>1
<1>3. ~(q < p)
  <2> SUFFICES ASSUME q + 1 <= p PROVE FALSE
    BY <1>1
  <2>1. d * (q + 1) <= d * p
    BY <1>1
  <2>2. d * q \in Int /\ d * p \in Int
    BY <1>1
  <2>3. QED
    BY <1>1, <1>2, <2>1, <2>2
<1>4. ~(p < q)
  <2> SUFFICES ASSUME p + 1 <= q PROVE FALSE
    BY <1>1
  <2>1. d * (p + 1) <= d * q
    BY <1>1
  <2>2. d * q \in Int /\ d * p \in Int
    BY <1>1
  <2>3. QED
    BY <1>1, <1>2, <2>1, <2>2
<1>5. QED
  BY <1>1, <1>3, <1>4 DEF p

\* The share of a quotient and of its remainder is the share of the whole.
LEMMA TwoWaysToShare ==
  ASSUME NEW g \in Nat, NEW s \in Nat, NEW d \in Nat, d > 0
  PROVE  (g \div d) * s + ((g % d) * s) \div d = (g * s) \div d
<1>1. PICK q \in Nat : q = g \div d
  BY RoundedDown
<1>2. PICK r \in Nat : r = g % d
  OBVIOUS
<1>3. g = d * q + r
  BY <1>1, <1>2
<1>4. PICK k \in Nat : k = (r * s) \div d
  <2>1. r * s \in Nat
    OBVIOUS
  <2>2. QED
    BY <2>1, RoundedDown
<1>5. d * k <= r * s /\ r * s < d * k + d
  <2>1. r * s \in Nat
    OBVIOUS
  <2>2. QED
    BY <1>4, <2>1, RoundedDown
<1>6. g * s = d * (q * s) + r * s /\ d * (q * s + k) = d * (q * s) + d * k
  BY <1>3
<1>7. d * (q * s) \in Nat /\ d * k \in Nat /\ r * s \in Nat /\ g * s \in Nat /\ q * s + k \in Nat
  OBVIOUS
<1>8. d * (q * s + k) <= g * s /\ g * s < d * (q * s + k) + d
  BY <1>5, <1>6, <1>7
<1>9. q * s + k = (g * s) \div d
  BY <1>7, <1>8, OnlyOneIsRoundedDown
<1>10. QED
  BY <1>1, <1>2, <1>4, <1>9

\* What is less element by element is less in the sum.
LEMMA SumsCompare ==
  ASSUME NEW v, NEW w, NEW S, Countable(v, S), Countable(w, S), NEW d \in Nat, NEW g \in Nat,
         \A x \in S : d * w[x] <= g * v[x]
  PROVE  d * SumOf(w, S)[S] <= g * SumOf(v, S)[S]
<1> DEFINE Bad == {s \in SUBSET S : ~(d * SumOf(w, S)[s] <= g * SumOf(v, S)[s])}
<1>1. Bad = {}
  <2> SUFFICES ASSUME Bad # {} PROVE FALSE
    OBVIOUS
  <2>1. PICK s \in Bad : \A x \in s : s \ {x} \notin Bad
    BY SmallestIsThere DEF Countable
  <2>2. s # {}
    <3>1. SumOf(w, S)[{}] = 0 /\ SumOf(v, S)[{}] = 0
      BY SumIsNat
    <3>2. d * 0 <= g * 0
      OBVIOUS
    <3>3. QED
      BY <2>1, <3>1, <3>2
  <2>3. PICK x \in s : TRUE
    BY <2>2
  <2>4. /\ SumOf(w, S)[s] = w[x] + SumOf(w, S)[s \ {x}]
        /\ SumOf(v, S)[s] = v[x] + SumOf(v, S)[s \ {x}]
    <3>1. s \in SUBSET S /\ x \in s
      BY <2>1, <2>3
    <3> HIDE DEF Bad
    <3>2. QED
      BY <3>1, AnyStep
  <2>5. PICK a \in Nat, b \in Nat, wx \in Nat, vx \in Nat :
          /\ a = SumOf(w, S)[s \ {x}] /\ b = SumOf(v, S)[s \ {x}] /\ wx = w[x] /\ vx = v[x]
    <3>1. w[x] \in Nat /\ v[x] \in Nat
      BY <2>1, <2>3 DEF Countable
    <3>2. SumOf(w, S)[s \ {x}] \in Nat /\ SumOf(v, S)[s \ {x}] \in Nat
      BY <2>1, SumIsNat
    <3>3. QED
      BY <3>1, <3>2
  <2>6. d * a <= g * b /\ d * wx <= g * vx
    BY <2>1, <2>3, <2>5
  <2>7. d * (wx + a) = d * wx + d * a /\ g * (vx + b) = g * vx + g * b
    OBVIOUS
  <2>8. d * wx \in Int /\ d * a \in Int /\ g * vx \in Int /\ g * b \in Int
    OBVIOUS
  <2>9. d * (wx + a) <= g * (vx + b)
    BY <2>6, <2>7, <2>8
  <2>10. QED
    BY <2>1, <2>4, <2>5, <2>9
<1>2. QED
  BY <1>1

\* The allocation is made of sums.
LEMMA AllocatedIs ==
  ASSUME NEW gross, NEW schedule, NEW w, Countable(w, Party \ {"platform"}),
         \A p \in Party \ {"platform"} : w[p] = Billing!Part(gross, schedule[p]),
         "platform" \in Party
  PROVE  Billing!Allocate(gross, schedule)["platform"]
           = gross - SumOf(w, Party \ {"platform"})[Party \ {"platform"}]
<1> DEFINE S == Party \ {"platform"}
           Raw(g) == g = [s \in SUBSET S |-> IF s = {} THEN 0
                        ELSE LET p == CHOOSE p \in s : TRUE
                             IN Billing!Part(gross, schedule[p]) + g[s \ {p}]]
           sum == CHOOSE g : Raw(g)
<1>1. Billing!Allocate(gross, schedule)
        = [p \in Party |-> IF p = "platform" THEN gross - sum[S]
                           ELSE Billing!Part(gross, schedule[p])]
  BY DEF Billing!Allocate, Billing!MapThenSumSet, Billing!MapThenFoldSet
<1>2. Countable(w, S) /\ \A p \in S : w[p] = Billing!Part(gross, schedule[p])
  OBVIOUS
<1> HIDE DEF S
<1>3. \A g : Raw(g) <=> Adds(w, g, SUBSET S)
  <2> TAKE g
  <2>1. \A s \in SUBSET S : s # {} => (CHOOSE p \in s : TRUE) \in S
    OBVIOUS
  <2>2. \A s \in SUBSET S :
          (IF s = {} THEN 0
           ELSE LET p == CHOOSE p \in s : TRUE
                IN Billing!Part(gross, schedule[p]) + g[s \ {p}])
        = (IF s = {} THEN 0 ELSE LET p == CHOOSE p \in s : TRUE IN w[p] + g[s \ {p}])
    BY <1>2, <2>1
  <2>3. QED
    BY <2>2 DEF Adds
<1>4. Adds(w, SumOf(w, S), SUBSET S)
  BY <1>2, SumIsThere DEF Countable
<1>5. Raw(sum)
  <2> HIDE DEF Raw
  <2>1. Raw(SumOf(w, S))
    BY <1>3, <1>4
  <2>2. QED
    BY <2>1
<1>6. Adds(w, sum, SUBSET S)
  <2> HIDE DEF Raw, sum
  <2>1. QED
    BY <1>3, <1>5
<1> HIDE DEF sum
<1>7. sum[S] = SumOf(w, S)[S]
  BY <1>2, <1>6, AddsIsTheSum
<1>8. QED
  BY <1>1, <1>7 DEF S

LEMMA SharesAreTheSum ==
  ASSUME NEW schedule
  PROVE  Billing!Shares(schedule) = SumOf(schedule, Party)[Party]
BY DEF Billing!Shares, Billing!MapThenSumSet, Billing!MapThenFoldSet, SumOf, Adds

Allotted == [gross |-> allocation.gross, schedule |-> allocation.schedule, currency |-> "EUR",
             parts |-> Billing!Allocate(allocation.gross, allocation.schedule)]

\* The allocation that events are held against is one of a gross amount by whole shares.
FundsHold ==
  /\ allocation.gross \in Gross /\ allocation.schedule \in Schedule
  /\ Billing!Shares(allocation.schedule) = Denominator
  /\ allocation = Allotted

LEMMA FundsHoldWholes ==
  ASSUME Billing!SettlementConstants, FundsHold
  PROVE  Billing!AllocationIsWhole
<1> DEFINE rest == Party \ {"platform"}
<1>1. PICK gross \in Nat, shares \in [Party -> Nat] :
        /\ allocation.gross = gross /\ allocation.schedule = shares
        /\ Billing!Shares(shares) = Denominator
  BY DEF FundsHold, Billing!SettlementConstants
<1>2. PICK parts : parts = allocation.parts
  OBVIOUS
<1>3. parts = Billing!Allocate(gross, shares)
  BY <1>1, <1>2 DEF FundsHold, Allotted
<1>4. Denominator \in Nat /\ Denominator > 0 /\ IsFiniteSet(Party) /\ "platform" \in Party
  BY DEF Billing!SettlementConstants, Billing!IsFiniteSet, IsFiniteSet
<1>5. \A p \in Party :
        /\ shares[p] \in Nat /\ Billing!Part(gross, shares[p]) = (gross * shares[p]) \div Denominator
        /\ Billing!Part(gross, shares[p]) \in Nat
        /\ Denominator * Billing!Part(gross, shares[p]) <= gross * shares[p]
        /\ gross * shares[p] < Denominator * Billing!Part(gross, shares[p]) + Denominator
  <2> TAKE p \in Party
  <2>1. shares[p] \in Nat /\ gross * shares[p] \in Nat
    OBVIOUS
  <2>2. QED
    BY <1>4, <2>1, RoundedDown DEF Billing!Part
<1>6. Countable(parts, rest) /\ \A p \in rest : parts[p] = Billing!Part(gross, shares[p])
  <2>1. \A p \in rest : parts[p] = Billing!Part(gross, shares[p])
    BY <1>3 DEF Billing!Allocate
  <2>2. \A p \in rest : parts[p] \in Nat
    BY <1>5, <2>1
  <2>3. IsFiniteSet(rest)
    BY <1>4, FS_RemoveElement
  <2> HIDE DEF rest
  <2>4. QED
    BY <2>1, <2>2, <2>3 DEF Countable
<1>7. Countable(shares, Party) /\ Countable(shares, rest)
  BY <1>4, <1>5, FS_Subset DEF Countable
<1>8. PICK given \in Nat : given = SumOf(parts, rest)[rest]
  BY <1>6, SumIsNat
<1>9. PICK others \in Nat : others = SumOf(shares, rest)[rest]
  BY <1>7, SumIsNat
<1>10. Denominator * given <= gross * others
  <2>1. \A p \in rest : Denominator * parts[p] <= gross * shares[p]
    BY <1>5, <1>6
  <2> HIDE DEF rest
  <2>2. QED
    BY <1>4, <1>6, <1>7, <1>8, <1>9, <2>1, SumsCompare
<1>11. PICK own \in Nat : own = shares["platform"]
  BY <1>4
<1>12. Denominator = own + others
  <2>1. Denominator = SumOf(shares, Party)[Party]
    BY <1>1, SharesAreTheSum
  <2>2. QED
    BY <1>4, <1>7, <1>9, <1>11, <2>1, SumOfMore
<1>13. parts["platform"] = gross - given
  <2>1. Billing!Allocate(gross, shares)["platform"] = gross - SumOf(parts, rest)[rest]
    BY <1>4, <1>6, AllocatedIs
  <2>2. QED
    BY <1>3, <1>8, <2>1
<1>14. parts["platform"] = gross - given /\ \A p \in rest : parts[p] = Billing!Part(gross, shares[p])
  BY <1>6, <1>13
<1>15. /\ Denominator * gross = gross * own + gross * others
       /\ Denominator * (gross - given) = Denominator * gross - Denominator * given
       /\ Denominator * gross \in Int /\ Denominator * given \in Int /\ gross * own \in Nat
       /\ gross * others \in Int
  BY <1>4, <1>12
<1>16. gross * own <= Denominator * (gross - given)
  BY <1>10, <1>15
<1>17. gross - given \in Nat
  <2> SUFFICES ASSUME gross - given < 0 PROVE FALSE
    OBVIOUS
  <2>1. Denominator * (gross - given) < 0
    BY <1>4
  <2>2. QED
    BY <1>15, <1>16, <2>1
<1>18. Countable(parts, Party)
  BY <1>4, <1>5, <1>14, <1>17 DEF Countable
<1>19. SumOf(parts, Party)[Party] = gross
  <2>1. SumOf(parts, Party)[Party] = parts["platform"] + given
    BY <1>4, <1>8, <1>18, SumOfMore
  <2>2. QED
    BY <1>14, <2>1
<1>20. \A p \in rest : parts[p] * Denominator <= gross * shares[p]
  <2> TAKE p \in rest
  <2>1. parts[p] \in Nat /\ Denominator * parts[p] <= gross * shares[p]
    BY <1>5, <1>14
  <2>2. parts[p] * Denominator = Denominator * parts[p]
    BY <1>4, <2>1
  <2>3. QED
    BY <2>1, <2>2
<1>21. \A p \in Party : (parts[p] + 1) * Denominator > gross * shares[p]
  <2> TAKE p \in Party
  <2>1. PICK n \in Nat : n = parts[p]
    BY <1>18 DEF Countable
  <2>2. (n + 1) * Denominator = Denominator * n + Denominator /\ Denominator * n \in Int
    BY <1>4
  <2>3. CASE p # "platform"
    <3>1. gross * shares[p] < Denominator * n + Denominator /\ gross * shares[p] \in Int
      BY <1>5, <1>14, <2>1, <2>3
    <3>2. QED
      BY <1>4, <2>1, <2>2, <3>1
  <2>4. CASE p = "platform"
    <3>1. n = gross - given /\ shares[p] = own
      BY <1>11, <1>14, <2>1, <2>4
    <3>2. gross * own <= Denominator * n
      BY <1>16, <3>1
    <3>3. gross * own < (n + 1) * Denominator
      BY <1>4, <1>15, <2>2, <3>2
    <3>4. QED
      BY <1>15, <2>1, <3>1, <3>3, <2>2
  <2>5. QED
    BY <2>3, <2>4
<1>22. \A p \in Party : Billing!PublisherAmount(gross, shares[p]) = Billing!Part(gross, shares[p])
  BY <1>4, <1>5, TwoWaysToShare DEF Billing!PublisherAmount, Billing!Part
<1>23. Billing!AllocationIsWhole
  <2>1. Billing!MapThenSumSet(LAMBDA p : parts[p], Party) = SumOf(parts, Party)[Party]
    BY DEF Billing!MapThenSumSet, Billing!MapThenFoldSet, SumOf, Adds
  <2>2. QED
    BY <1>1, <1>2, <1>19, <1>20, <1>21, <1>22, <2>1 DEF Billing!AllocationIsWhole
<1>24. QED
  BY <1>23

LEMMA FundsInitHold == Billing!FundsInit => FundsHold
BY DEF Billing!FundsInit, FundsHold, Allotted

\* What a settlement hands out is what there is, to the last unit: no party gets more than
\* its share, none a unit less than its share rounded down (AllocationIsWhole).
THEOREM NothingIsLostInSettlement ==
  ASSUME Billing!SettlementConstants
  PROVE  Billing!Spec => []Billing!AllocationIsWhole
<1>1. Billing!Init => FundsHold
  BY FundsInitHold DEF Billing!Init
<1>2. FundsHold /\ [Billing!Next]_<<Billing!usageVars, Billing!fundsVars>> => FundsHold'
  <2> SUFFICES ASSUME FundsHold, [Billing!Next]_<<Billing!usageVars, Billing!fundsVars>>
               PROVE  FundsHold'
    OBVIOUS
  <2>1. allocation' = allocation
    BY DEF Billing!Next, Billing!FundsNext, Billing!Reconcile, Billing!fundsVars
  <2>2. QED
    BY <2>1 DEF FundsHold, Allotted
<1>3. FundsHold => Billing!AllocationIsWhole
  BY FundsHoldWholes
<1>4. QED
  BY <1>1, <1>2, <1>3, PTL DEF Billing!Spec

-----------------------------------------------------------------------------
(* What is in the books.                                                      *)

\* The records are a sequence of what came in, and their ids are seen.
BooksHold ==
  /\ \E S : records \in Seq(S)
  /\ \A i \in 1..Len(records) :
       records[i].event \in FundsEvent /\ records[i].event.id \in seen
  /\ sequence = [t \in Billing!Transaction |-> sequence[t]]
  /\ Billing!RecordsFollowTheTransaction

LEMMA CountsAgree == \A S : Billing!Cardinality(S) = Cardinality(S)
BY DEF Billing!Cardinality, Cardinality

\* Of a longer list of records what counts is what it has beyond the shorter.
LEMMA OneRecordMore ==
  ASSUME BooksHold, NEW e \in FundsEvent, Billing!Reconcile(e)
  PROVE  /\ Len(records') = Len(records) + 1 /\ Len(records) \in Nat
         /\ \A i \in 1..Len(records) : records'[i] = records[i]
         /\ records'[Len(records) + 1].event = e
         /\ \E S : records' \in Seq(S)
<1> DEFINE new == [event |-> e, expected |-> Billing!ExpectedAmount(e),
                   outcome |-> IF Billing!ExpectedAmount(e) = e.amount THEN "matched"
                               ELSE "mismatch"]
<1>1. records' = Append(records, new)
  BY DEF Billing!Reconcile
<1>2. new.event = e
  OBVIOUS
<1> HIDE DEF new
<1>3. PICK S : records \in Seq(S)
  BY DEF BooksHold
<1> DEFINE T == S \cup {new}
<1>4. records \in Seq(T) /\ new \in T
  BY <1>3
<1> HIDE DEF T
<1>5. /\ Len(records') = Len(records) + 1 /\ Len(records) \in Nat /\ records' \in Seq(T)
      /\ \A i \in 1..Len(records) : records'[i] = records[i]
      /\ records'[Len(records) + 1] = new
  BY <1>1, <1>4
<1>6. QED
  BY <1>2, <1>5

LEMMA BooksStep ==
  ASSUME BooksHold, NEW e \in FundsEvent, Billing!Reconcile(e)
  PROVE  BooksHold'
<1> DEFINE n == Len(records)
           Of(t, k) == {i \in 1..k : records[i].event.transaction = t}
           After(t, k) == {i \in 1..k : records'[i].event.transaction = t}
<1>1. /\ Len(records') = n + 1 /\ n \in Nat
      /\ \A i \in 1..n : records'[i] = records[i]
      /\ records'[n + 1].event = e
      /\ \E S : records' \in Seq(S)
  BY OneRecordMore
<1>2. /\ e.id \notin seen /\ e.sequence = sequence[e.transaction] + 1
      /\ seen' = seen \cup {e.id}
      /\ sequence' = [sequence EXCEPT ![e.transaction] = e.sequence]
  BY DEF Billing!Reconcile, Billing!InSequence
<1>3. /\ \A i \in 1..n : records[i].event.sequence
                           = Cardinality(Of(records[i].event.transaction, i))
      /\ \A t \in Billing!Transaction : sequence[t] = Cardinality(Of(t, n))
      /\ \A i, j \in 1..n : records[i].event.id = records[j].event.id => i = j
  BY CountsAgree DEF BooksHold, Billing!RecordsFollowTheTransaction, Billing!RecordsOf
<1>4. e.transaction \in Billing!Transaction
  BY DEF Billing!Transaction
<1> HIDE DEF n
<1>5. \A t : \A k \in 1..n : After(t, k) = Of(t, k)
  BY <1>1
<1>6. \A t : After(t, n) = Of(t, n) /\ IsFiniteSet(Of(t, n)) /\ n + 1 \notin Of(t, n)
  <2>1. \A t : After(t, n) = Of(t, n) /\ n + 1 \notin Of(t, n)
    <3>1. n + 1 \notin 1..n /\ \A i \in 1..n : records'[i] = records[i]
      BY <1>1
    <3>2. QED
      BY <3>1
  <2>2. IsFiniteSet(1..n)
    <3>1. 1 \in Int /\ n \in Int
      BY <1>1
    <3>2. QED
      BY <3>1, FS_Interval
  <2>3. \A t : Of(t, n) \subseteq 1..n
    OBVIOUS
  <2>4. QED
    BY <2>1, <2>2, <2>3, FS_Subset
<1>7. \A t : After(t, n + 1) = IF t = e.transaction THEN Of(t, n) \cup {n + 1} ELSE Of(t, n)
  <2>1. \A i : i \in 1..(n + 1) <=> i \in 1..n \/ i = n + 1
    BY <1>1
  <2>2. QED
    BY <1>1, <2>1
<1>8. /\ Cardinality(After(e.transaction, n + 1)) = Cardinality(Of(e.transaction, n)) + 1
      /\ \A t : t # e.transaction => Cardinality(After(t, n + 1)) = Cardinality(Of(t, n))
  <2> HIDE DEF Of, After
  <2>1. Cardinality(Of(e.transaction, n) \cup {n + 1}) = Cardinality(Of(e.transaction, n)) + 1
    BY <1>6, FS_AddElement
  <2>2. QED
    BY <1>7, <2>1
<1>9. \A i \in 1..(n + 1) :
        records'[i].event.sequence = Cardinality(After(records'[i].event.transaction, i))
  <2> SUFFICES ASSUME NEW i \in 1..(n + 1)
               PROVE  records'[i].event.sequence
                        = Cardinality(After(records'[i].event.transaction, i))
    OBVIOUS
  <2>1. CASE i = n + 1
    <3>1. e.sequence = Cardinality(Of(e.transaction, n)) + 1
      BY <1>2, <1>3, <1>4
    <3> HIDE DEF Of, After
    <3>2. QED
      BY <1>1, <1>8, <2>1, <3>1
  <2>2. CASE i \in 1..n
    <3> HIDE DEF Of, After
    <3>1. QED
      BY <1>1, <1>3, <1>5, <2>2
  <2>3. QED
    BY <1>1, <2>1, <2>2
<1>10. /\ \A t \in Billing!Transaction : sequence'[t] = Cardinality(After(t, n + 1))
       /\ sequence' = [t \in Billing!Transaction |-> sequence'[t]]
  <2>1. sequence = [t \in Billing!Transaction |-> sequence[t]]
    BY DEF BooksHold
  <2>2. /\ \A t \in Billing!Transaction :
             sequence'[t] = IF t = e.transaction THEN e.sequence ELSE sequence[t]
        /\ sequence' = [t \in Billing!Transaction |-> sequence'[t]]
    BY <1>2, <2>1
  <2> HIDE DEF Of, After
  <2>3. QED
    BY <1>2, <1>3, <1>4, <1>8, <2>2
<1>11. \A i \in 1..n : records[i].event \in FundsEvent /\ records[i].event.id \in seen
  BY DEF BooksHold, n
<1>12. \A i \in 1..(n + 1) : records'[i].event \in FundsEvent /\ records'[i].event.id \in seen'
  BY <1>1, <1>2, <1>11
<1>13. \A i, j \in 1..(n + 1) : records'[i].event.id = records'[j].event.id => i = j
  BY <1>1, <1>2, <1>3, <1>11
<1>14. Billing!RecordsFollowTheTransaction'
  <2>1. Billing!Transaction' = Billing!Transaction
    BY DEF Billing!Transaction
  <2>2. QED
    BY <1>1, <1>9, <1>10, <1>13, <2>1, CountsAgree
    DEF Billing!RecordsFollowTheTransaction, Billing!RecordsOf
<1>15. QED
  <2>1. Billing!Transaction' = Billing!Transaction
    BY DEF Billing!Transaction
  <2>2. QED
    BY <1>1, <1>10, <1>12, <1>14, <2>1 DEF BooksHold

LEMMA BooksInit == Billing!FundsInit => BooksHold
<1> SUFFICES ASSUME Billing!FundsInit PROVE BooksHold
  OBVIOUS
<1>1. records = <<>> /\ sequence = [t \in Billing!Transaction |-> 0]
  BY DEF Billing!FundsInit
<1>2. Len(records) = 0 /\ records \in Seq({}) /\ 1..Len(records) = {}
  BY <1>1
<1>3. \A t : Billing!RecordsOf(t, Len(records)) = {}
  BY <1>2 DEF Billing!RecordsOf
<1>4. Cardinality({}) = 0
  BY FS_EmptySet
<1>5. Billing!RecordsFollowTheTransaction
  BY <1>1, <1>2, <1>3, <1>4, CountsAgree DEF Billing!RecordsFollowTheTransaction
<1>6. QED
  BY <1>1, <1>2, <1>5 DEF BooksHold

\* An event moves funds in the books once, and the records of a transaction are its
\* events 1, 2, ... in their order (RecordsFollowTheTransaction), whatever the webhooks
\* deliver again, late, or under a number or an identity of another event.
THEOREM BooksFollowTheTransactions == Billing!Spec => []Billing!RecordsFollowTheTransaction
<1>1. Billing!Init => BooksHold
  BY BooksInit DEF Billing!Init
<1>2. BooksHold /\ [Billing!Next]_<<Billing!usageVars, Billing!fundsVars>> => BooksHold'
  <2> SUFFICES ASSUME BooksHold, [Billing!Next]_<<Billing!usageVars, Billing!fundsVars>>
               PROVE  BooksHold'
    OBVIOUS
  <2>1. CASE Billing!FundsNext
    BY <2>1, BooksStep DEF Billing!FundsNext
  <2>2. CASE UNCHANGED Billing!fundsVars
    <3>1. records' = records /\ seen' = seen /\ sequence' = sequence
      BY <2>2 DEF Billing!fundsVars
    <3>2. QED
      BY <3>1 DEF BooksHold, Billing!RecordsFollowTheTransaction, Billing!RecordsOf,
                  Billing!Transaction
  <2>3. QED
    BY <2>1, <2>2 DEF Billing!Next
<1>3. BooksHold => Billing!RecordsFollowTheTransaction
  BY DEF BooksHold
<1>4. QED
  BY <1>1, <1>2, <1>3, PTL DEF Billing!Spec

\* All that is checked of a settlement: nothing of the gross amount is lost or invented
\* (AllocationIsWhole), and the books follow what moved, event by event and once
\* (RecordsFollowTheTransaction).
THEOREM SettlementStaysSound ==
  ASSUME Billing!SettlementConstants
  PROVE  Billing!Spec => [](Billing!AllocationIsWhole /\ Billing!RecordsFollowTheTransaction)
<1>1. Billing!Spec => []Billing!AllocationIsWhole
  BY NothingIsLostInSettlement
<1>2. Billing!Spec => []Billing!RecordsFollowTheTransaction
  BY BooksFollowTheTransactions
<1>3. QED
  BY <1>1, <1>2, PTL

-----------------------------------------------------------------------------
(* What a chain of delegations comes to.                                       *)

\* A question q: the grants, whose chain starts at a principal, and against what each
\* is held.
StepOf(q, chain, i) ==
  IF chain # Refused
     /\ Delegation!Extends(chain, q.grants[i], q.scope, q.audience, q.revoked, q.now)
  THEN [at |-> q.grants[i].delegate, last |-> q.grants[i].id,
        ids |-> Append(chain.ids, q.grants[i].id)]
  ELSE Refused

Beginning(q) == [at |-> q.start, last |-> Missing, ids |-> <<>>]

\* The equation that defines the fold over the sets of indices in D.
Follows(q, g, D) ==
  g = [s \in D |-> IF s = {} THEN Beginning(q)
                   ELSE LET i == Delegation!Max(s) IN StepOf(q, g[s \ {i}], i)]

FollowOf(q, S) == CHOOSE g : Follows(q, g, SUBSET S)

LEMMA LargestOf ==
  ASSUME NEW n \in Nat, NEW s \in SUBSET (1..n), s # {}
  PROVE  Delegation!Max(s) \in s /\ \A x \in s : x <= Delegation!Max(s)
<1> DEFINE Bounds == {m \in Nat : \A x \in s : x <= m}
<1>1. n \in Bounds /\ Bounds \subseteq Nat
  OBVIOUS
<1>2. PICK m \in Bounds : \A k \in Bounds : m <= k
  BY <1>1, LeastOf
<1>3. m \in s
  <2> SUFFICES ASSUME m \notin s PROVE FALSE
    OBVIOUS
  <2>1. \A x \in s : x \in Nat /\ x >= 1 /\ x <= m /\ x # m
    BY <1>2
  <2>2. m - 1 \in Nat /\ \A x \in s : x <= m - 1
    <3>1. m \in Nat
      BY <1>2
    <3>2. PICK x \in s : TRUE
      OBVIOUS
    <3>3. m >= 1
      BY <2>1, <3>1, <3>2
    <3> HIDE DEF Bounds
    <3>4. QED
      BY <2>1, <3>1, <3>3
  <2>3. m - 1 \in Bounds
    BY <2>2
  <2>4. QED
    BY <1>2, <2>3
<1>4. \A x \in s : m >= x
  BY <1>2
<1>5. Delegation!Max(s) \in s /\ \A y \in s : Delegation!Max(s) >= y
  BY <1>3, <1>4 DEF Delegation!Max
<1>6. QED
  BY <1>5

LEMMA FollowMore ==
  ASSUME NEW q, NEW l \in Nat, NEW n \in Nat, NEW g, Follows(q, g, Upto(1..l, n))
  PROVE  \E h : Follows(q, h, Upto(1..l, n + 1))
<1> DEFINE S == 1..l
           next(f, s) == IF s = {} THEN Beginning(q)
                         ELSE StepOf(q, f[s \ {Delegation!Max(s)}], Delegation!Max(s))
           h == [s \in Upto(S, n + 1) |-> next(g, s)]
<1>0. IsFiniteSet(S)
  BY FS_Interval
<1>1. \A s \in Upto(S, n) : s \in Upto(S, n + 1) /\ g[s] = next(g, s)
  <2> TAKE s \in Upto(S, n)
  <2>1. Cardinality(s) \in Nat
    BY <1>0, FS_Subset, FS_CardinalityType DEF Upto
  <2>2. s \in Upto(S, n + 1)
    BY <2>1 DEF Upto
  <2>3. g[s] = next(g, s)
    BY DEF Follows
  <2>4. QED
    BY <2>2, <2>3
<1>2. \A s \in Upto(S, n) : h[s] = g[s]
  BY <1>1
<1>3. \A s \in Upto(S, n + 1) : \A x \in s : s \ {x} \in Upto(S, n)
  <2> TAKE s \in Upto(S, n + 1)
  <2> TAKE x \in s
  <2>1. IsFiniteSet(s) /\ Cardinality(s) \in Nat /\ Cardinality(s) <= n + 1
    BY <1>0, FS_Subset, FS_CardinalityType DEF Upto
  <2>2. Cardinality(s \ {x}) = Cardinality(s) - 1
    BY <2>1, FS_RemoveElement
  <2>3. QED
    BY <2>1, <2>2 DEF Upto
<1>4. \A s \in Upto(S, n + 1) : next(g, s) = next(h, s)
  <2> TAKE s \in Upto(S, n + 1)
  <2>1. CASE s = {}
    BY <2>1
  <2>2. CASE s # {}
    <3> DEFINE x == Delegation!Max(s)
    <3>1. s \in SUBSET (1..l)
      BY DEF Upto
    <3>2. x \in s
      BY <2>2, <3>1, LargestOf
    <3>3. h[s \ {x}] = g[s \ {x}]
      BY <3>2, <1>2, <1>3
    <3> HIDE DEF h
    <3>4. QED
      BY <2>2, <3>3
  <2>3. QED
    BY <2>1, <2>2
<1>5. h = [s \in Upto(S, n + 1) |-> next(h, s)]
  BY <1>4
<1>6. Follows(q, h, Upto(S, n + 1))
  BY <1>5 DEF Follows
<1>7. QED
  BY <1>6

LEMMA FollowIsThere ==
  ASSUME NEW q, NEW l \in Nat
  PROVE  Follows(q, FollowOf(q, 1..l), SUBSET (1..l))
<1> DEFINE S == 1..l
           Bad == {n \in Nat : ~ \E g : Follows(q, g, Upto(S, n))}
<1>0. IsFiniteSet(S)
  BY FS_Interval
<1>1. Bad = {}
  <2> SUFFICES ASSUME Bad # {} PROVE FALSE
    OBVIOUS
  <2>1. PICK n \in Bad : \A m \in Bad : n <= m
    BY LeastOf
  <2>2. n # 0
    <3>1. Upto(S, 0) = {{}}
      <4> HIDE DEF S
      <4>1. \A s \in SUBSET S : Cardinality(s) <= 0 <=> s = {}
        BY <1>0, FS_Subset, FS_CardinalityType, FS_EmptySet
      <4>2. QED
        BY <4>1 DEF Upto
    <3>2. Follows(q, [s \in {{}} |-> Beginning(q)], {{}})
      BY DEF Follows
    <3>3. QED
      BY <3>1, <3>2
  <2>3. n - 1 \in Nat /\ ~(n - 1 \in Bad)
    BY <2>1, <2>2
  <2>4. PICK g : Follows(q, g, Upto(S, n - 1))
    BY <2>3
  <2>5. \E h : Follows(q, h, Upto(S, (n - 1) + 1))
    BY <2>3, <2>4, FollowMore
  <2>6. (n - 1) + 1 = n
    BY <2>1
  <2>7. QED
    BY <2>1, <2>5, <2>6
<1>2. Cardinality(S) \in Nat /\ Upto(S, Cardinality(S)) = SUBSET S
  <2>1. \A s \in SUBSET S : Cardinality(s) <= Cardinality(S)
    BY <1>0, FS_Subset
  <2>2. QED
    BY <1>0, <2>1, FS_CardinalityType DEF Upto
<1>3. \E g : Follows(q, g, Upto(S, Cardinality(S)))
  <2>1. Cardinality(S) \notin Bad
    BY <1>1
  <2>2. QED
    BY <2>1, <1>2
<1>4. \E g : Follows(q, g, SUBSET S)
  BY <1>2, <1>3
<1>5. QED
  BY <1>4 DEF FollowOf

\* The chain after n grants.
After(q, n) == FollowOf(q, 1..Len(q.grants))[1..n]

LEMMA AfterStep ==
  ASSUME NEW q, Len(q.grants) \in Nat
  PROVE  /\ After(q, 0) = Beginning(q)
         /\ \A n \in Nat : n < Len(q.grants) => After(q, n + 1) = StepOf(q, After(q, n), n + 1)
<1>0. PICK l \in Nat : l = Len(q.grants)
  OBVIOUS
<1>1. PICK f : f = FollowOf(q, 1..l)
  OBVIOUS
<1>2. f = [s \in SUBSET (1..l) |-> IF s = {} THEN Beginning(q)
             ELSE LET i == Delegation!Max(s) IN StepOf(q, f[s \ {i}], i)]
  <2>1. Follows(q, f, SUBSET (1..l))
    BY <1>1, FollowIsThere
  <2>2. QED
    BY <2>1 DEF Follows
<1>3. 1..0 = {} /\ f[{}] = Beginning(q)
  BY <1>2
<1>4. ASSUME NEW n \in Nat, n < l
      PROVE  f[1..(n + 1)] = StepOf(q, f[1..n], n + 1)
  <2> DEFINE s == 1..(n + 1)
  <2>1. s \in SUBSET (1..l) /\ s # {} /\ n + 1 \in s
    BY <1>4
  <2>2. Delegation!Max(s) \in s /\ \A x \in s : x <= Delegation!Max(s)
    BY <2>1, LargestOf
  <2>3. Delegation!Max(s) = n + 1
    BY <2>1, <2>2
  <2>4. s \ {n + 1} = 1..n
    BY <1>4
  <2>5. f[s] = StepOf(q, f[s \ {n + 1}], n + 1)
    <3> HIDE DEF s
    <3>1. QED
      BY <1>2, <2>1, <2>3
  <2>6. QED
    BY <2>4, <2>5
<1>5. QED
  BY <1>0, <1>1, <1>3, <1>4 DEF After

LEMMA ChainIsWhatFollows ==
  ASSUME NEW start, NEW G, NEW given \in Seq(G), NEW scope, NEW audience, NEW revoked, NEW now,
         NEW q, q = [start |-> start, grants |-> given, scope |-> scope, audience |-> audience,
                     revoked |-> revoked, now |-> now]
  PROVE  Delegation!FollowChain(start, given, scope, audience, revoked, now)
           = After(q, Len(given))
<1> DEFINE S == 1..Len(given)
           Raw(g) == g = [s \in SUBSET S |->
             IF s = {} THEN [at |-> start, last |-> Missing, ids |-> <<>>]
             ELSE LET i == Delegation!Max(s) IN
                  IF /\ g[s \ {i}] # Refused
                     /\ Delegation!Extends(g[s \ {i}], given[i], scope, audience, revoked, now)
                  THEN [at |-> given[i].delegate, last |-> given[i].id,
                        ids |-> Append(g[s \ {i}].ids, given[i].id)]
                  ELSE Refused]
           chain == CHOOSE g : Raw(g)
<1>1. DOMAIN given = S
  OBVIOUS
<1>2. Delegation!FollowChain(start, given, scope, audience, revoked, now) = chain[S]
  BY <1>1 DEF Delegation!FollowChain, Delegation!FoldLeft, Delegation!MapThenFoldSet
<1>3. /\ q.start = start /\ q.grants = given /\ q.scope = scope /\ q.audience = audience
      /\ q.revoked = revoked /\ q.now = now
  OBVIOUS
<1>4. \A g : Raw(g) <=> Follows(q, g, SUBSET S)
  BY <1>3 DEF Follows, StepOf, Beginning
<1>5. chain = FollowOf(q, S)
  BY <1>4 DEF FollowOf
<1>6. QED
  BY <1>2, <1>3, <1>5 DEF After

\* What the grant at a place has to be.
GoodAt(q, i) ==
  LET grant == q.grants[i] IN
  /\ grant.from < grant.expires
  /\ \A j \in 1..(i - 1) : q.grants[j].id # grant.id
  /\ grant.scope = q.scope
  /\ grant.delegator = (IF i = 1 THEN q.start ELSE q.grants[i - 1].delegate)
  /\ grant.delegator # grant.delegate
  /\ grant.parent = (IF i = 1 THEN Missing ELSE q.grants[i - 1].id)
  /\ grant.audience = q.audience
  /\ grant.from <= q.now /\ q.now < grant.expires
  /\ grant.id \notin q.revoked
  /\ grant.revoked # Missing => q.now < grant.revoked
  /\ Delegation!Belongs(grant.delegate, q.scope)

Good(q, n) == \A i \in 1..n : GoodAt(q, i)

IdsOf(q, n) == [i \in 1..n |-> q.grants[i].id]

ChainOf(q, n) == [at |-> IF n = 0 THEN q.start ELSE q.grants[n].delegate,
                  last |-> IF n = 0 THEN Missing ELSE q.grants[n].id,
                  ids |-> IdsOf(q, n)]

\* A chain is no refusal.
RefusalIsNoChain == \A at, last, ids : [at |-> at, last |-> last, ids |-> ids] # Refused

LEMMA AppendIs ==
  ASSUME NEW T, NEW a \in Seq(T), NEW x \in T
  PROVE  /\ Append(a, x) \in Seq(T) /\ Len(Append(a, x)) = Len(a) + 1 /\ Len(a) \in Nat
         /\ \A i \in 1..Len(a) : Append(a, x)[i] = a[i]
         /\ Append(a, x)[Len(a) + 1] = x
OBVIOUS

LEMMA SameSequence ==
  ASSUME NEW T, NEW s \in Seq(T), NEW t \in Seq(T), Len(s) = Len(t),
         \A i \in 1..Len(s) : s[i] = t[i]
  PROVE  s = t
<1>1. DOMAIN s = 1..Len(s) /\ DOMAIN t = 1..Len(t)
  OBVIOUS
<1>2. s = [i \in DOMAIN s |-> s[i]] /\ t = [i \in DOMAIN t |-> t[i]]
  OBVIOUS
<1>3. QED
  BY <1>1, <1>2

LEMMA IdsGrow ==
  ASSUME NEW q, NEW n \in Nat
  PROVE  Append(IdsOf(q, n), q.grants[n + 1].id) = IdsOf(q, n + 1)
<1> DEFINE T == {q.grants[i].id : i \in 1..(n + 1)}
<1>1. /\ IdsOf(q, n) \in Seq(T) /\ Len(IdsOf(q, n)) = n
      /\ IdsOf(q, n + 1) \in Seq(T) /\ Len(IdsOf(q, n + 1)) = n + 1
  BY DEF IdsOf
<1>2. q.grants[n + 1].id \in T
  OBVIOUS
<1>3. PICK a : a = IdsOf(q, n)
  OBVIOUS
<1>4. PICK b : b = IdsOf(q, n + 1)
  OBVIOUS
<1>5. (\A i \in 1..n : a[i] = b[i]) /\ b[n + 1] = q.grants[n + 1].id
  BY <1>3, <1>4 DEF IdsOf
<1>6. a \in Seq(T) /\ Len(a) = n /\ b \in Seq(T) /\ Len(b) = n + 1
  BY <1>1, <1>3, <1>4
<1> HIDE DEF T
<1> DEFINE s == Append(a, q.grants[n + 1].id)
<1>7. /\ s \in Seq(T) /\ Len(s) = n + 1
      /\ \A i \in 1..n : s[i] = a[i]
      /\ s[n + 1] = q.grants[n + 1].id
  BY <1>2, <1>6, AppendIs
<1> HIDE DEF s
<1>8. \A i \in 1..(n + 1) : s[i] = b[i]
  BY <1>5, <1>7
<1>9. s = b
  BY <1>6, <1>7, <1>8, SameSequence
<1>10. QED
  BY <1>3, <1>4, <1>9 DEF s

LEMMA ExtendsIsGood ==
  ASSUME NEW q, NEW n \in Nat
  PROVE  Delegation!Extends(ChainOf(q, n), q.grants[n + 1], q.scope, q.audience, q.revoked, q.now)
           <=> GoodAt(q, n + 1)
<1>1. {ChainOf(q, n).ids[i] : i \in DOMAIN ChainOf(q, n).ids} = {q.grants[i].id : i \in 1..n}
  BY DEF ChainOf, IdsOf
<1>2. (n + 1) - 1 = n /\ (n + 1 = 1 <=> n = 0)
  OBVIOUS
<1>3. q.grants[n + 1].id \notin {q.grants[i].id : i \in 1..n}
        <=> \A j \in 1..((n + 1) - 1) : q.grants[j].id # q.grants[n + 1].id
  BY <1>2
<1>4. /\ ChainOf(q, n).at = (IF n + 1 = 1 THEN q.start ELSE q.grants[(n + 1) - 1].delegate)
      /\ ChainOf(q, n).last = (IF n + 1 = 1 THEN Missing ELSE q.grants[(n + 1) - 1].id)
  BY <1>2 DEF ChainOf
<1>5. QED
  BY <1>1, <1>3, <1>4 DEF Delegation!Extends, GoodAt

\* The chain after some grants is of all of them, each good where it is.
LEMMA ChainsAreGood ==
  ASSUME RefusalIsNoChain, NEW q, Len(q.grants) \in Nat, NEW n \in Nat, n <= Len(q.grants)
  PROVE  After(q, n) = IF Good(q, n) THEN ChainOf(q, n) ELSE Refused
<1> DEFINE Right(k) == After(q, k) = IF Good(q, k) THEN ChainOf(q, k) ELSE Refused
           Bad == {k \in Nat : k <= Len(q.grants) /\ ~Right(k)}
<1>1. Bad = {}
  <2> SUFFICES ASSUME Bad # {} PROVE FALSE
    OBVIOUS
  <2>1. PICK k \in Bad : \A j \in Bad : k <= j
    BY LeastOf
  <2>2. k # 0
    <3>1. 1..0 = {}
      OBVIOUS
    <3>2. After(q, 0) = [at |-> q.start, last |-> Missing, ids |-> <<>>]
      BY AfterStep DEF Beginning
    <3>3. Good(q, 0)
      BY <3>1 DEF Good
    <3>4. IdsOf(q, 0) = <<>>
      BY <3>1 DEF IdsOf
    <3>5. ChainOf(q, 0) = [at |-> q.start, last |-> Missing, ids |-> <<>>]
      BY <3>4 DEF ChainOf
    <3>6. Right(0)
      BY <3>2, <3>3, <3>5
    <3>7. QED
      BY <2>1, <3>6
  <2>3. PICK m \in Nat : k = m + 1
    <3>1. k \in Nat
      BY <2>1
    <3>2. k - 1 \in Nat /\ k = (k - 1) + 1
      BY <2>2, <3>1
    <3>3. QED
      BY <3>2
  <2>4. m < Len(q.grants) /\ m <= Len(q.grants) /\ m < k
    BY <2>1, <2>3
  <2>5. Right(m)
    BY <2>1, <2>3, <2>4
  <2>6. After(q, m + 1) = StepOf(q, After(q, m), m + 1)
    BY <2>4, AfterStep
  <2>7. Good(q, m + 1) <=> Good(q, m) /\ GoodAt(q, m + 1)
    BY DEF Good
  <2>8. ChainOf(q, m) # Refused
    BY DEF RefusalIsNoChain, ChainOf
  <2>9. CASE Good(q, m)
    <3>1. After(q, m) = ChainOf(q, m)
      BY <2>5, <2>9
    <3>2. StepOf(q, ChainOf(q, m), m + 1)
            = IF GoodAt(q, m + 1) THEN ChainOf(q, m + 1) ELSE Refused
      <4>1. ChainOf(q, m).ids = IdsOf(q, m)
        BY DEF ChainOf
      <4>2. ChainOf(q, m + 1) = [at |-> q.grants[m + 1].delegate, last |-> q.grants[m + 1].id,
                                 ids |-> Append(ChainOf(q, m).ids, q.grants[m + 1].id)]
        <5>1. Append(ChainOf(q, m).ids, q.grants[m + 1].id) = IdsOf(q, m + 1)
          BY <4>1, IdsGrow
        <5>2. m + 1 # 0
          BY <2>3
        <5> HIDE DEF Right
        <5>3. QED
          BY <5>1, <5>2 DEF ChainOf
      <4>3. QED
        BY <2>8, <4>2, ExtendsIsGood DEF StepOf
    <3>3. Right(m + 1)
      BY <2>6, <2>7, <2>9, <3>1, <3>2
    <3>4. QED
      BY <2>1, <2>3, <3>3
  <2>10. CASE ~Good(q, m)
    <3>1. After(q, m) = Refused
      BY <2>5, <2>10
    <3>2. After(q, m + 1) = Refused
      BY <2>6, <3>1 DEF StepOf
    <3>3. Right(m + 1)
      BY <2>7, <2>10, <3>2
    <3>4. QED
      BY <2>1, <2>3, <3>3
  <2>11. QED
    BY <2>9, <2>10
<1>2. QED
  <2>1. n \notin Bad
    BY <1>1
  <2> HIDE DEF Right
  <2>2. Right(n)
    BY <2>1
  <2>3. QED
    BY <2>2 DEF Right

Asks(a, given, scope, audience, revoked, now) ==
  [start |-> a, grants |-> given, scope |-> scope, audience |-> audience,
   revoked |-> revoked, now |-> now]

\* Who is let act for another has grants, all of them good, that end with it.
LEMMA WhoActsIsDelegated ==
  ASSUME RefusalIsNoChain, NEW G, NEW given \in Seq(G), NEW a, NEW b, NEW scope, NEW audience,
         NEW revoked, NEW now,
         Delegation!ResolveChain(a, b, scope, audience, given, revoked, now) # Refused
  PROVE  IF a = b THEN given = <<>>
         ELSE /\ given # <<>> /\ given[Len(given)].delegate = b
              /\ Good(Asks(a, given, scope, audience, revoked, now), Len(given))
<1> DEFINE q == Asks(a, given, scope, audience, revoked, now)
           chain == Delegation!FollowChain(a, given, scope, audience, revoked, now)
<1>1. (a = b => given = <<>>) /\ (a # b => given # <<>>) /\ chain # Refused /\ chain.at = b
  BY DEF Delegation!ResolveChain
<1>2. q = [start |-> a, grants |-> given, scope |-> scope, audience |-> audience,
           revoked |-> revoked, now |-> now]
  BY DEF Asks
<1> HIDE DEF q
<1>3. chain = After(q, Len(given))
  BY <1>2, ChainIsWhatFollows
<1>4. Len(given) \in Nat /\ q.grants = given
  BY <1>2
<1>5. After(q, Len(given)) = IF Good(q, Len(given)) THEN ChainOf(q, Len(given)) ELSE Refused
  BY <1>4, ChainsAreGood
<1>6. Good(q, Len(given)) /\ chain = ChainOf(q, Len(given))
  BY <1>1, <1>3, <1>5
<1>7. ASSUME a # b PROVE given[Len(given)].delegate = b
  <2>1. Len(given) # 0
    BY <1>1, <1>7
  <2>2. ChainOf(q, Len(given)).at = given[Len(given)].delegate
    BY <1>4, <2>1 DEF ChainOf
  <2>3. QED
    BY <1>1, <1>6, <2>2
<1>8. QED
  BY <1>1, <1>6, <1>7 DEF q

LEMMA ConcatIs ==
  ASSUME NEW G, NEW s \in Seq(G), NEW t \in Seq(G)
  PROVE  /\ s \o t \in Seq(G) /\ Len(s \o t) = Len(s) + Len(t)
         /\ \A j \in 1..(Len(s) + Len(t)) :
              (s \o t)[j] = IF j <= Len(s) THEN s[j] ELSE t[j - Len(s)]
OBVIOUS

LEMMA LastOrBefore ==
  ASSUME NEW n \in Nat, NEW i \in 1..n
  PROVE  i = n \/ i \in 1..(n - 1)
OBVIOUS

LEMMA RemovedIs ==
  ASSUME NEW G, NEW given \in Seq(G), NEW i \in 1..Len(given)
  PROVE  /\ Delegation!RemoveAt(given, i) \in Seq(G)
         /\ Len(Delegation!RemoveAt(given, i)) = Len(given) - 1
         /\ \A j \in 1..(Len(given) - 1) :
              Delegation!RemoveAt(given, i)[j] = IF j < i THEN given[j] ELSE given[j + 1]
<1> DEFINE s == SubSeq(given, 1, i - 1)
           t == SubSeq(given, i + 1, Len(given))
<1>0. PICK n \in Nat : n = Len(given)
  OBVIOUS
<1>1. /\ s \in Seq(G) /\ Len(s) = i - 1 /\ \A j \in 1..(i - 1) : s[j] = given[j]
  BY <1>0
<1>2. /\ t \in Seq(G) /\ Len(t) = n - i /\ \A j \in 1..(n - i) : t[j] = given[i + j]
  BY <1>0
<1> HIDE DEF s, t
<1>3. /\ s \o t \in Seq(G) /\ Len(s \o t) = (i - 1) + (n - i)
      /\ \A j \in 1..((i - 1) + (n - i)) :
           (s \o t)[j] = IF j <= i - 1 THEN s[j] ELSE t[j - (i - 1)]
  BY <1>0, <1>1, <1>2, ConcatIs
<1>4. \A j \in 1..(n - 1) : (s \o t)[j] = IF j < i THEN given[j] ELSE given[j + 1]
  <2> TAKE j \in 1..(n - 1)
  <2>1. i \in 1..n
    BY <1>0
  <2>2. CASE j < i
    BY <1>1, <1>3, <2>1, <2>2
  <2>3. CASE ~(j < i)
    <3>1. j - (i - 1) \in 1..(n - i) /\ i + (j - (i - 1)) = j + 1
      BY <2>1, <2>3
    <3>2. (s \o t)[j] = t[j - (i - 1)]
      BY <1>3, <2>1, <2>3
    <3>3. QED
      BY <1>2, <2>3, <3>1, <3>2
  <2>4. QED
    BY <2>2, <2>3
<1>5. Delegation!RemoveAt(given, i) = s \o t
  BY DEF Delegation!RemoveAt, s, t
<1>6. (i - 1) + (n - i) = n - 1
  BY <1>0
<1>7. Len(s \o t) = n - 1
  BY <1>3, <1>6
<1>8. QED
  BY <1>0, <1>3, <1>4, <1>5, <1>7

\* However long the chain of grants: a workload acts for a person only where good grants
\* lead from the one to the other, none of them revoked, run out or there twice; with any of
\* them revoked or left out it is refused (DelegationIsAPath).
THEOREM DelegationIsAlwaysAPath ==
  ASSUME RefusalIsNoChain, NEW G, \A g \in G : g.id # Missing, NEW given \in Seq(G),
         NEW a, NEW b, NEW scope, NEW audience, NEW revoked, NEW now
  PROVE  Delegation!DelegationIsAPath(a, b, scope, audience, given, revoked, now)
<1> DEFINE answer == Delegation!ResolveChain(a, b, scope, audience, given, revoked, now)
           n == Len(given)
           q == Asks(a, given, scope, audience, revoked, now)
<1>0. n \in Nat /\ DOMAIN given = 1..n
  OBVIOUS
<1>1. ASSUME NEW i \in 1..n
      PROVE  Delegation!ResolveChain(a, b, scope, audience, given,
                                     revoked \cup {given[i].id}, now) = Refused
  <2> DEFINE p == Asks(a, given, scope, audience, revoked \cup {given[i].id}, now)
  <2> SUFFICES ASSUME Delegation!ResolveChain(a, b, scope, audience, given,
                                              revoked \cup {given[i].id}, now) # Refused
               PROVE  FALSE
    OBVIOUS
  <2>1. given # <<>>
    BY <1>0
  <2>2. Good(p, n)
    BY <2>1, WhoActsIsDelegated
  <2>3. GoodAt(p, i) /\ p.grants = given /\ p.revoked = revoked \cup {given[i].id}
    BY <2>2 DEF Good, Asks
  <2>4. QED
    BY <2>3 DEF GoodAt
<1>2. ASSUME answer # Refused, a # b
      PROVE  /\ Delegation!LeadsFrom(a, b, given)
             /\ \A i \in 1..n : GoodAt(q, i)
             /\ \A i, j \in 1..n : i # j => given[i].id # given[j].id
  <2>1. given # <<>> /\ given[n].delegate = b /\ Good(q, n)
    BY <1>2, WhoActsIsDelegated
  <2>2. \A i \in 1..n : GoodAt(q, i)
    BY <2>1 DEF Good
  <2>3. q.grants = given /\ q.start = a
    BY DEF Asks
  <2> HIDE DEF q
  <2>4. n >= 1
    BY <1>0, <2>1
  <2>5. given[1].delegator = a /\ given[1].parent = Missing
    BY <1>0, <2>2, <2>3, <2>4 DEF GoodAt
  <2>6. \A i \in 1..(n - 1) :
          given[i + 1].delegator = given[i].delegate /\ given[i + 1].parent = given[i].id
    <3> TAKE i \in 1..(n - 1)
    <3>1. i + 1 \in 1..n /\ i + 1 # 1 /\ (i + 1) - 1 = i
      BY <1>0
    <3>2. QED
      BY <2>2, <2>3, <3>1 DEF GoodAt
  <2>7. \A i, j \in 1..n : i < j => given[i].id # given[j].id
    <3> TAKE i, j \in 1..n
    <3> HAVE i < j
    <3>1. i \in 1..(j - 1)
      BY <1>0
    <3>2. QED
      BY <2>2, <2>3, <3>1 DEF GoodAt
  <2>8. \A i, j \in 1..n : i # j => given[i].id # given[j].id
    BY <1>0, <2>7
  <2>9. QED
    BY <2>1, <2>2, <2>5, <2>6, <2>8 DEF Delegation!LeadsFrom, q
<1>3. ASSUME answer # Refused, a # b, NEW i \in 1..n
      PROVE  Delegation!ResolveChain(a, b, scope, audience, Delegation!RemoveAt(given, i),
                                     revoked, now) = Refused
  <2> DEFINE r == Delegation!RemoveAt(given, i)
             p == Asks(a, r, scope, audience, revoked, now)
  <2> SUFFICES ASSUME Delegation!ResolveChain(a, b, scope, audience, r, revoked, now) # Refused
               PROVE  FALSE
    OBVIOUS
  <2>1. /\ r \in Seq(G) /\ Len(r) = n - 1
        /\ \A j \in 1..(n - 1) : r[j] = IF j < i THEN given[j] ELSE given[j + 1]
    BY RemovedIs
  <2> HIDE DEF r
  <2>2. r # <<>> /\ r[n - 1].delegate = b /\ Good(p, n - 1)
    BY <1>3, <2>1, WhoActsIsDelegated
  <2>3. n - 1 >= 1
    BY <1>0, <2>1, <2>2
  <2>4. p.grants = r /\ p.start = a /\ q.grants = given
    BY DEF Asks
  <2>5. given[n].delegate = b /\ \A j \in 1..n : given[j].delegator # given[j].delegate
    BY <1>2, <1>3, <2>4 DEF Delegation!LeadsFrom, GoodAt
  <2>6. /\ given[1].delegator = a /\ given[1].parent = Missing
        /\ \A j \in 1..(n - 1) :
             given[j + 1].delegator = given[j].delegate /\ given[j + 1].parent = given[j].id
        /\ \A j, k \in 1..n : j # k => given[j].id # given[k].id
    BY <1>2, <1>3 DEF Delegation!LeadsFrom
  <2> HIDE DEF p, q
  <2>7. CASE i = n
    <3>1. r[n - 1] = given[n - 1] /\ n - 1 \in 1..(n - 1) /\ (n - 1) + 1 = n /\ n \in 1..n
      BY <1>0, <2>1, <2>3, <2>7
    <3>2. given[n].delegator = b
      BY <2>2, <2>6, <3>1
    <3>3. QED
      BY <2>5, <3>1, <3>2
  <2>8. CASE i \in 1..(n - 1)
    <3>1. r[i] = given[i + 1]
      BY <1>0, <2>1, <2>8
    <3>2. given[i + 1].parent = given[i].id
      BY <2>6, <2>8
    <3>3. GoodAt(p, i)
      BY <2>2, <2>8 DEF Good
    <3>4. CASE i = 1
      <4>1. r[i].parent = Missing
        BY <2>4, <3>3, <3>4 DEF GoodAt
      <4>2. given[i] \in G
        BY <1>0
      <4>3. QED
        BY <3>1, <3>2, <4>1, <4>2
    <3>5. CASE i # 1
      <4>1. i - 1 \in 1..(n - 1) /\ i - 1 < i /\ i - 1 \in 1..n /\ i \in 1..n /\ i - 1 # i
        BY <1>0, <2>8, <3>5
      <4>2. r[i].parent = r[i - 1].id
        BY <2>4, <3>3, <3>5 DEF GoodAt
      <4>3. r[i - 1] = given[i - 1]
        BY <2>1, <4>1
      <4>4. QED
        BY <2>6, <3>1, <3>2, <4>1, <4>2, <4>3
    <3>6. QED
      BY <3>4, <3>5
  <2>9. i = n \/ i \in 1..(n - 1)
    BY <1>0, LastOrBefore
  <2>10. QED
    BY <2>7, <2>8, <2>9
<1>4. ASSUME answer # Refused, a # b, NEW i \in 1..n
      PROVE  /\ given[i].from <= now /\ now < given[i].expires /\ given[i].id \notin revoked
             /\ given[i].scope = scope /\ given[i].audience = audience
             /\ given[i].revoked # Missing => now < given[i].revoked
             /\ Delegation!Belongs(given[i].delegate, scope)
  <2>1. GoodAt(q, i)
    BY <1>2, <1>4
  <2>2. /\ q.grants = given /\ q.scope = scope /\ q.audience = audience /\ q.revoked = revoked
        /\ q.now = now
    BY DEF Asks
  <2>3. QED
    BY <2>1, <2>2 DEF GoodAt
<1>5. QED
  BY <1>0, <1>1, <1>2, <1>3, <1>4 DEF Delegation!DelegationIsAPath
=============================================================================

--------------------- MODULE ApplicationDeploymentProofs ---------------------
(***************************************************************************)
(* Proofs about an application, while it is written and when it is         *)
(* deployed.  Of ApplicationDeployment, that it does what DeploymentPlane  *)
(* promises: ReadsHold is inductive, as a call acts on what it read, and   *)
(* the plane only ever grows, so what it read is still so while the        *)
(* revision it came with is active.  Of the canvases on which applications *)
(* are drawn (CanvasSession and CanvasCollaboration), that a draft never   *)
(* dangles, and that nobody overwrites or applies what nobody has seen.    *)
(* Of ApplicationResolution, that what is resolved is a deployment that    *)
(* was made, and no older than the question.                               *)
(***************************************************************************)
EXTENDS ApplicationDeployment, TLAPS

CONSTANTS
  FloatingVersions, Off, MaxReferences, Refused, Place, Nowhere, NoGraph, FirstDraft, Semantics,
  Editor, View,                                                     \* of one editor's canvas
  Participant, RequiredApprovals, ProposalId, Selection, MaxSequence,  \* of a shared one
  Asked, Resolver, MaxResolved                                      \* of what is resolved

VARIABLES
  draft, read,                                    \* one editor's canvas
  shared, presence, proposals, reviews, applied,  \* a shared one
  lookup, resolved                                \* requests that resolve a release

Canvas == INSTANCE CanvasSession

Shared == INSTANCE CanvasCollaboration WITH draft <- shared

Resolution == INSTANCE ApplicationResolution

\* A commit of call c appends the deployment computed from what c has read.
Append1(c) ==
  /\ history' = [history EXCEPT ![c.environment] = Append(@, Computed(c))]
  /\ active' = [active EXCEPT ![c.environment] = c.current + 1]

\* No step takes back a deployment or a registered release.
Grows ==
  /\ \A r \in Release : releases[r] # Nil => releases'[r] # Nil
  /\ \A e \in Environment :
       /\ active[e] <= active'[e]
       /\ Len(history'[e]) \in Nat /\ Len(history[e]) <= Len(history'[e])
       /\ \A i \in 1..Len(history[e]) : history'[e][i] = history[e][i]

(***************************************************************************)
(* What the calls are.                                                     *)
(***************************************************************************)

LEMMA CallTypes ==
  ASSUME TypeOK, NEW p \in Plane
  PROVE  /\ Activating(p) => call[p] \in Activation
         /\ At(p, "deprecate") => call[p] \in Deprecation
         /\ \A step \in {"artifact", "source", "current", "commit"} : At(p, step) => Activating(p)
  BY DEF TypeOK, Activation, Deprecation, Activating, At

LEMMA ReleaseTypes ==
  ASSUME PlaneTypeOK, NEW r \in Release, releases[r] # Nil
  PROVE  releases[r] \in Registered
  BY DEF PlaneTypeOK

LEMMA SourceFacts ==
  ASSUME NEW e \in Environment
  PROVE  Source(e) \in Environment /\ (e # "dev" => Source(e) # e)
  BY DEF Source, Environment

LEMMA SetFacts ==
  ASSUME TypeOK, NEW p \in Plane, NEW what, Set(p, what)
  PROVE  call'[p] = what /\ \A q \in Plane : q # p => call'[q] = call[q]
  BY DEF TypeOK, Set

\* What a commit does to the histories.
LEMMA AppendFacts ==
  ASSUME PlaneTypeOK, NEW c \in Activation, Append1(c), c.current < MaxRevision, Extends(c),
         HistoryIsAChain
  PROVE  LET e == c.environment IN
           /\ Computed(c) \in Deployment
           /\ history'[e] = Append(history[e], Computed(c))
           /\ Len(history'[e]) = Len(history[e]) + 1
           /\ history'[e][Len(history[e]) + 1] = Computed(c)
           /\ \A i \in 1..Len(history[e]) : history'[e][i] = history[e][i]
           /\ active[e] = Len(history[e])
           /\ active'[e] = Len(history[e]) + 1
           /\ c.current = Len(history[e])
           /\ \A f \in Environment : f # e => history'[f] = history[f] /\ active'[f] = active[f]
<1> DEFINE e == c.environment
           d == Computed(c)
<1>1. c.environment \in Environment /\ c.current \in Nat /\ Computed(c) \in Deployment
  BY DEF Activation, Computed, Deployment
<1>2. history[e] \in Seq(Deployment) /\ active[e] = Len(history[e]) /\ c.current = active[e]
  BY <1>1 DEF PlaneTypeOK, HistoryIsAChain, Extends
<1>3. history'[e] = Append(history[e], d) /\ active'[e] = c.current + 1
  BY <1>1 DEF PlaneTypeOK, Append1
<1>4. \A f \in Environment : f # e => history'[f] = history[f] /\ active'[f] = active[f]
  BY <1>1 DEF PlaneTypeOK, Append1
<1> HIDE DEF d, e
<1>5. /\ Len(Append(history[e], d)) = Len(history[e]) + 1
      /\ Append(history[e], d)[Len(history[e]) + 1] = d
      /\ \A i \in 1..Len(history[e]) : Append(history[e], d)[i] = history[e][i]
  BY <1>1, <1>2 DEF d
<1>6. QED
  BY <1>1, <1>2, <1>3, <1>4, <1>5 DEF d, e

(***************************************************************************)
(* What no step of another disturbs.                                       *)
(***************************************************************************)

\* The conjuncts of ReadsHold about one call.
CallHolds(p) ==
  /\ At(p, "deprecate") => releases[call[p].release] # Nil
  /\ Activating(p) =>
       LET c == call[p] IN
         /\ c.operation = "publish" => c.environment = "dev"
         /\ c.operation = "promote" => c.environment # "dev"
         /\ c.step = "artifact" => c.operation = "rollback"
         /\ c.operation = "rollback" =>
              \E i \in 1..Len(history[c.environment]) :
                /\ history[c.environment][i].release = c.release
                /\ history[c.environment][i].digest = c.digest
                /\ history[c.environment][i].binding = c.binding
         /\ c.operation = "promote" /\ c.step \in {"current", "commit"} =>
              /\ c.source <= active[Source(c.environment)]
              /\ active[Source(c.environment)] = c.source =>
                   Runs(Source(c.environment), c.release, c.digest)
  /\ At(p, "commit") =>
       LET c == call[p] IN
         /\ c.current <= active[c.environment]
         /\ active[c.environment] = c.current =>
              ~InPlace(c.environment, c.release, c.digest, c.binding)

LEMMA ReadsAreCalls ==
  ASSUME TypeOK, DeploymentsAreSound
  PROVE  ReadsHold <=> \A p \in Plane : CallHolds(p)
<1>1. ReadsHold => \A p \in Plane : CallHolds(p)
  BY DEF ReadsHold, CallHolds, DeprecatedIsRegistered, OperationFits, SourceRan, TargetDiffers
<1>2. (\A p \in Plane : CallHolds(p)) => ReadsHold
  BY DEF ReadsHold, CallHolds, DeprecatedIsRegistered, OperationFits, SourceRan, TargetDiffers
<1>3. QED
  BY <1>1, <1>2

\* An environment whose revision is the same runs what it ran.
LEMMA RunsAsBefore ==
  ASSUME PlaneTypeOK, HistoryIsAChain, Grows, NEW e \in Environment, active'[e] = active[e],
         active[e] # 0
  PROVE  history'[e][active'[e]] = history[e][active[e]]
<1>1. active[e] = Len(history[e]) /\ Len(history[e]) \in Nat
  BY DEF HistoryIsAChain, PlaneTypeOK
<1>2. QED
  BY <1>1 DEF Grows

LEMMA CallKept ==
  ASSUME ReadsHold, Grows, active' \in [Environment -> 0..MaxRevision],
         NEW p \in Plane, call'[p] = call[p]
  PROVE  CallHolds(p)'
<1> DEFINE c == call[p]
<1>0. TypeOK /\ PlaneTypeOK /\ HistoryIsAChain /\ CallHolds(p) /\ MaxRevision \in Nat
  BY ReadsAreCalls, MaxRevisionAssumption DEF ReadsHold, TypeOK, DeploymentsAreSound
<1>1. At(p, "deprecate") => releases'[c.release] # Nil
  BY <1>0, CallTypes DEF CallHolds, Grows, Deprecation
<1>2. ASSUME Activating(p) PROVE c \in Activation /\ c.environment \in Environment
  BY <1>0, <1>2, CallTypes DEF Activation
<1>3. ASSUME Activating(p), c.operation = "rollback"
      PROVE  \E i \in 1..Len(history'[c.environment]) :
               /\ history'[c.environment][i].release = c.release
               /\ history'[c.environment][i].digest = c.digest
               /\ history'[c.environment][i].binding = c.binding
  <2>1. PICK i \in 1..Len(history[c.environment]) :
          /\ history[c.environment][i].release = c.release
          /\ history[c.environment][i].digest = c.digest
          /\ history[c.environment][i].binding = c.binding
    BY <1>0, <1>3 DEF CallHolds
  <2>2. history'[c.environment][i] = history[c.environment][i]
    BY <1>2, <1>3 DEF Grows
  <2>3. i \in 1..Len(history'[c.environment])
    BY <1>0, <1>2, <1>3 DEF Grows, PlaneTypeOK
  <2>4. QED
    BY <2>1, <2>2, <2>3
<1>4. ASSUME Activating(p), c.operation = "promote", c.step \in {"current", "commit"}
      PROVE  /\ c.source <= active'[Source(c.environment)]
             /\ active'[Source(c.environment)] = c.source =>
                  Runs(Source(c.environment), c.release, c.digest)'
  <2> DEFINE s == Source(c.environment)
  <2>1. s \in Environment /\ c.source \in Nat
    BY <1>2, <1>4, SourceFacts DEF Activation
  <2>2. c.source <= active[s] /\ (active[s] = c.source => Runs(s, c.release, c.digest))
    BY <1>0, <1>4 DEF CallHolds
  <2>3. active[s] \in Nat /\ active'[s] \in Nat /\ active[s] <= active'[s]
    BY <1>0, <2>1 DEF PlaneTypeOK, Grows
  <2>4. c.source <= active'[s]
    BY <2>1, <2>2, <2>3
  <2>5. ASSUME active'[s] = c.source PROVE Runs(s, c.release, c.digest)'
    <3>1. active'[s] = active[s]
      BY <2>1, <2>2, <2>3, <2>5
    <3>2. Runs(s, c.release, c.digest)
      BY <2>2, <2>5, <3>1
    <3>3. history'[s][active'[s]] = history[s][active[s]]
      BY <1>0, <2>1, <3>1, <3>2, RunsAsBefore DEF Runs
    <3>4. QED
      BY <3>1, <3>2, <3>3 DEF Runs, Source
  <2>6. QED
    BY <2>4, <2>5 DEF Source
<1>5. ASSUME At(p, "commit")
      PROVE  /\ c.current <= active'[c.environment]
             /\ active'[c.environment] = c.current =>
                  ~InPlace(c.environment, c.release, c.digest, c.binding)'
  <2> DEFINE e == c.environment
  <2>1. e \in Environment /\ c.current \in Nat
    BY <1>0, <1>5, CallTypes DEF Activation
  <2>2. c.current <= active[e] /\ (active[e] = c.current => ~InPlace(e, c.release, c.digest, c.binding))
    BY <1>0, <1>5 DEF CallHolds
  <2>3. active[e] \in Nat /\ active'[e] \in Nat /\ active[e] <= active'[e]
    BY <1>0, <2>1 DEF PlaneTypeOK, Grows
  <2>4. c.current <= active'[e]
    BY <2>1, <2>2, <2>3
  <2>5. ASSUME active'[e] = c.current PROVE ~InPlace(e, c.release, c.digest, c.binding)'
    <3>1. active'[e] = active[e]
      BY <2>1, <2>2, <2>3, <2>5
    <3>2. ~InPlace(e, c.release, c.digest, c.binding)
      BY <2>2, <2>5, <3>1
    <3>3. active[e] # 0 => history'[e][active'[e]] = history[e][active[e]]
      BY <1>0, <2>1, <3>1, RunsAsBefore
    <3>4. QED
      BY <3>1, <3>2, <3>3 DEF InPlace, Runs
  <2>6. QED
    BY <2>4, <2>5
<1>6. /\ At(p, "deprecate")' <=> At(p, "deprecate")
      /\ At(p, "commit")' <=> At(p, "commit")
      /\ Activating(p)' <=> Activating(p)
  BY DEF At, Activating
<1>7. Activating(p) =>
        /\ c.operation = "publish" => c.environment = "dev"
        /\ c.operation = "promote" => c.environment # "dev"
        /\ c.step = "artifact" => c.operation = "rollback"
  BY <1>0 DEF CallHolds
<1> HIDE DEF c
<1>8. (At(p, "deprecate") => releases[call[p].release] # Nil)'
  BY <1>1, <1>6 DEF c
<1>9. QED
  BY <1>3, <1>4, <1>5, <1>6, <1>7, <1>8 DEF CallHolds, c

\* A step that deploys nothing, and puts call p where what it holds is so.
LEMMA QuietStep ==
  ASSUME ReadsHold, UNCHANGED <<history, active>>,
         releases' \in [Release -> Registered \cup {Nil}],
         \A r \in Release : releases[r] # Nil => releases'[r] # Nil,
         NEW p \in Plane, NEW what \in Activation \cup Deprecation \cup {Nil}, Set(p, what),
         call'[p] = what => CallHolds(p)'
  PROVE  ReadsHold'
<1>1. TypeOK /\ PlaneTypeOK /\ HistoryIsAChain
  BY DEF ReadsHold, TypeOK, DeploymentsAreSound
<1>2. TypeOK'
  BY <1>1 DEF TypeOK, PlaneTypeOK, Set
<1>3. DeploymentsAreSound'
  BY DEF ReadsHold, DeploymentsAreSound, HistoryIsAChain, EveryReleaseCameThrough
<1>4. Grows /\ active' \in [Environment -> 0..MaxRevision]
  BY <1>1, MaxRevisionAssumption DEF Grows, PlaneTypeOK
<1>5. \A q \in Plane : CallHolds(q)'
  <2>1. call'[p] = what /\ \A q \in Plane : q # p => call'[q] = call[q]
    BY <1>1, SetFacts
  <2>2. QED
    BY <1>4, <2>1, CallKept
<1>6. QED
  BY <1>2, <1>3, <1>5
     DEF ReadsHold, CallHolds, DeprecatedIsRegistered, OperationFits, SourceRan, TargetDiffers

\* A call that is answered holds nothing any more.
LEMMA Answered ==
  ASSUME NEW p \in Plane, call'[p] = Nil
  PROVE  CallHolds(p)'
  BY DEF CallHolds, At, Activating

(***************************************************************************)
(* The steps.                                                              *)
(***************************************************************************)

LEMMA InitReads == Init => ReadsHold
<1> SUFFICES ASSUME Init PROVE ReadsHold
  OBVIOUS
<1>1. TypeOK
  BY MaxRevisionAssumption DEF Init, PlaneInit, TypeOK, PlaneTypeOK
<1>2. DeploymentsAreSound
  BY DEF Init, PlaneInit, DeploymentsAreSound, HistoryIsAChain, EveryReleaseCameThrough
<1>3. \A p \in Plane : call[p] = Nil
  BY DEF Init
<1>4. QED
  BY <1>1, <1>2, <1>3
     DEF ReadsHold, At, Activating, DeprecatedIsRegistered, OperationFits, SourceRan, TargetDiffers

LEMMA RegisterTypes ==
  ASSUME PlaneTypeOK, NEW r \in Release, NEW d \in Digest,
         Register(r, d) \/ (Live(r, d) /\ UNCHANGED releases)
  PROVE  /\ releases' \in [Release -> Registered \cup {Nil}]
         /\ \A x \in Release : releases[x] # Nil => releases'[x] # Nil
<1>1. [digest |-> d, status |-> "active"] \in Registered
  BY DEF Registered
<1>2. QED
  BY <1>1, NilAssumption DEF Register, PlaneTypeOK

LEMMA StartPublishReads ==
  ASSUME ReadsHold, NEW p \in Plane, NEW r \in Release, NEW d \in Digest, NEW b \in Binding,
         StartPublish(p, r, d, b)
  PROVE  ReadsHold'
<1> DEFINE c == [step |-> "current", environment |-> "dev", operation |-> "publish", release |-> r,
                 digest |-> d, binding |-> b, source |-> 0, current |-> 0]
<1>1. c \in Activation /\ Set(p, c)
  BY DEF StartPublish, Begin, Activation, Environment
<1>2. c.step = "current" /\ c.operation = "publish" /\ c.environment = "dev"
  OBVIOUS
<1> HIDE DEF c
<1>3. call'[p] = c => CallHolds(p)'
  BY <1>2 DEF CallHolds, At
<1>4. QED
  BY <1>1, <1>3, RegisterTypes, QuietStep DEF StartPublish, ReadsHold, TypeOK

LEMMA StartPromoteReads ==
  ASSUME ReadsHold, NEW p \in Plane, NEW e \in Environment, NEW r \in Release, NEW d \in Digest,
         NEW b \in Binding, StartPromote(p, e, r, d, b)
  PROVE  ReadsHold'
<1> DEFINE c == [step |-> "source", environment |-> e, operation |-> "promote", release |-> r,
                 digest |-> d, binding |-> b, source |-> 0, current |-> 0]
<1>1. c \in Activation /\ Set(p, c)
  BY DEF StartPromote, Begin, Activation
<1>2. c.step = "source" /\ c.operation = "promote" /\ c.environment = e
  OBVIOUS
<1> HIDE DEF c
<1>3. call'[p] = c => CallHolds(p)'
  BY <1>2 DEF CallHolds, At, StartPromote
<1>4. QED
  BY <1>1, <1>3, QuietStep DEF StartPromote, ReadsHold, TypeOK, PlaneTypeOK, planeVars

LEMMA StartRollbackReads ==
  ASSUME ReadsHold, NEW p \in Plane, NEW e \in Environment, NEW i \in 1..MaxRevision,
         StartRollback(p, e, i)
  PROVE  ReadsHold'
<1> DEFINE t == history[e][i]
           c == [step |-> "artifact", environment |-> e, operation |-> "rollback",
                 release |-> t.release, digest |-> t.digest, binding |-> t.binding,
                 source |-> 0, current |-> 0]
<1>1. t \in Deployment /\ i \in 1..Len(history[e])
  BY DEF StartRollback, ReadsHold, TypeOK, PlaneTypeOK
<1>2. c \in Activation
  BY <1>1 DEF Deployment, Activation
<1>3. Set(p, c)
  BY DEF StartRollback, Begin
<1>4. /\ c.step = "artifact" /\ c.operation = "rollback" /\ c.environment = e
      /\ c.release = t.release /\ c.digest = t.digest /\ c.binding = t.binding
  OBVIOUS
<1>5. history' = history
  BY DEF StartRollback, planeVars
<1> HIDE DEF c
<1>6. call'[p] = c => CallHolds(p)'
  BY <1>1, <1>4, <1>5 DEF CallHolds, At
<1>7. QED
  BY <1>2, <1>3, <1>6, QuietStep DEF StartRollback, ReadsHold, TypeOK, PlaneTypeOK, planeVars

LEMMA StartDeprecateReads ==
  ASSUME ReadsHold, NEW p \in Plane, NEW r \in Release, StartDeprecate(p, r)
  PROVE  ReadsHold'
<1> DEFINE c == [step |-> "deprecate", release |-> r]
<1>1. c \in Deprecation /\ Set(p, c) /\ c.step = "deprecate" /\ c.release = r
  BY DEF StartDeprecate, Deprecation
<1> HIDE DEF c
<1>2. call'[p] = c => CallHolds(p)'
  BY <1>1 DEF CallHolds, At, Activating, StartDeprecate, planeVars
<1>3. QED
  BY <1>1, <1>2, QuietStep DEF StartDeprecate, ReadsHold, TypeOK, PlaneTypeOK, planeVars

LEMMA LoadTargetReads ==
  ASSUME ReadsHold, NEW p \in Plane, LoadTarget(p)
  PROVE  ReadsHold'
<1> DEFINE k == call[p]
           c == [k EXCEPT !.step = "current"]
<1>1. TypeOK /\ At(p, "artifact") /\ Activating(p) /\ k \in Activation /\ CallHolds(p)
  BY CallTypes, ReadsAreCalls DEF LoadTarget, ReadsHold
<1>2. k.operation = "rollback"
  BY <1>1 DEF CallHolds, At
<1>3. /\ c \in Activation /\ Set(p, c) /\ c.step = "current" /\ c.operation = k.operation
      /\ c.environment = k.environment /\ c.release = k.release /\ c.digest = k.digest
      /\ c.binding = k.binding
  BY <1>1 DEF Activation, LoadTarget, Goto
<1> HIDE DEF c
<1>4. call'[p] = c => CallHolds(p)'
  BY <1>1, <1>2, <1>3 DEF CallHolds, At, Activating, LoadTarget, planeVars
<1>5. QED
  BY <1>3, <1>4, QuietStep DEF LoadTarget, ReadsHold, TypeOK, PlaneTypeOK, planeVars

LEMMA ReadSourceReads ==
  ASSUME ReadsHold, NEW p \in Plane, ReadSource(p)
  PROVE  ReadsHold'
<1> DEFINE k == call[p]
           from == Source(k.environment)
           c == [k EXCEPT !.source = active[from], !.step = "current"]
<1>1. TypeOK /\ At(p, "source") /\ Activating(p) /\ k \in Activation /\ CallHolds(p)
  BY CallTypes, ReadsAreCalls DEF ReadSource, ReadsHold
<1>2. k.environment \in Environment /\ from \in Environment /\ active[from] \in Nat
  BY <1>1, SourceFacts DEF Activation, TypeOK, PlaneTypeOK
<1>3. c \in Activation
  BY <1>1, <1>2 DEF Activation
<1>4. /\ Set(p, c) /\ c.step = "current" /\ c.source = active[from]
      /\ c.operation = k.operation /\ c.environment = k.environment /\ c.release = k.release
      /\ c.digest = k.digest /\ c.binding = k.binding
  BY <1>1 DEF Activation, ReadSource
<1>5. Runs(from, k.release, k.digest) /\ history' = history /\ active' = active
  BY DEF ReadSource, planeVars
<1> HIDE DEF c
<1>6. ASSUME call'[p] = c PROVE CallHolds(p)'
  <2>1. /\ Source(c.environment) = from
        /\ active'[from] # 0
        /\ history'[from][active'[from]].release = c.release
        /\ history'[from][active'[from]].digest = c.digest
    BY <1>4, <1>5 DEF Runs
  <2>2. /\ c.operation = "publish" => c.environment = "dev"
        /\ c.operation = "promote" => c.environment # "dev"
        /\ c.operation = "rollback" =>
             \E i \in 1..Len(history'[c.environment]) :
               /\ history'[c.environment][i].release = c.release
               /\ history'[c.environment][i].digest = c.digest
               /\ history'[c.environment][i].binding = c.binding
    BY <1>1, <1>4, <1>5 DEF CallHolds
  <2>3. c.source <= active'[from]
    BY <1>2, <1>4, <1>5
  <2> HIDE DEF k, from
  <2>4. QED
    BY <1>4, <1>6, <2>1, <2>2, <2>3 DEF CallHolds, At, Activating, Runs
<1>7. QED
  BY <1>3, <1>4, <1>6, QuietStep DEF ReadSource, ReadsHold, TypeOK, PlaneTypeOK, planeVars

LEMMA ReadCurrentReads ==
  ASSUME ReadsHold, NEW p \in Plane, ReadCurrent(p)
  PROVE  ReadsHold'
<1> DEFINE k == call[p]
           e == k.environment
           c == [k EXCEPT !.current = active[e], !.step = "commit"]
<1>1. TypeOK /\ At(p, "current") /\ Activating(p) /\ k \in Activation /\ CallHolds(p)
  BY CallTypes, ReadsAreCalls DEF ReadCurrent, ReadsHold
<1>2. CASE InPlace(e, k.release, k.digest, k.binding)
  <2>1. Set(p, Nil)
    BY <1>2 DEF ReadCurrent
  <2>2. QED
    BY <1>1, <2>1, Answered, QuietStep DEF ReadCurrent, ReadsHold, TypeOK, PlaneTypeOK, planeVars
<1>3. CASE ~InPlace(e, k.release, k.digest, k.binding)
  <2>1. e \in Environment /\ active[e] \in Nat
    BY <1>1 DEF Activation, TypeOK, PlaneTypeOK
  <2>2. c \in Activation
    BY <1>1, <2>1 DEF Activation
  <2>3. /\ Set(p, c) /\ c.step = "commit" /\ c.source = k.source /\ c.current = active[e]
        /\ c.operation = k.operation /\ c.environment = e /\ c.release = k.release
        /\ c.digest = k.digest /\ c.binding = k.binding
    BY <1>1, <1>3 DEF Activation, ReadCurrent
  <2>4. history' = history /\ active' = active /\ k.step = "current"
    BY DEF ReadCurrent, planeVars, At
  <2> HIDE DEF c
  <2>5. call'[p] = c => CallHolds(p)'
    <3>1. /\ k.operation = "publish" => e = "dev"
          /\ k.operation = "promote" => e # "dev"
          /\ k.operation = "rollback" =>
               \E i \in 1..Len(history[e]) :
                 /\ history[e][i].release = k.release
                 /\ history[e][i].digest = k.digest
                 /\ history[e][i].binding = k.binding
          /\ k.operation = "promote" =>
               /\ k.source <= active[Source(e)]
               /\ active[Source(e)] = k.source => Runs(Source(e), k.release, k.digest)
      BY <1>1, <2>4 DEF CallHolds
    <3>3. SUFFICES ASSUME call'[p] = c PROVE CallHolds(p)'
      OBVIOUS
    <3>4. k.operation = "promote" =>
            /\ c.source <= active'[Source(e)]
            /\ active'[Source(e)] = c.source =>
                 /\ active'[Source(e)] # 0
                 /\ history'[Source(e)][active'[Source(e)]].release = c.release
                 /\ history'[Source(e)][active'[Source(e)]].digest = c.digest
      BY <2>3, <2>4, <3>1 DEF Runs
    <3> HIDE DEF k, e
    <3>5. active'[e] = c.current =>
            ~(/\ active'[e] # 0
              /\ history'[e][active'[e]].release = c.release
              /\ history'[e][active'[e]].digest = c.digest
              /\ history'[e][active'[e]].binding = c.binding)
      BY <1>3, <2>3, <2>4 DEF InPlace, Runs
    <3>6. QED
      BY <2>1, <2>3, <2>4, <3>1, <3>3, <3>4, <3>5 DEF CallHolds, At, InPlace, Runs, Source
  <2>6. QED
    BY <2>2, <2>3, <2>5, QuietStep DEF ReadCurrent, ReadsHold, TypeOK, PlaneTypeOK, planeVars
<1>4. QED
  BY <1>2, <1>3

LEMMA SetDeprecatedReads ==
  ASSUME ReadsHold, NEW p \in Plane, SetDeprecated(p)
  PROVE  ReadsHold'
<1> DEFINE r == call[p].release
           x == [releases[r] EXCEPT !.status = "deprecated"]
<1>1. TypeOK /\ PlaneTypeOK /\ At(p, "deprecate") /\ CallHolds(p) /\ r \in Release
  BY CallTypes, ReadsAreCalls DEF SetDeprecated, ReadsHold, TypeOK, Deprecation
<1>2. releases[r] # Nil
  BY <1>1 DEF CallHolds
<1>3. releases[r] \in Registered
  BY <1>1, <1>2 DEF PlaneTypeOK
<1>4. x \in Registered
  BY <1>3 DEF Registered
<1>5. releases' = [releases EXCEPT ![r] = x]
  BY DEF SetDeprecated
<1> HIDE DEF x
<1>6. /\ releases' \in [Release -> Registered \cup {Nil}]
      /\ \A y \in Release : releases[y] # Nil => releases'[y] # Nil
  BY <1>1, <1>4, <1>5, NilAssumption DEF PlaneTypeOK
<1>7. QED
  BY <1>6, Answered, QuietStep DEF SetDeprecated

LEMMA FailReads ==
  ASSUME ReadsHold, NEW p \in Plane, Fail(p)
  PROVE  ReadsHold'
  BY Answered, QuietStep DEF Fail, ReadsHold, TypeOK, PlaneTypeOK, planeVars

\* The deployment that a commit appends.
LEMMA CommitFacts ==
  ASSUME ReadsHold, NEW p \in Plane, CommitDeployment(p)
  PROVE  LET c == call[p] IN
           /\ c \in Activation /\ CallHolds(p) /\ At(p, "commit") /\ Activating(p)
           /\ Append1(c) /\ c.current < MaxRevision /\ Committable(c) /\ Extends(c)
  BY CallTypes, ReadsAreCalls DEF CommitDeployment, Append1, Committable, ReadsHold, TypeOK

LEMMA CommitGrows ==
  ASSUME ReadsHold, NEW p \in Plane, CommitDeployment(p)
  PROVE  Grows /\ active' \in [Environment -> 0..MaxRevision]
<1> DEFINE c == call[p]
           e == c.environment
<1>1. TypeOK /\ PlaneTypeOK /\ HistoryIsAChain
  BY DEF ReadsHold, TypeOK, DeploymentsAreSound
<1>2. c \in Activation /\ Append1(c) /\ c.current < MaxRevision /\ Extends(c)
  BY CommitFacts
<1>3. e \in Environment /\ c.current \in Nat /\ MaxRevision \in Nat
  BY <1>2, MaxRevisionAssumption DEF Activation
<1>4. active' \in [Environment -> 0..MaxRevision]
  BY <1>1, <1>2, <1>3 DEF PlaneTypeOK, Append1
<1>5. ASSUME NEW f \in Environment
      PROVE  /\ active[f] <= active'[f]
             /\ Len(history'[f]) \in Nat /\ Len(history[f]) <= Len(history'[f])
             /\ \A i \in 1..Len(history[f]) : history'[f][i] = history[f][i]
  <2>1. Len(history[f]) \in Nat /\ active[f] \in Nat
    BY <1>1, MaxRevisionAssumption DEF PlaneTypeOK
  <2>2. CASE f = e
    BY <1>1, <1>2, <2>1, <2>2, AppendFacts, SMTT(30)
  <2>3. CASE f # e
    BY <1>1, <1>2, <2>1, <2>3, AppendFacts
  <2>4. QED
    BY <2>2, <2>3
<1>6. QED
  BY <1>4, <1>5 DEF Grows, CommitDeployment

\* A chain is extended by the revision that follows.
LEMMA CommitChain ==
  ASSUME ReadsHold, NEW p \in Plane, CommitDeployment(p)
  PROVE  HistoryIsAChain'
<1> DEFINE c == call[p]
           e == c.environment
<1>1. PlaneTypeOK /\ HistoryIsAChain /\ c \in Activation /\ Append1(c) /\ c.current < MaxRevision
      /\ Extends(c)
  BY CommitFacts DEF ReadsHold, TypeOK, DeploymentsAreSound
<1>2. ASSUME NEW f \in Environment
      PROVE  /\ active'[f] = Len(history'[f])
             /\ \A i \in 1..Len(history'[f]) :
                  history'[f][i].revision = i /\ history'[f][i].previous = i - 1
  <2>1. Len(history[f]) \in Nat
    BY <1>1 DEF PlaneTypeOK
  <2>2. /\ active[f] = Len(history[f])
        /\ \A i \in 1..Len(history[f]) :
             history[f][i].revision = i /\ history[f][i].previous = i - 1
    BY <1>1 DEF HistoryIsAChain
  <2>3. CASE f = e
    <3>1. /\ Len(history'[f]) = Len(history[f]) + 1
          /\ history'[f][Len(history[f]) + 1] = Computed(c)
          /\ \A i \in 1..Len(history[f]) : history'[f][i] = history[f][i]
          /\ active'[f] = Len(history[f]) + 1 /\ c.current = Len(history[f])
      BY <1>1, <2>3, AppendFacts
    <3>2. Computed(c).revision = Len(history[f]) + 1 /\ Computed(c).previous = Len(history[f])
      BY <3>1 DEF Computed
    <3>3. ASSUME NEW i \in 1..(Len(history[f]) + 1)
          PROVE  history'[f][i].revision = i /\ history'[f][i].previous = i - 1
      <4>1. CASE i = Len(history[f]) + 1
        BY <2>1, <3>1, <3>2, <4>1
      <4>2. CASE i # Len(history[f]) + 1
        <5>1. i \in 1..Len(history[f])
          BY <2>1, <4>2
        <5>2. history'[f][i] = history[f][i]
          BY <3>1, <5>1
        <5>3. QED
          BY <2>2, <5>1, <5>2
      <4>3. QED
        BY <4>1, <4>2
    <3>4. QED
      BY <3>1, <3>3
  <2>4. CASE f # e
    BY <1>1, <2>2, <2>4, AppendFacts
  <2>5. QED
    BY <2>3, <2>4
<1>3. QED
  BY <1>2 DEF HistoryIsAChain

\* The release r with digest d was in the environment before e.
CameThrough(e, r, d) == \E j \in 1..Len(history[Source(e)]) :
  history[Source(e)][j].release = r /\ history[Source(e)][j].digest = d

LEMMA CommitCameThrough ==
  ASSUME ReadsHold, NEW p \in Plane, CommitDeployment(p)
  PROVE  EveryReleaseCameThrough'
<1> DEFINE c == call[p]
           e == c.environment
<1>1. /\ PlaneTypeOK /\ HistoryIsAChain /\ c \in Activation /\ Append1(c) /\ c.current < MaxRevision
      /\ Extends(c) /\ Committable(c) /\ CallHolds(p) /\ Activating(p) /\ At(p, "commit") /\ Grows
  BY CommitFacts, CommitGrows DEF ReadsHold, TypeOK, DeploymentsAreSound
<1>2. \A f \in Environment \ {"dev"} : \A i \in 1..Len(history[f]) :
        CameThrough(f, history[f][i].release, history[f][i].digest)
  BY DEF ReadsHold, DeploymentsAreSound, EveryReleaseCameThrough, CameThrough
<1>3. e # "dev" => CameThrough(e, c.release, c.digest)
  <2>1. SUFFICES ASSUME e # "dev" PROVE CameThrough(e, c.release, c.digest)
    OBVIOUS
  <2>2. e \in Environment /\ Source(e) \in Environment /\ c.operation \in {"publish", "promote", "rollback"}
        /\ c.step = "commit"
    BY <1>1, SourceFacts DEF Activation, At
  <2>3. CASE c.operation = "publish"
    BY <1>1, <2>1, <2>3 DEF CallHolds
  <2>4. CASE c.operation = "promote"
    <3>1. active[Source(e)] = c.source
      BY <1>1, <2>4 DEF Committable, SourceHolds
    <3>2. Runs(Source(e), c.release, c.digest)
      BY <1>1, <2>2, <2>4, <3>1 DEF CallHolds
    <3>3. active[Source(e)] \in 1..Len(history[Source(e)])
      BY <1>1, <2>2, <3>2, MaxRevisionAssumption DEF HistoryIsAChain, Runs, PlaneTypeOK
    <3>4. QED
      BY <3>2, <3>3 DEF CameThrough, Runs
  <2>5. CASE c.operation = "rollback"
    <3>1. PICK i \in 1..Len(history[e]) :
            history[e][i].release = c.release /\ history[e][i].digest = c.digest
      BY <1>1, <2>5 DEF CallHolds
    <3>2. CameThrough(e, history[e][i].release, history[e][i].digest)
      BY <1>2, <2>1, <2>2
    <3>3. QED
      BY <3>1, <3>2
  <2>6. QED
    BY <2>2, <2>3, <2>4, <2>5
<1>4. ASSUME NEW f \in Environment \ {"dev"}, NEW i \in 1..Len(history'[f])
      PROVE  \E j \in 1..Len(history'[Source(f)]) :
               /\ history'[Source(f)][j].release = history'[f][i].release
               /\ history'[Source(f)][j].digest = history'[f][i].digest
  <2>1. Source(f) \in Environment /\ Len(history[f]) \in Nat /\ Len(history[Source(f)]) \in Nat
    BY <1>1, SourceFacts DEF PlaneTypeOK
  <2>2. CameThrough(f, history'[f][i].release, history'[f][i].digest)
    <3>1. CASE i \in 1..Len(history[f])
      <4>1. history'[f][i] = history[f][i]
        BY <1>1, <3>1 DEF Grows
      <4>2. QED
        BY <1>2, <3>1, <4>1
    <3>2. CASE i \notin 1..Len(history[f])
      <4>1. f = e
        BY <1>1, <3>2, AppendFacts
      <4>2. i = Len(history[f]) + 1 /\ history'[f][i] = Computed(c)
        BY <1>1, <2>1, <3>2, <4>1, AppendFacts, SMTT(30)
      <4>3. Computed(c).release = c.release /\ Computed(c).digest = c.digest
        BY DEF Computed
      <4>4. QED
        BY <1>3, <4>1, <4>2, <4>3
    <3>3. QED
      BY <3>1, <3>2
  <2>3. PICK j \in 1..Len(history[Source(f)]) :
          /\ history[Source(f)][j].release = history'[f][i].release
          /\ history[Source(f)][j].digest = history'[f][i].digest
    BY <2>2 DEF CameThrough
  <2>4. j \in 1..Len(history'[Source(f)]) /\ history'[Source(f)][j] = history[Source(f)][j]
    BY <1>1, <2>1 DEF Grows
  <2>5. QED
    BY <2>3, <2>4
<1>5. QED
  BY <1>4 DEF EveryReleaseCameThrough, Source

LEMMA CommitReads ==
  ASSUME ReadsHold, NEW p \in Plane, CommitDeployment(p)
  PROVE  ReadsHold'
<1> DEFINE c == call[p]
           e == c.environment
<1>1. /\ TypeOK /\ PlaneTypeOK /\ HistoryIsAChain /\ c \in Activation /\ Append1(c)
      /\ c.current < MaxRevision /\ Extends(c) /\ Set(p, Nil)
  BY CommitFacts DEF ReadsHold, TypeOK, DeploymentsAreSound, CommitDeployment
<1>2. Grows /\ active' \in [Environment -> 0..MaxRevision]
  BY CommitGrows
<1>3. e \in Environment /\ Computed(c) \in Deployment
  BY <1>1, AppendFacts DEF Activation
<1>4. history' \in [Environment -> Seq(Deployment)]
  <2>1. Append(history[e], Computed(c)) \in Seq(Deployment)
    BY <1>1, <1>3 DEF PlaneTypeOK
  <2>2. QED
    BY <1>1, <2>1 DEF PlaneTypeOK, Append1
<1>5. releases' = releases
  BY DEF CommitDeployment
<1>6. TypeOK'
  BY <1>1, <1>2, <1>4, <1>5 DEF TypeOK, PlaneTypeOK, Set
<1>7. DeploymentsAreSound'
  BY CommitChain, CommitCameThrough DEF DeploymentsAreSound
<1>8. \A q \in Plane : CallHolds(q)'
  <2>1. call'[p] = Nil /\ \A q \in Plane : q # p => call'[q] = call[q]
    BY <1>1, SetFacts
  <2>2. QED
    BY <1>2, <2>1, Answered, CallKept
<1>9. QED
  BY <1>6, <1>7, <1>8
     DEF ReadsHold, CallHolds, DeprecatedIsRegistered, OperationFits, SourceRan, TargetDiffers

LEMMA NextReads == ReadsHold /\ [Next]_vars => ReadsHold'
<1> SUFFICES ASSUME ReadsHold, [Next]_vars PROVE ReadsHold'
  OBVIOUS
<1>1. CASE UNCHANGED vars
  <2>1. TypeOK' /\ DeploymentsAreSound'
    BY <1>1 DEF vars, planeVars, ReadsHold, TypeOK, PlaneTypeOK, DeploymentsAreSound,
         HistoryIsAChain, EveryReleaseCameThrough
  <2>2. DeprecatedIsRegistered'
    BY <1>1 DEF vars, planeVars, ReadsHold, DeprecatedIsRegistered, At
  <2>3. OperationFits'
    BY <1>1 DEF vars, planeVars, ReadsHold, OperationFits, Activating
  <2>4. SourceRan'
    BY <1>1 DEF vars, planeVars, ReadsHold, SourceRan, Activating, Runs
  <2>5. TargetDiffers'
    BY <1>1 DEF vars, planeVars, ReadsHold, TargetDiffers, At, InPlace, Runs
  <2>6. QED
    BY <2>1, <2>2, <2>3, <2>4, <2>5 DEF ReadsHold
<1>2. CASE Next
  BY <1>2, StartPublishReads, StartPromoteReads, StartRollbackReads, StartDeprecateReads,
     LoadTargetReads, ReadSourceReads, ReadCurrentReads, CommitReads, SetDeprecatedReads, FailReads
     DEF Next
<1>3. QED
  BY <1>1, <1>2

(***************************************************************************)
(* The theorems.                                                           *)
(***************************************************************************)

\* What a call has read was so, and is so while its revision is active.
THEOREM ReadsHoldAlways == Spec => []ReadsHold
  BY InitReads, NextReads, PTL DEF Spec

\* The releases, the histories and the calls stay what their types say.
THEOREM TypeCorrect == Spec => []TypeOK
  BY ReadsHoldAlways, PTL DEF ReadsHold

\* However many processes commit what they computed from a read they share,
\* a history has no gap and production is reached through staging.
THEOREM DeploymentsAreSoundAlways == Spec => []DeploymentsAreSound
  BY ReadsHoldAlways, PTL DEF ReadsHold

\* A commit reads the release's status again: none goes to a deprecated one.
THEOREM NothingDeprecatedIsActivated == Spec => NoDeprecatedActivation
<1> DEFINE Kept == \A e \in Environment : active'[e] # active[e] =>
                    LET d == history'[e][active'[e]] IN Live(d.release, d.digest)
<1>1. ASSUME ReadsHold, Next PROVE Kept
  <2>1. CASE UNCHANGED active
    BY <2>1
  <2>2. ASSUME NEW p \in Plane, CommitDeployment(p) PROVE Kept
    <3> DEFINE c == call[p]
    <3>1. /\ PlaneTypeOK /\ HistoryIsAChain /\ c \in Activation /\ Append1(c)
          /\ c.current < MaxRevision /\ Extends(c) /\ Committable(c)
      BY <1>1, <2>2, CommitFacts DEF ReadsHold, TypeOK, DeploymentsAreSound
    <3>2. Computed(c).release = c.release /\ Computed(c).digest = c.digest
      BY DEF Computed
    <3>3. ASSUME NEW e \in Environment, active'[e] # active[e]
          PROVE  Live(history'[e][active'[e]].release, history'[e][active'[e]].digest)
      <4>1. e = c.environment
        BY <3>1, <3>3, AppendFacts
      <4>2. history'[e][active'[e]] = Computed(c)
        BY <3>1, <4>1, AppendFacts
      <4>3. QED
        BY <3>1, <3>2, <4>2 DEF Committable
    <3>4. QED
      BY <3>3
  <2>3. UNCHANGED active \/ \E p \in Plane : CommitDeployment(p)
    BY <1>1 DEF Next, StartPublish, StartPromote, StartRollback, StartDeprecate, LoadTarget,
         ReadSource, ReadCurrent, SetDeprecated, Fail, planeVars
  <2>4. QED
    BY <2>1, <2>2, <2>3
<1>2. ReadsHold /\ [Next]_vars => [Kept]_vars
  BY <1>1
<1>3. QED
  BY <1>2, ReadsHoldAlways, PTL DEF Spec, NoDeprecatedActivation

(***************************************************************************)
(* The processes together implement the plane in memory: a publication     *)
(* registers where its call starts, a deployment happens at its commit,    *)
(* and every other step stutters.                                          *)
(***************************************************************************)

LEMMA CommitDeploys ==
  ASSUME ReadsHold, NEW p \in Plane, CommitDeployment(p)
  PROVE  PlaneNext
<1> DEFINE c == call[p]
           e == c.environment
<1>1. /\ PlaneTypeOK /\ c \in Activation /\ Append1(c) /\ c.current < MaxRevision /\ Extends(c)
      /\ Committable(c) /\ CallHolds(p) /\ At(p, "commit") /\ Activating(p) /\ HistoryIsAChain
  BY CommitFacts DEF ReadsHold, TypeOK, DeploymentsAreSound
<1>2. /\ e \in Environment /\ c.release \in Release /\ c.digest \in Digest /\ c.binding \in Binding
      /\ c.operation \in {"publish", "promote", "rollback"} /\ c.step = "commit"
  BY <1>1 DEF Activation, At
<1>3. ASSUME NEW operation, c.operation = operation
      PROVE  Deploy(e, c.release, c.digest, c.binding, operation)
  <2>1. active[e] = c.current
    BY <1>1 DEF Extends
  <2>2. ~InPlace(e, c.release, c.digest, c.binding)
    BY <1>1, <2>1 DEF CallHolds
  <2>3. NextDeployment(e, c.release, c.digest, c.binding, operation) = Computed(c)
    BY <1>3, <2>1 DEF NextDeployment, Computed
  <2>4. history' = [history EXCEPT ![e] =
                      Append(@, NextDeployment(e, c.release, c.digest, c.binding, operation))]
    BY <1>1, <2>3 DEF Append1
  <2>5. active' = [active EXCEPT ![e] = @ + 1]
    BY <1>1, <2>1 DEF Append1
  <2>6. QED
    BY <1>1, <2>1, <2>2, <2>4, <2>5 DEF Deploy
<1>4. Live(c.release, c.digest) /\ UNCHANGED releases
  BY <1>1 DEF Committable, CommitDeployment
<1>5. CASE c.operation = "publish"
  <2>1. e = "dev"
    BY <1>1, <1>5 DEF CallHolds
  <2>2. Publish(c.release, c.digest, c.binding)
    BY <1>3, <1>4, <1>5, <2>1 DEF Publish
  <2>3. QED
    BY <1>2, <2>2 DEF PlaneNext
<1>6. CASE c.operation = "promote"
  <2>1. e # "dev"
    BY <1>1, <1>6 DEF CallHolds
  <2>2. active[Source(e)] = c.source
    BY <1>1, <1>6 DEF Committable, SourceHolds
  <2>3. Runs(Source(e), c.release, c.digest)
    BY <1>1, <1>2, <1>6, <2>2 DEF CallHolds
  <2>4. Promote(e, c.release, c.digest, c.binding)
    BY <1>3, <1>4, <1>6, <2>1, <2>3 DEF Promote
  <2>5. QED
    BY <1>2, <2>4 DEF PlaneNext
<1>7. CASE c.operation = "rollback"
  <2>1. PICK i \in 1..Len(history[e]) :
          /\ history[e][i].release = c.release
          /\ history[e][i].digest = c.digest
          /\ history[e][i].binding = c.binding
    BY <1>1, <1>7 DEF CallHolds
  <2>2. Len(history[e]) \in 0..MaxRevision
    BY <1>1, <1>2 DEF HistoryIsAChain, PlaneTypeOK
  <2>3. i \in 1..MaxRevision
    BY <2>2, MaxRevisionAssumption
  <2>4. Rollback(e, i)
    BY <1>3, <1>4, <1>7, <2>1 DEF Rollback
  <2>5. QED
    BY <1>2, <2>3, <2>4 DEF PlaneNext
<1>8. QED
  BY <1>2, <1>5, <1>6, <1>7

LEMMA StepsMap == ReadsHold /\ [Next]_vars => [PlaneNext]_planeVars
<1> SUFFICES ASSUME ReadsHold, [Next]_vars PROVE [PlaneNext]_planeVars
  OBVIOUS
<1>1. ASSUME NEW p \in Plane, NEW r \in Release, NEW d \in Digest, NEW b \in Binding,
             StartPublish(p, r, d, b)
      PROVE  [PlaneNext]_planeVars
  BY <1>1 DEF StartPublish, PlaneNext, PublishUndeployed, planeVars
<1>2. ASSUME NEW p \in Plane, SetDeprecated(p) PROVE PlaneNext
  <2>1. /\ TypeOK /\ At(p, "deprecate") /\ call[p].release \in Release
        /\ releases[call[p].release] # Nil
    BY <1>2, CallTypes DEF SetDeprecated, ReadsHold, DeprecatedIsRegistered, Deprecation
  <2>2. Deprecate(call[p].release)
    BY <1>2, <2>1 DEF SetDeprecated, Deprecate
  <2>3. QED
    BY <2>1, <2>2 DEF PlaneNext
<1>3. CASE UNCHANGED vars
  BY <1>3 DEF vars
<1>4. CASE Next
  BY <1>1, <1>2, <1>4, CommitDeploys
     DEF Next, StartPromote, StartRollback, StartDeprecate, LoadTarget, ReadSource, ReadCurrent, Fail
<1>5. QED
  BY <1>3, <1>4

\* Several processes, each of whose calls is a chain of transactions, do what
\* one process with single steps may do.
THEOREM Refinement == Spec => PlaneSpec
<1>1. Init => PlaneInit
  BY DEF Init
<1>2. QED
  BY <1>1, StepsMap, ReadsHoldAlways, PTL DEF Spec, PlaneSpec

-----------------------------------------------------------------------------
(* The mutation session of a canvas.                                          *)
\* Who has read the revision that is current has read the draft that is current.
CanvasHolds ==
  /\ Canvas!DraftIsValid(draft)
  /\ DOMAIN read = Editor
  /\ \A e \in Editor :
       /\ read[e].revision \in Nat /\ read[e].revision <= draft.revision
       /\ read[e].revision = draft.revision => read[e] = draft

LEMMA CanvasInitHolds == ASSUME Canvas!Init PROVE CanvasHolds
BY DEF Canvas!Init, CanvasHolds, Canvas!DraftIsValid

\* Every edit commits one candidate, or is no edit.
LEMMA EditsCommit ==
  ASSUME Canvas!Next
  PROVE  \E e \in Editor : Canvas!Read(e) \/ \E s, p : Canvas!Commit(e, s, p)
<1> PICK e \in Editor :
      \/ Canvas!Read(e)
      \/ \E s \in Semantics : Canvas!ReplaceSemantics(e, s)
      \/ \E r \in Canvas!KnownRefs \cup {NoGraph} : Canvas!SetActiveGraph(e, r)
      \/ \E v \in View : Canvas!UpsertGraphView(e, v)
      \/ \E r \in Canvas!KnownRefs : Canvas!RemoveGraphView(e, r)
      \/ \E r \in Canvas!KnownRefs, n \in Canvas!KnownNodes, p \in Place \cup {Nowhere} :
           Canvas!SetNodeLayout(e, r, n, p)
      \/ \E r \in Canvas!KnownRefs, p \in Place \cup {Nowhere} : Canvas!SetViewport(e, r, p)
      \/ \E r \in Canvas!KnownRefs, s \in Canvas!Selections : Canvas!SetSelection(e, r, s)
  BY DEF Canvas!Next
<1>1. CASE Canvas!Read(e)
  BY <1>1
<1>2. ASSUME NEW s, Canvas!ReplaceSemantics(e, s) PROVE \E t, p : Canvas!Commit(e, t, p)
  BY <1>2 DEF Canvas!ReplaceSemantics
<1>3. ASSUME NEW r, Canvas!SetActiveGraph(e, r) PROVE \E t, p : Canvas!Commit(e, t, p)
  BY <1>3 DEF Canvas!SetActiveGraph
<1>4. ASSUME NEW v, Canvas!UpsertGraphView(e, v) PROVE \E t, p : Canvas!Commit(e, t, p)
  BY <1>4 DEF Canvas!UpsertGraphView
<1>5. ASSUME NEW r, Canvas!RemoveGraphView(e, r) PROVE \E t, p : Canvas!Commit(e, t, p)
  BY <1>5 DEF Canvas!RemoveGraphView
<1>6. ASSUME NEW r, NEW n, NEW p, Canvas!SetNodeLayout(e, r, n, p)
      PROVE  \E t, q : Canvas!Commit(e, t, q)
  BY <1>6 DEF Canvas!SetNodeLayout, Canvas!ChangeView
<1>7. ASSUME NEW r, NEW p, Canvas!SetViewport(e, r, p) PROVE \E t, q : Canvas!Commit(e, t, q)
  BY <1>7 DEF Canvas!SetViewport, Canvas!ChangeView
<1>8. ASSUME NEW r, NEW s, Canvas!SetSelection(e, r, s) PROVE \E t, q : Canvas!Commit(e, t, q)
  BY <1>8 DEF Canvas!SetSelection, Canvas!ChangeView
<1>9. QED
  BY <1>1, <1>2, <1>3, <1>4, <1>5, <1>6, <1>7, <1>8

LEMMA CommitsHold ==
  ASSUME CanvasHolds, NEW e \in Editor, NEW s, NEW p, Canvas!Commit(e, s, p)
  PROVE  CanvasHolds' /\ read[e] = draft /\ read'[e] = draft'
<1> DEFINE next == [revision |-> draft.revision + 1, semantics |-> s, projection |-> p]
<1>1. /\ read[e].revision = draft.revision /\ Canvas!DraftIsValid(next) /\ draft' = next
      /\ read' = [read EXCEPT ![e] = next]
  BY DEF Canvas!Commit
<1>2. draft.revision \in Nat /\ next.revision = draft.revision + 1
  BY DEF CanvasHolds, Canvas!DraftIsValid
<1> HIDE DEF next
<1>3. DOMAIN read' = Editor /\ \A f \in Editor : read'[f] = IF f = e THEN next ELSE read[f]
  BY <1>1 DEF CanvasHolds
<1>4. Canvas!DraftIsValid(draft)'
  BY <1>1 DEF Canvas!DraftIsValid
<1>5. ASSUME NEW f \in Editor
      PROVE  /\ read'[f].revision \in Nat /\ read'[f].revision <= draft'.revision
             /\ read'[f].revision = draft'.revision => read'[f] = draft'
  <2>1. read[f].revision \in Nat /\ read[f].revision <= draft.revision
    BY DEF CanvasHolds
  <2>2. QED
    BY <1>1, <1>2, <1>3, <2>1
<1>6. CanvasHolds'
  BY <1>3, <1>4, <1>5 DEF CanvasHolds
<1>7. read[e] = draft /\ read'[e] = draft'
  BY <1>1, <1>3 DEF CanvasHolds
<1>8. QED
  BY <1>6, <1>7

\* The draft of a session is always one its parser accepts.
THEOREM CanvasHoldsAlways == Canvas!Spec => []CanvasHolds
<1>1. ASSUME CanvasHolds, [Canvas!Next]_(Canvas!vars) PROVE CanvasHolds'
  <2>1. CASE UNCHANGED Canvas!vars
    BY <1>1, <2>1 DEF Canvas!vars, CanvasHolds, Canvas!DraftIsValid
  <2>2. ASSUME NEW e \in Editor, Canvas!Read(e) PROVE CanvasHolds'
    BY <1>1, <2>2 DEF Canvas!Read, CanvasHolds, Canvas!DraftIsValid
  <2>3. QED
    BY <1>1, <2>1, <2>2, EditsCommit, CommitsHold
<1>2. QED
  BY <1>1, CanvasInitHolds, PTL DEF Canvas!Spec

\* A graph that a reference names is one of the semantics.
LEMMA GraphIsThere ==
  ASSUME NEW semantics, NEW ref \in Canvas!Refs(semantics)
  PROVE  /\ Canvas!GraphAt(semantics, ref) \in Canvas!Range(semantics.graphs)
         /\ Canvas!Ref(Canvas!GraphAt(semantics, ref)) = ref
<1> DEFINE graphs == semantics.graphs
           i == CHOOSE i \in DOMAIN graphs : Canvas!Ref(graphs[i]) = ref
<1>1. \E n \in DOMAIN graphs : Canvas!Ref(graphs[n]) = ref
  BY DEF Canvas!Refs
<1>2. i \in DOMAIN graphs /\ Canvas!Ref(graphs[i]) = ref
  BY <1>1
<1>3. Canvas!GraphAt(semantics, ref) = graphs[i]
  BY DEF Canvas!GraphAt
<1> HIDE DEF i
<1>4. QED
  BY <1>2, <1>3 DEF Canvas!Range

\* Whatever editors do, a view, its layouts and its selection name nodes and
\* edges of a graph of the current semantics, and an action a graph uses is one
\* that the package binds.
THEOREM NothingEverDangles == Canvas!Spec => []Canvas!NothingDangles
<1> DEFINE s == draft.semantics
           v == draft.projection.views
<1>1. ASSUME CanvasHolds, NEW i \in DOMAIN v
      PROVE  \E g \in Canvas!Range(s.graphs) :
               /\ Canvas!Ref(g) = v[i].ref
               /\ {v[i].layouts[k].node : k \in DOMAIN v[i].layouts}
                    \cup Canvas!Range(v[i].selection.nodes) \subseteq Canvas!NodeIds(g)
               /\ Canvas!Range(v[i].selection.edges) \subseteq Canvas!EdgeIds(g)
  <2> DEFINE g == Canvas!GraphAt(s, v[i].ref)
  <2>1. Canvas!ViewIsValid(v[i], s)
    BY <1>1 DEF CanvasHolds, Canvas!DraftIsValid, Canvas!ProjectionIsValid
  <2>2. /\ v[i].ref \in Canvas!Refs(s) /\ Canvas!LayoutsAreValid(v[i].layouts, g)
        /\ Canvas!SelectionIsValid(v[i].selection, g)
    BY <2>1 DEF Canvas!ViewIsValid
  <2>3. g \in Canvas!Range(s.graphs) /\ Canvas!Ref(g) = v[i].ref
    BY <2>2, GraphIsThere
  <2> HIDE DEF g
  <2>4. QED
    BY <2>2, <2>3 DEF Canvas!LayoutsAreValid, Canvas!SelectionIsValid
<1>2. ASSUME CanvasHolds, NEW g \in Canvas!Range(s.graphs)
      PROVE  Canvas!ActionsOf(g) \subseteq Canvas!Range(s.application.actions)
  <2>1. Canvas!ActionClosure(s)
    BY <1>2 DEF CanvasHolds, Canvas!DraftIsValid, Canvas!SemanticsAreValid
  <2>2. PICK i \in DOMAIN s.graphs : g = s.graphs[i]
    BY <1>2 DEF Canvas!Range
  <2>3. QED
    BY <2>1, <2>2 DEF Canvas!ActionClosure
<1>3. ASSUME CanvasHolds, draft.projection.active # NoGraph
      PROVE  \E g \in Canvas!Range(s.graphs) : Canvas!Ref(g) = draft.projection.active
  <2>1. draft.projection.active \in Canvas!Refs(s)
    BY <1>3 DEF CanvasHolds, Canvas!DraftIsValid, Canvas!ProjectionIsValid
  <2>2. QED
    BY <2>1, GraphIsThere
<1>4. CanvasHolds => Canvas!NothingDangles
  BY <1>1, <1>2, <1>3 DEF Canvas!NothingDangles
<1>5. QED
  BY <1>4, CanvasHoldsAlways, PTL

\* No edit writes over one its editor has not seen.
THEOREM NothingUnseenIsOverwritten == Canvas!Spec => Canvas!NoUnseenOverwrite
<1> DEFINE Seen == draft' # draft => \E e \in Editor : read[e] = draft /\ read'[e] = draft'
<1>1. ASSUME CanvasHolds, [Canvas!Next]_(Canvas!vars) PROVE [Seen]_(Canvas!vars)
  <2>1. CASE UNCHANGED Canvas!vars
    BY <2>1
  <2>2. ASSUME NEW e \in Editor, Canvas!Read(e) PROVE Seen
    BY <2>2 DEF Canvas!Read
  <2>3. QED
    BY <1>1, <2>1, <2>2, EditsCommit, CommitsHold
<1>2. QED
  BY <1>1, CanvasHoldsAlways, PTL DEF Canvas!Spec, Canvas!NoUnseenOverwrite

-----------------------------------------------------------------------------
(* The shared canvas.                                                         *)
\* A proposal changes the semantics of the revision it was made for, of the same
\* application; a compatible one fits the projection, which no proposal changes.
ProposalHolds(p) ==
  /\ p.base <= shared.revision
  /\ p.base = shared.revision => p.from = shared.semantics
  /\ p.to.application.identity = p.from.application.identity
  /\ p.compatible => /\ Shared!SemanticsAreValid(p.to)
                     /\ Shared!ProjectionIsValid(shared.projection, p.to)

\* What was applied met the shared it was made for, and its peers had agreed.
AppliedHolds(a) ==
  /\ a.id \in DOMAIN proposals
  /\ proposals[a.id].base = a.met.revision /\ a.met.revision < shared.revision
  /\ proposals[a.id].from = a.met.semantics
  /\ proposals[a.id].author \notin DOMAIN a.reviews
  /\ \A r \in DOMAIN a.reviews : a.reviews[r] = "approve"
  /\ Shared!Cardinality(DOMAIN a.reviews) >= RequiredApprovals

CollaborationHolds ==
  /\ Shared!TypeOK
  /\ Shared!DraftIsValid(shared)
  /\ Shared!PresenceIsSomewhere
  /\ \A i \in DOMAIN proposals :
       ProposalHolds(proposals[i]) /\ proposals[i].author \notin DOMAIN reviews[i]
  /\ \A k \in DOMAIN applied : AppliedHolds(applied[k])
  /\ \A j, k \in DOMAIN applied : j < k => applied[j].met.revision < applied[k].met.revision

LEMMA CollaborationInitHolds ==
  ASSUME Shared!CollaborationConstants, Shared!Init PROVE CollaborationHolds
<1>1. /\ DOMAIN presence = {} /\ DOMAIN proposals = {} /\ DOMAIN reviews = {}
      /\ applied = <<>> /\ DOMAIN applied = {}
  BY DEF Shared!Init
<1>2. shared \in Shared!SharedDraft /\ Shared!DraftIsValid(shared)
  BY DEF Shared!Init, Shared!CollaborationConstants
<1>3. Shared!TypeOK
  BY <1>1, <1>2 DEF Shared!TypeOK
<1>4. QED
  BY <1>1, <1>2, <1>3 DEF CollaborationHolds, Shared!PresenceIsSomewhere

Application == [id : ProposalId, met : Shared!SharedDraft, reviews : Shared!Decisions]

LEMMA ItemOf == ASSUME NEW S, NEW q \in Seq(S), NEW k \in DOMAIN q PROVE q[k] \in S
OBVIOUS

LEMMA MetRevisions == \A x \in Application : x.met.revision \in Nat
<1> SUFFICES ASSUME NEW x \in Application PROVE x.met.revision \in Nat
  OBVIOUS
<1>1. x.met \in Shared!SharedDraft
  BY DEF Application
<1>2. QED
  BY <1>1 DEF Shared!SharedDraft

\* A participant is shown on a graph of the semantics, or nowhere.
LEMMA PresenceHolds ==
  ASSUME CollaborationHolds, NEW actor \in Participant, NEW sequence, NEW ref, NEW selection,
         Shared!UpdatePresence(actor, sequence, ref, selection)
  PROVE  CollaborationHolds'
<1> DEFINE new == [sequence |-> sequence, ref |-> ref, selection |-> selection]
<1>1. presence' = Shared!Put(presence, actor, new)
      /\ UNCHANGED <<shared, proposals, reviews, applied>>
  BY DEF Shared!UpdatePresence
<1>2. /\ DOMAIN presence' = DOMAIN presence \cup {actor} /\ presence'[actor] = new
      /\ \A a \in DOMAIN presence : a # actor => presence'[a] = presence[a]
  BY <1>1 DEF Shared!Put
<1>3. new.ref # NoGraph =>
        \E g \in Shared!Range(shared.semantics.graphs) :
          /\ Shared!Ref(g) = new.ref
          /\ Shared!Range(new.selection.nodes) \subseteq Shared!NodeIds(g)
          /\ Shared!Range(new.selection.edges) \subseteq Shared!EdgeIds(g)
  <2> SUFFICES ASSUME ref # NoGraph
      PROVE  \E g \in Shared!Range(shared.semantics.graphs) :
               /\ Shared!Ref(g) = ref
               /\ Shared!Range(selection.nodes) \subseteq Shared!NodeIds(g)
               /\ Shared!Range(selection.edges) \subseteq Shared!EdgeIds(g)
    OBVIOUS
  <2> DEFINE graphs == shared.semantics.graphs
             i == CHOOSE i \in DOMAIN graphs : Shared!Ref(graphs[i]) = ref
  <2>1. /\ ref \in Shared!Refs(shared.semantics)
        /\ Shared!SelectionIsValid(selection, Shared!GraphAt(shared.semantics, ref))
    BY DEF Shared!UpdatePresence
  <2>2. \E n \in DOMAIN graphs : Shared!Ref(graphs[n]) = ref
    BY <2>1 DEF Shared!Refs
  <2>3. i \in DOMAIN graphs /\ Shared!Ref(graphs[i]) = ref
    BY <2>2
  <2>4. Shared!GraphAt(shared.semantics, ref) = graphs[i]
    BY DEF Shared!GraphAt
  <2>5. graphs[i] \in Shared!Range(graphs)
    BY <2>3 DEF Shared!Range
  <2>6. QED
    BY <2>1, <2>3, <2>4, <2>5 DEF Shared!SelectionIsValid
<1> HIDE DEF new
<1>4. Shared!PresenceIsSomewhere'
  BY <1>1, <1>2, <1>3 DEF CollaborationHolds, Shared!PresenceIsSomewhere
<1>5. Shared!TypeOK'
  BY <1>1, <1>2 DEF CollaborationHolds, Shared!TypeOK
<1>6. QED
  BY <1>1, <1>4, <1>5 DEF CollaborationHolds, ProposalHolds, AppliedHolds

LEMMA ProposeHolds ==
  ASSUME CollaborationHolds, NEW id \in ProposalId, NEW author \in Participant,
         NEW expected, NEW semantics \in Semantics,
         Shared!CreateProposal(id, author, expected, semantics)
  PROVE  CollaborationHolds'
<1> DEFINE new == [author |-> author, base |-> shared.revision, from |-> shared.semantics,
                   to |-> semantics,
                   compatible |-> Shared!DraftIsValid(
                                    Shared!WithProjection(semantics, shared.projection))]
<1>1. /\ proposals' = Shared!Put(proposals, id, new) /\ reviews' = Shared!Put(reviews, id, <<>>)
      /\ id \notin DOMAIN proposals /\ UNCHANGED <<shared, presence, applied>>
      /\ semantics.application.identity = shared.semantics.application.identity
  BY DEF Shared!CreateProposal
<1>2. DOMAIN reviews = DOMAIN proposals /\ shared \in Shared!SharedDraft
  BY DEF CollaborationHolds, Shared!TypeOK
<1>3. /\ DOMAIN proposals' = DOMAIN proposals \cup {id} /\ proposals'[id] = new
      /\ \A i \in DOMAIN proposals : proposals'[i] = proposals[i]
  BY <1>1 DEF Shared!Put
<1>4. /\ DOMAIN reviews' = DOMAIN proposals \cup {id} /\ reviews'[id] = <<>>
      /\ \A i \in DOMAIN proposals : reviews'[i] = reviews[i]
  BY <1>1, <1>2 DEF Shared!Put
<1>5. new \in Shared!Proposal
  <2>1. new.compatible \in BOOLEAN
    BY DEF Shared!DraftIsValid
  <2>2. QED
    BY <1>2, <2>1 DEF Shared!Proposal, Shared!SharedDraft, Shared!Told
<1>6. ProposalHolds(new)
  <2>1. new.compatible => /\ Shared!SemanticsAreValid(semantics)
                          /\ Shared!ProjectionIsValid(shared.projection, semantics)
    BY DEF Shared!DraftIsValid, Shared!WithProjection
  <2>2. shared.revision \in Nat
    BY <1>2 DEF Shared!SharedDraft
  <2>3. QED
    BY <1>1, <2>1, <2>2 DEF ProposalHolds
<1>7. new.author \notin DOMAIN <<>> /\ <<>> \in Shared!Decisions
  <2>1. <<>> \in [{} -> {"approve", "reject"}]
    OBVIOUS
  <2>2. QED
    BY <2>1 DEF Shared!Decisions
<1> HIDE DEF new
<1>8. Shared!TypeOK'
  BY <1>1, <1>3, <1>4, <1>5, <1>7 DEF CollaborationHolds, Shared!TypeOK
<1>9. \A i \in DOMAIN proposals' :
        ProposalHolds(proposals'[i]) /\ proposals'[i].author \notin DOMAIN reviews'[i]
  BY <1>3, <1>4, <1>6, <1>7 DEF CollaborationHolds
<1>10. (\A i \in DOMAIN proposals :
          ProposalHolds(proposals[i]) /\ proposals[i].author \notin DOMAIN reviews[i])'
  BY <1>1, <1>9 DEF ProposalHolds
<1>11. \A k \in DOMAIN applied : AppliedHolds(applied[k])'
  BY <1>1, <1>3 DEF CollaborationHolds, AppliedHolds
<1>12. QED
  BY <1>1, <1>8, <1>10, <1>11 DEF CollaborationHolds, Shared!PresenceIsSomewhere, AppliedHolds

\* A review never comes from the author, and takes nothing back.
LEMMA ReviewHolds ==
  ASSUME CollaborationHolds, NEW id \in ProposalId, NEW reviewer \in Participant,
         NEW decision \in {"approve", "reject"}, Shared!ReviewProposal(id, reviewer, decision)
  PROVE  CollaborationHolds'
<1> DEFINE new == Shared!Put(reviews[id], reviewer, decision)
<1>1. /\ id \in DOMAIN proposals /\ reviewer # proposals[id].author
      /\ reviews' = [reviews EXCEPT ![id] = new]
      /\ UNCHANGED <<shared, presence, proposals, applied>>
  BY DEF Shared!ReviewProposal
<1>2. DOMAIN reviews = DOMAIN proposals /\ reviews[id] \in Shared!Decisions
  BY <1>1 DEF CollaborationHolds, Shared!TypeOK
<1>3. DOMAIN new = DOMAIN reviews[id] \cup {reviewer} /\ new \in Shared!Decisions
  <2>1. PICK S \in SUBSET Participant : reviews[id] \in [S -> {"approve", "reject"}]
    BY <1>2 DEF Shared!Decisions
  <2>2. new \in [S \cup {reviewer} -> {"approve", "reject"}]
    BY <2>1 DEF Shared!Put
  <2>3. QED
    BY <2>1, <2>2 DEF Shared!Decisions
<1> HIDE DEF new
<1>4. /\ DOMAIN reviews' = DOMAIN proposals /\ reviews'[id] = new
      /\ \A i \in DOMAIN proposals : i # id => reviews'[i] = reviews[i]
  BY <1>1, <1>2
<1>5. Shared!TypeOK'
  BY <1>1, <1>3, <1>4 DEF CollaborationHolds, Shared!TypeOK
<1>6. \A i \in DOMAIN proposals : proposals[i].author \notin DOMAIN reviews'[i]
  BY <1>1, <1>3, <1>4 DEF CollaborationHolds
<1>7. QED
  BY <1>1, <1>5, <1>6 DEF CollaborationHolds, ProposalHolds, AppliedHolds, Shared!PresenceIsSomewhere

\* What is applied was made for the shared it meets; the shared goes on to the
\* next revision, with its projection as it was and nobody shown anywhere.
LEMMA ApplyHolds ==
  ASSUME Shared!CollaborationConstants, CollaborationHolds, NEW id, NEW actor, NEW expected,
         Shared!ApplyProposal(id, actor, expected)
  PROVE  CollaborationHolds'
<1> DEFINE p == proposals[id]
           a == [id |-> id, met |-> shared, reviews |-> reviews[id]]
<1>1. /\ id \in DOMAIN proposals /\ p.base = shared.revision
      /\ Shared!Deciding(id, "reject") = {}
      /\ Shared!Cardinality(Shared!Deciding(id, "approve")) >= RequiredApprovals
      /\ shared.revision # MaxRevision
      /\ shared' = [shared EXCEPT !.revision = @ + 1, !.semantics = p.to]
      /\ Shared!DraftIsValid(shared')
      /\ DOMAIN presence' = {} /\ applied' = Append(applied, a)
      /\ UNCHANGED <<proposals, reviews>>
  BY DEF Shared!ApplyProposal
<1>2. /\ shared \in Shared!SharedDraft /\ p \in Shared!Proposal /\ id \in ProposalId
      /\ reviews[id] \in Shared!Decisions
      /\ applied \in Seq([id : ProposalId, met : Shared!SharedDraft, reviews : Shared!Decisions])
      /\ MaxRevision \in Nat
  BY <1>1 DEF CollaborationHolds, Shared!TypeOK, Shared!CollaborationConstants
<1>3. p.author \notin DOMAIN reviews[id] /\ ProposalHolds(p)
  BY <1>1 DEF CollaborationHolds
<1>4. /\ \A r \in DOMAIN reviews[id] : reviews[id][r] = "approve"
      /\ Shared!Cardinality(DOMAIN reviews[id]) >= RequiredApprovals
  <2>1. PICK S \in SUBSET Participant : reviews[id] \in [S -> {"approve", "reject"}]
    BY <1>2 DEF Shared!Decisions
  <2>2. \A r \in DOMAIN reviews[id] : reviews[id][r] = "approve"
    BY <1>1, <2>1 DEF Shared!Deciding
  <2>3. Shared!Deciding(id, "approve") = DOMAIN reviews[id]
    BY <2>2 DEF Shared!Deciding
  <2>4. QED
    BY <1>1, <2>2, <2>3
<1>5. /\ shared'.revision = shared.revision + 1 /\ shared'.semantics = p.to
      /\ shared'.projection = shared.projection /\ shared' \in Shared!SharedDraft
      /\ shared.revision \in Nat
  <2>1. shared = [revision |-> shared.revision, semantics |-> shared.semantics,
                 projection |-> shared.projection]
        /\ shared.revision \in 0..MaxRevision
        /\ shared.projection \in {d.projection : d \in FirstDraft}
    BY <1>2 DEF Shared!SharedDraft
  <2>2. shared' = [revision |-> shared.revision + 1, semantics |-> p.to,
                  projection |-> shared.projection]
    BY <1>1, <2>1
  <2>3. shared.revision + 1 \in 0..MaxRevision /\ p.to \in Shared!Told
    BY <1>1, <1>2, <2>1 DEF Shared!Proposal
  <2>4. QED
    BY <2>1, <2>2, <2>3 DEF Shared!SharedDraft
<1>6. a \in [id : ProposalId, met : Shared!SharedDraft, reviews : Shared!Decisions]
      /\ a.id = id /\ a.met = shared /\ a.reviews = reviews[id]
  BY <1>2
<1>7. p.from = shared.semantics
  BY <1>1, <1>3 DEF ProposalHolds
<1> HIDE DEF a
<1>8. /\ applied' \in Seq([id : ProposalId, met : Shared!SharedDraft, reviews : Shared!Decisions])
      /\ Len(applied) \in Nat /\ DOMAIN applied' = 1..(Len(applied) + 1)
      /\ DOMAIN applied = 1..Len(applied)
      /\ applied'[Len(applied) + 1] = a
      /\ \A k \in DOMAIN applied : applied'[k] = applied[k]
  BY <1>1, <1>2, <1>6
<1>9. Shared!TypeOK'
  BY <1>1, <1>5, <1>8 DEF CollaborationHolds, Shared!TypeOK
<1>10. ASSUME NEW i \in DOMAIN proposals PROVE ProposalHolds(proposals[i])'
  <2>1. proposals[i].base \in Nat /\ ProposalHolds(proposals[i])
    BY DEF CollaborationHolds, Shared!TypeOK, Shared!Proposal
  <2>2. proposals[i].base <= shared'.revision /\ proposals[i].base # shared'.revision
    BY <1>5, <2>1 DEF ProposalHolds
  <2>3. QED
    BY <1>1, <1>5, <2>1, <2>2 DEF ProposalHolds
<1>11. ASSUME NEW k \in DOMAIN applied' PROVE AppliedHolds(applied[k])'
  <2>1. CASE k \in DOMAIN applied
    <3>1. AppliedHolds(applied[k]) /\ applied'[k] = applied[k]
      BY <1>8, <2>1 DEF CollaborationHolds
    <3>2. applied[k] \in Application
      BY <1>2, <2>1, ItemOf DEF Application
    <3>3. applied[k].met.revision \in Nat
      BY <3>2, MetRevisions
    <3>4. applied[k].met.revision < shared'.revision
      BY <1>5, <3>1, <3>3 DEF AppliedHolds
    <3>5. QED
      BY <1>1, <3>1, <3>4 DEF AppliedHolds
  <2>2. CASE k \notin DOMAIN applied
    <3>1. applied'[k] = a
      BY <1>8, <2>2
    <3>2. a.met.revision < shared'.revision
      BY <1>5, <1>6
    <3>3. QED
      BY <1>1, <1>3, <1>4, <1>6, <1>7, <3>1, <3>2 DEF AppliedHolds
  <2>3. QED
    BY <2>1, <2>2
<1>12. ASSUME NEW j \in DOMAIN applied', NEW k \in DOMAIN applied', j < k
       PROVE  applied'[j].met.revision < applied'[k].met.revision
  <2>1. j \in DOMAIN applied
    BY <1>8, <1>12
  <2>2. CASE k \in DOMAIN applied
    BY <1>8, <1>12, <2>1, <2>2 DEF CollaborationHolds
  <2>3. CASE k \notin DOMAIN applied
    BY <1>6, <1>8, <2>1, <2>3 DEF CollaborationHolds, AppliedHolds
  <2>4. QED
    BY <2>2, <2>3
<1>13. Shared!DraftIsValid(shared)'
  BY <1>1 DEF Shared!DraftIsValid
<1>14. QED
  BY <1>1, <1>9, <1>10, <1>11, <1>12, <1>13 DEF CollaborationHolds, Shared!PresenceIsSomewhere

LEMMA CollaborationNextHolds ==
  ASSUME Shared!CollaborationConstants, CollaborationHolds, [Shared!Next]_(Shared!vars)
  PROVE  CollaborationHolds'
<1>1. CASE UNCHANGED Shared!vars
  BY <1>1 DEF Shared!vars, CollaborationHolds, Shared!TypeOK, Shared!PresenceIsSomewhere,
     Shared!DraftIsValid, ProposalHolds, AppliedHolds
<1>2. QED
  BY <1>1, PresenceHolds, ProposeHolds, ReviewHolds, ApplyHolds DEF Shared!Next

\* A shared that is shared is always one its parser accepts; a proposal keeps the
\* base it was made for, and what was applied met its base, one revision each.
THEOREM CollaborationHoldsAlways ==
  ASSUME Shared!CollaborationConstants PROVE Shared!Spec => []CollaborationHolds
<1>1. Shared!Init => CollaborationHolds
  BY CollaborationInitHolds
<1>2. CollaborationHolds /\ [Shared!Next]_(Shared!vars) => CollaborationHolds'
  BY CollaborationNextHolds
<1>3. QED
  BY <1>1, <1>2, PTL DEF Shared!Spec

\* What was applied had been approved, by enough peers none of whom is the
\* author and without one rejection, as a change of the semantics it replaced.
THEOREM WhatIsAppliedWasAgreed ==
  ASSUME Shared!CollaborationConstants PROVE Shared!Spec => []Shared!AppliedWasAgreed
<1>1. CollaborationHolds => Shared!AppliedWasAgreed
  BY DEF CollaborationHolds, AppliedHolds, ProposalHolds, Shared!AppliedWasAgreed
<1>2. QED
  BY <1>1, CollaborationHoldsAlways, PTL

\* Of the proposals for one revision at most one is ever applied, and none twice.
THEOREM OneProposalPerRevision ==
  ASSUME Shared!CollaborationConstants PROVE Shared!Spec => []Shared!RivalsGoStale
<1>1. ASSUME CollaborationHolds, NEW j \in DOMAIN applied, NEW k \in DOMAIN applied,
             proposals[applied[j].id].base = proposals[applied[k].id].base
      PROVE  j = k
  <2>1. j \in Nat /\ k \in Nat
    BY <1>1 DEF CollaborationHolds, Shared!TypeOK
  <2>2. applied[j].met.revision = applied[k].met.revision
    BY <1>1 DEF CollaborationHolds, AppliedHolds
  <2>3. applied[k] \in Application
    BY <1>1, ItemOf DEF CollaborationHolds, Shared!TypeOK, Application
  <2>4. applied[k].met.revision \in Nat
    BY <2>3, MetRevisions
  <2>5. ~ (j < k) /\ ~ (k < j)
    BY <1>1, <2>2, <2>4 DEF CollaborationHolds
  <2>6. QED
    BY <2>1, <2>5
<1>2. CollaborationHolds => Shared!RivalsGoStale
  BY <1>1 DEF Shared!RivalsGoStale
<1>3. QED
  BY <1>2, CollaborationHoldsAlways, PTL

\* A proposal found compatible when it was made still is when it is applied, and
\* whom others are shown somewhere is on a graph of the current semantics.
THEOREM ApprovedIsApplicable ==
  ASSUME Shared!CollaborationConstants
  PROVE  Shared!Spec => [](Shared!CompatibleStaysApplicable /\ Shared!PresenceIsSomewhere)
<1>1. ASSUME CollaborationHolds, NEW i \in DOMAIN proposals, proposals[i].compatible
      PROVE  Shared!DraftIsValid([shared EXCEPT !.revision = @ + 1, !.semantics = proposals[i].to])
  <2> DEFINE next == [shared EXCEPT !.revision = @ + 1, !.semantics = proposals[i].to]
  <2>1. shared \in Shared!SharedDraft
    BY <1>1 DEF CollaborationHolds, Shared!TypeOK
  <2>2. /\ next.revision \in Nat /\ next.semantics = proposals[i].to
        /\ next.projection = shared.projection
    BY <2>1 DEF Shared!SharedDraft
  <2>3. /\ Shared!SemanticsAreValid(proposals[i].to)
        /\ Shared!ProjectionIsValid(shared.projection, proposals[i].to)
    BY <1>1 DEF CollaborationHolds, ProposalHolds
  <2>4. QED
    BY <2>2, <2>3 DEF Shared!DraftIsValid
<1>2. CollaborationHolds => Shared!CompatibleStaysApplicable /\ Shared!PresenceIsSomewhere
  BY <1>1 DEF Shared!CompatibleStaysApplicable, CollaborationHolds
<1>3. QED
  BY <1>2, CollaborationHoldsAlways, PTL

-----------------------------------------------------------------------------
(* Resolving a release in an environment.                                     *)

Look == [step : {"active", "artifact", "trust", "revalidate", "digest"},
         environment : Asked, release : Release, deployment : Deployment \cup {Nil},
         asked : Nat, vouched : Registered \cup {Nil}]

\* The history of an environment is as long as its revision, and numbered.
Numbered(e) ==
  /\ active[e] = Len(history[e])
  /\ \A k \in 1..Len(history[e]) : history[e][k].revision = k

\* d was made in the environment, at the revision a or later.
MadeSince(d, e, a) == \E k \in 1..Len(history[e]) : k >= a /\ history[e][k] = d

\* What a request has read was so, and may have become less since: a release that
\* was not live when its artifact was verified is not live now.
LookHolds(c) ==
  /\ c \in Look
  /\ c.asked <= active[c.environment]
  /\ c.step # "active" =>
       /\ c.deployment \in Deployment /\ c.deployment.release = c.release
       /\ MadeSince(c.deployment, c.environment, c.asked)
  /\ c.step \in {"trust", "revalidate", "digest"} =>
       releases[c.release] # Nil /\ releases[c.release].digest = c.deployment.digest
  /\ c.step \in {"revalidate", "digest"} =>
       /\ c.vouched \in Registered /\ c.vouched.digest = c.deployment.digest
       /\ c.vouched.status = "deprecated" => releases[c.release].status = "deprecated"
  /\ c.step = "digest" => c.vouched.status = "active"

\* An answer is a deployment made since it was asked for, of an artifact that was
\* live when it was verified.
AnswerHolds(a) ==
  /\ a.environment \in Asked
  /\ \E k \in 1..Len(history[a.environment]) :
       LET d == history[a.environment][k] IN
       /\ k >= a.asked
       /\ <<d.revision, d.release, d.digest, d.binding>>
            = <<a.revision, a.release, a.digest, a.binding>>
  /\ a.revision >= a.asked
  /\ a.vouched.status = "active" /\ a.vouched.digest = a.digest

ResolutionHolds ==
  /\ PlaneTypeOK
  /\ \A e \in Environment : Numbered(e)
  /\ lookup \in [Resolver -> Look \cup {Nil}]
  /\ \A q \in Resolver : lookup[q] # Nil => LookHolds(lookup[q])
  /\ resolved \in Seq([environment : Asked, release : Release, revision : Nat, digest : Digest,
                       binding : Binding, asked : Nat, vouched : Registered])
  /\ \A i \in 1..Len(resolved) : AnswerHolds(resolved[i])

\* What the plane may do to what a request has read.
PlaneGoesOn ==
  /\ \A e \in Environment :
       /\ active[e] <= active'[e] /\ Len(history[e]) <= Len(history'[e])
       /\ \A k \in 1..Len(history[e]) : history'[e][k] = history[e][k]
  /\ \A r \in Release : releases[r] # Nil =>
       /\ releases'[r] # Nil /\ releases'[r].digest = releases[r].digest
       /\ releases[r].status = "deprecated" => releases'[r].status = "deprecated"

LEMMA PlaneEntry ==
  ASSUME PlaneTypeOK, NEW e \in Environment, NEW k \in 1..Len(history[e])
  PROVE  history[e][k] \in Deployment
BY DEF PlaneTypeOK

LEMMA DeployGoesOn ==
  ASSUME PlaneTypeOK, \A e \in Environment : Numbered(e),
         NEW e \in Environment, NEW r \in Release, NEW d \in Digest, NEW b \in Binding,
         NEW o \in {"publish", "promote", "rollback"},
         Deploy(e, r, d, b, o)
  PROVE  /\ history' \in [Environment -> Seq(Deployment)]
         /\ active' \in [Environment -> 0..MaxRevision]
         /\ \A f \in Environment : Numbered(f)'
         /\ \A f \in Environment :
              /\ active[f] <= active'[f] /\ Len(history[f]) <= Len(history'[f])
              /\ \A k \in 1..Len(history[f]) : history'[f][k] = history[f][k]
<1> DEFINE n == NextDeployment(e, r, d, b, o)
<1>1. /\ history' = [history EXCEPT ![e] = Append(history[e], n)]
      /\ active' = [active EXCEPT ![e] = active[e] + 1] /\ active[e] < MaxRevision
  BY DEF Deploy
<1>2. history[e] \in Seq(Deployment) /\ active[e] \in Nat
  BY DEF PlaneTypeOK
<1>3. n \in Deployment /\ n.revision = active[e] + 1
  BY <1>2 DEF NextDeployment, Deployment
<1> HIDE DEF n
<1>4. Append(history[e], n) \in Seq(Deployment)
  BY <1>2, <1>3
<1>5. history' \in [Environment -> Seq(Deployment)]
  BY <1>1, <1>4 DEF PlaneTypeOK
<1>6. active' \in [Environment -> 0..MaxRevision]
  BY <1>1, <1>2, MaxRevisionAssumption DEF PlaneTypeOK
<1>7. ASSUME NEW f \in Environment
      PROVE  /\ Numbered(f)'
             /\ active[f] <= active'[f] /\ Len(history[f]) <= Len(history'[f])
             /\ \A k \in 1..Len(history[f]) : history'[f][k] = history[f][k]
  <2>1. CASE f # e
    <3>1. history'[f] = history[f] /\ active'[f] = active[f] /\ active[f] \in Nat
          /\ history[f] \in Seq(Deployment)
      BY <1>1, <2>1 DEF PlaneTypeOK
    <3>2. QED
      BY <3>1 DEF Numbered
  <2>2. CASE f = e
    <3>1. history'[e] = Append(history[e], n) /\ active'[e] = active[e] + 1
      BY <1>1 DEF PlaneTypeOK
    <3>2. /\ Len(history'[e]) = Len(history[e]) + 1 /\ Len(history[e]) \in Nat
          /\ \A k \in 1..Len(history[e]) : history'[e][k] = history[e][k]
          /\ history'[e][Len(history[e]) + 1] = n
      BY <1>2, <3>1
    <3>3. active[e] = Len(history[e]) /\ \A k \in 1..Len(history[e]) : history[e][k].revision = k
      BY DEF Numbered
    <3>4. \A k \in 1..Len(history'[e]) : history'[e][k].revision = k
      BY <1>3, <3>2, <3>3
    <3>5. QED
      BY <1>2, <2>2, <3>1, <3>2, <3>3, <3>4 DEF Numbered
  <2>3. QED
    BY <2>1, <2>2
<1>8. QED
  BY <1>5, <1>6, <1>7

LEMMA PlaneStepGoesOn ==
  ASSUME Asked \subseteq Environment, PlaneTypeOK, \A e \in Environment : Numbered(e),
         Resolution!PlaneStep
  PROVE  PlaneTypeOK' /\ (\A e \in Environment : Numbered(e)') /\ PlaneGoesOn
<1>1. ASSUME NEW r \in Release, NEW d \in Digest, NEW b \in Binding, Resolution!Publish(r, d, b)
      PROVE  PlaneTypeOK' /\ (\A e \in Environment : Numbered(e)') /\ PlaneGoesOn
  <2>1. Publish(r, d, b)
    BY <1>1 DEF Resolution!Deploy, Deploy, Resolution!InPlace, InPlace, Resolution!Runs, Runs,
            Resolution!NextDeployment, NextDeployment, Resolution!Live, Live,
            Resolution!Publish, Publish, Resolution!Register, Register
  <2>2. Deploy("dev", r, d, b, "publish")
    BY <2>1 DEF Publish
  <2>3. \/ releases[r] = Nil /\ releases' = [releases EXCEPT ![r] = [digest |-> d, status |-> "active"]]
        \/ releases' = releases
    BY <2>1 DEF Publish, Register
  <2>4. releases' \in [Release -> Registered \cup {Nil}]
    BY <2>3 DEF PlaneTypeOK, Registered
  <2>5. \A s \in Release : releases[s] # Nil => releases'[s] = releases[s]
    BY <2>3 DEF PlaneTypeOK
  <2>6. "dev" \in Environment
    BY DEF Environment
  <2>7. QED
    BY <2>2, <2>4, <2>5, <2>6, DeployGoesOn DEF PlaneTypeOK, PlaneGoesOn
<1>2. ASSUME NEW e \in Asked, NEW r \in Release, NEW d \in Digest, NEW b \in Binding,
             Resolution!Promote(e, r, d, b)
      PROVE  PlaneTypeOK' /\ (\A f \in Environment : Numbered(f)') /\ PlaneGoesOn
  <2>1. Promote(e, r, d, b)
    BY <1>2 DEF Resolution!Deploy, Deploy, Resolution!InPlace, InPlace, Resolution!Runs, Runs,
            Resolution!NextDeployment, NextDeployment, Resolution!Live, Live,
            Resolution!Promote, Promote, Resolution!Source, Source
  <2>2. Deploy(e, r, d, b, "promote") /\ releases' = releases /\ e \in Environment
    BY <2>1 DEF Promote
  <2>3. QED
    BY <2>2, DeployGoesOn DEF PlaneTypeOK, PlaneGoesOn
<1>3. ASSUME NEW e \in Asked, NEW i \in 1..MaxRevision, Resolution!Rollback(e, i)
      PROVE  PlaneTypeOK' /\ (\A f \in Environment : Numbered(f)') /\ PlaneGoesOn
  <2>1. Rollback(e, i)
    BY <1>3 DEF Resolution!Deploy, Deploy, Resolution!InPlace, InPlace, Resolution!Runs, Runs,
            Resolution!NextDeployment, NextDeployment, Resolution!Live, Live,
            Resolution!Rollback, Rollback
  <2> DEFINE t == history[e][i]
  <2>2. Deploy(e, t.release, t.digest, t.binding, "rollback") /\ releases' = releases
        /\ e \in Environment /\ i \in 1..Len(history[e])
    BY <2>1 DEF Rollback
  <2>3. t.release \in Release /\ t.digest \in Digest /\ t.binding \in Binding
    BY <2>2, PlaneEntry DEF Deployment
  <2>4. QED
    BY <2>2, <2>3, DeployGoesOn DEF PlaneTypeOK, PlaneGoesOn
<1>4. ASSUME NEW r \in Release, Resolution!Deprecate(r)
      PROVE  PlaneTypeOK' /\ (\A f \in Environment : Numbered(f)') /\ PlaneGoesOn
  <2>1. /\ releases[r] \in Registered /\ UNCHANGED <<history, active>>
        /\ releases' = [releases EXCEPT ![r] = [releases[r] EXCEPT !.status = "deprecated"]]
    BY <1>4 DEF Resolution!Deprecate, PlaneTypeOK
  <2>2. releases' = [releases EXCEPT ![r] = [digest |-> releases[r].digest, status |-> "deprecated"]]
    <3>1. [releases[r] EXCEPT !.status = "deprecated"]
            = [digest |-> releases[r].digest, status |-> "deprecated"]
      BY <2>1 DEF Registered
    <3>2. QED
      BY <2>1, <3>1
  <2>3. [digest |-> releases[r].digest, status |-> "deprecated"] \in Registered
    BY <2>1 DEF Registered
  <2>4. PlaneTypeOK'
    BY <2>1, <2>2, <2>3 DEF PlaneTypeOK
  <2>5. \A f \in Environment : Numbered(f)'
    BY <2>1 DEF Numbered
  <2>6. PlaneGoesOn
    <3>1. \A s \in Release : releases[s] # Nil =>
            /\ releases'[s] # Nil /\ releases'[s].digest = releases[s].digest
            /\ releases[s].status = "deprecated" => releases'[s].status = "deprecated"
      BY <2>2, <2>3, NilAssumption DEF PlaneTypeOK
    <3>2. \A e \in Environment : active[e] \in Nat /\ Len(history[e]) \in Nat
      BY DEF PlaneTypeOK
    <3>3. QED
      BY <2>1, <3>1, <3>2 DEF PlaneGoesOn
  <2>7. QED
    BY <2>4, <2>5, <2>6
<1>5. QED
  BY <1>1, <1>2, <1>3, <1>4 DEF Resolution!PlaneStep

\* Only environments that are there are asked for.
LEMMA EnvironmentState ==
  ASSUME PlaneTypeOK, NEW e \in Environment
  PROVE  active[e] \in Nat /\ history[e] \in Seq(Deployment) /\ Len(history[e]) \in Nat
BY DEF PlaneTypeOK

LEMMA LookStays ==
  ASSUME Asked \subseteq Environment, PlaneTypeOK, PlaneTypeOK', PlaneGoesOn, NEW c, LookHolds(c)
  PROVE  LookHolds(c)'
<1> DEFINE e == c.environment
           r == c.release
<1>1. c \in Look /\ e \in Environment /\ r \in Release /\ c.asked \in Nat
  BY DEF LookHolds, Look
<1>2. /\ active[e] <= active'[e] /\ Len(history[e]) <= Len(history'[e])
      /\ \A k \in 1..Len(history[e]) : history'[e][k] = history[e][k]
  BY <1>1 DEF PlaneGoesOn
<1>3. /\ active[e] \in Nat /\ active'[e] \in Nat
      /\ Len(history[e]) \in Nat /\ Len(history'[e]) \in Nat
  BY <1>1 DEF PlaneTypeOK
<1>4. releases[r] # Nil =>
       /\ releases'[r] # Nil /\ releases'[r].digest = releases[r].digest
       /\ releases[r].status = "deprecated" => releases'[r].status = "deprecated"
  BY <1>1 DEF PlaneGoesOn
<1>5. c.asked <= active'[e]
  BY <1>1, <1>2, <1>3 DEF LookHolds
<1>6. MadeSince(c.deployment, e, c.asked) => MadeSince(c.deployment, e, c.asked)'
  <2> SUFFICES ASSUME NEW k \in 1..Len(history[e]), k >= c.asked, history[e][k] = c.deployment
               PROVE  \E j \in 1..Len(history'[e]) : j >= c.asked /\ history'[e][j] = c.deployment
    BY DEF MadeSince
  <2>1. k \in 1..Len(history'[e]) /\ history'[e][k] = c.deployment
    BY <1>2, <1>3
  <2>2. QED
    BY <2>1
<1> HIDE DEF e, r
<1>7. QED
  BY <1>1, <1>4, <1>5, <1>6 DEF LookHolds, e, r

LEMMA AnswerStays ==
  ASSUME Asked \subseteq Environment, PlaneTypeOK, PlaneTypeOK', PlaneGoesOn, NEW a, AnswerHolds(a)
  PROVE  AnswerHolds(a)'
<1> DEFINE e == a.environment
<1>1. e \in Environment
  BY DEF AnswerHolds
<1>2. /\ Len(history[e]) <= Len(history'[e])
      /\ \A k \in 1..Len(history[e]) : history'[e][k] = history[e][k]
      /\ Len(history[e]) \in Nat /\ Len(history'[e]) \in Nat
  BY <1>1 DEF PlaneGoesOn, PlaneTypeOK
<1>3. PICK k \in 1..Len(history[e]) :
        /\ k >= a.asked
        /\ <<history[e][k].revision, history[e][k].release, history[e][k].digest, history[e][k].binding>>
             = <<a.revision, a.release, a.digest, a.binding>>
  BY DEF AnswerHolds
<1>4. k \in 1..Len(history'[e]) /\ history'[e][k] = history[e][k]
  BY <1>2, <1>3
<1>5. QED
  BY <1>3, <1>4 DEF AnswerHolds

LEMMA PlaneStepHolds ==
  ASSUME Asked \subseteq Environment, ResolutionHolds, Resolution!PlaneStep,
         UNCHANGED <<lookup, resolved>>
  PROVE  ResolutionHolds'
<1>1. PlaneTypeOK' /\ (\A e \in Environment : Numbered(e)') /\ PlaneGoesOn
  BY PlaneStepGoesOn DEF ResolutionHolds
<1>2. ASSUME NEW q \in Resolver, lookup'[q] # Nil PROVE LookHolds(lookup[q])'
  <2>1. PICK c : c = lookup[q]
    OBVIOUS
  <2>2. LookHolds(c)
    BY <1>2, <2>1 DEF ResolutionHolds
  <2>3. LookHolds(c)'
    BY <1>1, <2>2, LookStays DEF ResolutionHolds
  <2>4. QED
    BY <2>1, <2>3
<1>3. ASSUME NEW i \in 1..Len(resolved') PROVE AnswerHolds(resolved[i])'
  <2>1. PICK a : a = resolved[i]
    OBVIOUS
  <2>2. AnswerHolds(a)
    BY <1>3, <2>1 DEF ResolutionHolds
  <2>3. AnswerHolds(a)'
    BY <1>1, <2>2, AnswerStays DEF ResolutionHolds
  <2>4. QED
    BY <2>1, <2>3
<1>4. QED
  BY <1>1, <1>2, <1>3 DEF ResolutionHolds

\* A request reads on, while the plane stands still.
LEMMA ReadsOn ==
  ASSUME ResolutionHolds, NEW q \in Resolver, NEW n, n = Nil \/ LookHolds(n),
         lookup' = [lookup EXCEPT ![q] = n], UNCHANGED <<releases, history, active, resolved>>
  PROVE  ResolutionHolds'
<1>1. lookup' \in [Resolver -> Look \cup {Nil}]
  BY DEF ResolutionHolds, LookHolds
<1>2. ASSUME NEW p \in Resolver, lookup'[p] # Nil PROVE LookHolds(lookup[p])'
  <2>1. PICK c : c = lookup'[p]
    OBVIOUS
  <2>2. LookHolds(c)
    BY <1>2, <2>1 DEF ResolutionHolds
  <2>3. LookHolds(c)'
    BY <2>2 DEF LookHolds, MadeSince
  <2>4. QED
    BY <2>1, <2>3
<1>3. ASSUME NEW i \in 1..Len(resolved') PROVE AnswerHolds(resolved[i])'
  BY DEF ResolutionHolds, AnswerHolds
<1>4. PlaneTypeOK' /\ \A e \in Environment : Numbered(e)'
  BY DEF ResolutionHolds, PlaneTypeOK, Numbered
<1>5. QED
  BY <1>1, <1>2, <1>3, <1>4 DEF ResolutionHolds

LEMMA ResolveHolds ==
  ASSUME Asked \subseteq Environment, ResolutionHolds, NEW q \in Resolver, NEW e \in Asked,
         NEW r \in Release, Resolution!Resolve(q, e, r)
  PROVE  ResolutionHolds'
<1> DEFINE n == [step |-> "active", environment |-> e, release |-> r, deployment |-> Nil,
                 asked |-> active[e], vouched |-> Nil]
<1>1. active[e] \in Nat
  BY EnvironmentState DEF ResolutionHolds
<1>2. n \in Look
  BY <1>1 DEF Look
<1>3. LookHolds(n)
  BY <1>1, <1>2 DEF LookHolds
<1>4. lookup' = [lookup EXCEPT ![q] = n] /\ UNCHANGED <<releases, history, active, resolved>>
  BY DEF Resolution!Resolve, Resolution!planeVars
<1> HIDE DEF n
<1>5. QED
  BY <1>3, <1>4, ReadsOn

\* A request with two of its fields rewritten.
LEMMA Rewritten ==
  ASSUME NEW c \in Look, NEW s, NEW d, NEW v
  PROVE  /\ [[c EXCEPT !.deployment = d] EXCEPT !.step = s]
              = [step |-> s, environment |-> c.environment, release |-> c.release,
                 deployment |-> d, asked |-> c.asked, vouched |-> c.vouched]
         /\ [[c EXCEPT !.step = s] EXCEPT !.vouched = v]
              = [step |-> s, environment |-> c.environment, release |-> c.release,
                 deployment |-> c.deployment, asked |-> c.asked, vouched |-> v]
<1> DEFINE x == [c EXCEPT !.deployment = d]
           y == [c EXCEPT !.step = s]
<1>1. x = [step |-> c.step, environment |-> c.environment, release |-> c.release,
           deployment |-> d, asked |-> c.asked, vouched |-> c.vouched]
  BY DEF Look
<1>2. y = [step |-> s, environment |-> c.environment, release |-> c.release,
           deployment |-> c.deployment, asked |-> c.asked, vouched |-> c.vouched]
  BY DEF Look
<1> HIDE DEF x, y
<1>3. [x EXCEPT !.step = s]
         = [step |-> s, environment |-> c.environment, release |-> c.release,
            deployment |-> d, asked |-> c.asked, vouched |-> c.vouched]
  BY <1>1
<1>4. [y EXCEPT !.vouched = v]
         = [step |-> s, environment |-> c.environment, release |-> c.release,
            deployment |-> c.deployment, asked |-> c.asked, vouched |-> v]
  BY <1>2
<1>5. QED
  BY <1>3, <1>4 DEF x, y

LEMMA GetActiveHolds ==
  ASSUME Asked \subseteq Environment, ResolutionHolds, NEW q \in Resolver, Resolution!GetActive(q)
  PROVE  ResolutionHolds'
<1> DEFINE c == lookup[q]
           e == c.environment
           d == history[e][active[e]]
           n == [step |-> "artifact", environment |-> c.environment, release |-> c.release,
                 deployment |-> d, asked |-> c.asked, vouched |-> c.vouched]
<1>1. /\ c # Nil /\ c.step = "active" /\ active[e] # 0 /\ d.release = c.release
      /\ lookup' = [lookup EXCEPT ![q] = [[lookup[q] EXCEPT !.deployment = d] EXCEPT !.step = "artifact"]]
      /\ UNCHANGED <<releases, history, active, resolved>>
  BY DEF Resolution!GetActive, Resolution!Reads, Resolution!planeVars, ResolutionHolds
<1>2. c \in Look /\ LookHolds(c) /\ e \in Environment
  BY <1>1 DEF ResolutionHolds, LookHolds, Look
<1>3. /\ active[e] \in Nat /\ active[e] = Len(history[e]) /\ c.asked <= active[e]
  BY <1>2, EnvironmentState DEF ResolutionHolds, Numbered, LookHolds
<1>4. active[e] \in 1..Len(history[e])
  BY <1>1, <1>3
<1>5. d \in Deployment /\ MadeSince(d, e, c.asked)
  BY <1>2, <1>3, <1>4, PlaneEntry DEF ResolutionHolds, MadeSince, Look
<1>6. [[lookup[q] EXCEPT !.deployment = d] EXCEPT !.step = "artifact"] = n
  BY <1>2, Rewritten
<1>7. n \in Look
  BY <1>2, <1>5 DEF Look
<1>8. LookHolds(n)
  BY <1>1, <1>3, <1>5, <1>7 DEF LookHolds
<1> HIDE DEF n
<1>9. QED
  BY <1>1, <1>6, <1>8, ReadsOn

LEMMA GetArtifactHolds ==
  ASSUME ResolutionHolds, NEW q \in Resolver, Resolution!GetArtifact(q)
  PROVE  ResolutionHolds'
<1> DEFINE c == lookup[q]
           n == [step |-> "trust", environment |-> c.environment, release |-> c.release,
                 deployment |-> c.deployment, asked |-> c.asked, vouched |-> c.vouched]
<1>1. /\ c # Nil /\ c.step = "artifact"
      /\ releases[c.release] # Nil /\ releases[c.release].digest = c.deployment.digest
      /\ lookup' = [lookup EXCEPT ![q] = [lookup[q] EXCEPT !.step = "trust"]]
      /\ UNCHANGED <<releases, history, active, resolved>>
  BY DEF Resolution!GetArtifact, Resolution!Reads, Resolution!Live, Resolution!planeVars, ResolutionHolds
<1>2. c \in Look /\ LookHolds(c)
  BY <1>1 DEF ResolutionHolds, LookHolds
<1>3. [lookup[q] EXCEPT !.step = "trust"] = n /\ n \in Look
  BY <1>2 DEF Look
<1>4. LookHolds(n)
  BY <1>1, <1>2, <1>3 DEF LookHolds
<1> HIDE DEF n
<1>5. QED
  BY <1>1, <1>3, <1>4, ReadsOn

LEMMA VerifyArtifactHolds ==
  ASSUME ResolutionHolds, NEW q \in Resolver, Resolution!VerifyArtifact(q)
  PROVE  ResolutionHolds'
<1> DEFINE c == lookup[q]
           v == releases[c.release]
           n == [step |-> "revalidate", environment |-> c.environment, release |-> c.release,
                 deployment |-> c.deployment, asked |-> c.asked, vouched |-> v]
<1>1. /\ c # Nil /\ c.step = "trust"
      /\ lookup' = [lookup EXCEPT ![q] = [[lookup[q] EXCEPT !.step = "revalidate"] EXCEPT !.vouched = v]]
      /\ UNCHANGED <<releases, history, active, resolved>>
  BY DEF Resolution!VerifyArtifact, Resolution!Reads, Resolution!planeVars, ResolutionHolds
<1>2. c \in Look /\ LookHolds(c)
  BY <1>1 DEF ResolutionHolds, LookHolds
<1>3. v \in Registered /\ v.digest = c.deployment.digest
  BY <1>1, <1>2 DEF LookHolds, Look, ResolutionHolds, PlaneTypeOK
<1>4. [[lookup[q] EXCEPT !.step = "revalidate"] EXCEPT !.vouched = v] = n /\ n \in Look
  <2>1. n \in Look
    BY <1>2, <1>3 DEF Look
  <2>2. QED
    BY <1>2, <2>1, Rewritten
<1>5. n.step = "revalidate" /\ n.environment = c.environment /\ n.release = c.release
      /\ n.deployment = c.deployment /\ n.asked = c.asked /\ n.vouched = v
  OBVIOUS
<1> HIDE DEF n
<1>6. LookHolds(n)
  BY <1>1, <1>2, <1>3, <1>4, <1>5 DEF LookHolds
<1>7. QED
  BY <1>1, <1>4, <1>6, ReadsOn

LEMMA RevalidateHolds ==
  ASSUME ResolutionHolds, NEW q \in Resolver, Resolution!Revalidate(q)
  PROVE  ResolutionHolds'
<1> DEFINE c == lookup[q]
           n == [step |-> "digest", environment |-> c.environment, release |-> c.release,
                 deployment |-> c.deployment, asked |-> c.asked, vouched |-> c.vouched]
<1>1. /\ c # Nil /\ c.step = "revalidate" /\ releases[c.release].status = "active"
      /\ lookup' = [lookup EXCEPT ![q] = [lookup[q] EXCEPT !.step = "digest"]]
      /\ UNCHANGED <<releases, history, active, resolved>>
  BY DEF Resolution!Revalidate, Resolution!Reads, Resolution!Live, Resolution!planeVars, ResolutionHolds
<1>2. c \in Look /\ LookHolds(c)
  BY <1>1 DEF ResolutionHolds, LookHolds
<1>3. [lookup[q] EXCEPT !.step = "digest"] = n /\ n \in Look
  BY <1>2 DEF Look
<1>4. n.step = "digest" /\ n.environment = c.environment /\ n.release = c.release
      /\ n.deployment = c.deployment /\ n.asked = c.asked /\ n.vouched = c.vouched
  OBVIOUS
<1>5. c.vouched \in Registered /\ c.vouched.status # "deprecated"
  BY <1>1, <1>2 DEF LookHolds
<1>6. c.vouched.status = "active"
  BY <1>5 DEF Registered
<1> HIDE DEF n
<1>7. LookHolds(n)
  BY <1>1, <1>2, <1>3, <1>4, <1>6 DEF LookHolds
<1>8. QED
  BY <1>1, <1>3, <1>7, ReadsOn

LEMMA ResolvedHolds ==
  ASSUME Asked \subseteq Environment, ResolutionHolds, NEW q \in Resolver, Resolution!Resolved(q)
  PROVE  ResolutionHolds'
<1> DEFINE c == lookup[q]
           d == c.deployment
           a == [environment |-> c.environment, release |-> c.release, revision |-> d.revision,
                 digest |-> d.digest, binding |-> d.binding, asked |-> c.asked, vouched |-> c.vouched]
<1>1. /\ c # Nil /\ c.step = "digest" /\ resolved' = Append(resolved, a)
      /\ lookup' = [lookup EXCEPT ![q] = Nil] /\ UNCHANGED <<releases, history, active>>
  BY DEF Resolution!Resolved, Resolution!Reads, Resolution!planeVars
<1>2. c \in Look /\ LookHolds(c) /\ c.environment \in Environment
  BY <1>1 DEF ResolutionHolds, LookHolds, Look
<1>3. /\ d \in Deployment /\ d.release = c.release /\ MadeSince(d, c.environment, c.asked)
      /\ c.vouched \in Registered /\ c.vouched.digest = d.digest /\ c.vouched.status = "active"
  BY <1>1, <1>2 DEF LookHolds
<1>4. PICK k \in 1..Len(history[c.environment]) : k >= c.asked /\ history[c.environment][k] = d
  BY <1>3 DEF MadeSince
<1>5. d.revision = k
  BY <1>2, <1>4 DEF ResolutionHolds, Numbered
<1>6. AnswerHolds(a)
  BY <1>2, <1>3, <1>4, <1>5 DEF AnswerHolds, Look
<1>7. a \in [environment : Asked, release : Release, revision : Nat, digest : Digest,
             binding : Binding, asked : Nat, vouched : Registered]
  BY <1>2, <1>3 DEF Look, Deployment
<1> HIDE DEF a, c, d
<1>8. /\ resolved' \in Seq([environment : Asked, release : Release, revision : Nat, digest : Digest,
                            binding : Binding, asked : Nat, vouched : Registered])
      /\ \A i \in 1..Len(resolved') :
           \/ i \in 1..Len(resolved) /\ resolved'[i] = resolved[i]
           \/ resolved'[i] = a
  BY <1>1, <1>7 DEF ResolutionHolds
<1>9. ASSUME NEW i \in 1..Len(resolved') PROVE AnswerHolds(resolved[i])'
  <2>1. PICK x : x = resolved'[i]
    OBVIOUS
  <2>2. AnswerHolds(x)
    BY <1>6, <1>8, <1>9, <2>1 DEF ResolutionHolds
  <2>3. AnswerHolds(x)'
    BY <1>1, <2>2 DEF AnswerHolds
  <2>4. QED
    BY <2>1, <2>3
<1>10. lookup' \in [Resolver -> Look \cup {Nil}]
  BY <1>1 DEF ResolutionHolds
<1>11. ASSUME NEW p \in Resolver, lookup'[p] # Nil PROVE LookHolds(lookup[p])'
  <2>1. PICK x : x = lookup'[p]
    OBVIOUS
  <2>2. LookHolds(x)
    BY <1>1, <1>11, <2>1 DEF ResolutionHolds
  <2>3. LookHolds(x)'
    BY <1>1, <2>2 DEF LookHolds, MadeSince
  <2>4. QED
    BY <2>1, <2>3
<1>12. PlaneTypeOK' /\ \A e \in Environment : Numbered(e)'
  BY <1>1 DEF ResolutionHolds, PlaneTypeOK, Numbered
<1>13. QED
  BY <1>8, <1>9, <1>10, <1>11, <1>12 DEF ResolutionHolds

LEMMA ResolutionInitHolds == Resolution!Init => ResolutionHolds
<1> SUFFICES ASSUME Resolution!Init PROVE ResolutionHolds
  OBVIOUS
<1>1. PlaneTypeOK
  BY MaxRevisionAssumption DEF Resolution!Init, Resolution!PlaneInit, Resolution!Environment,
                               Environment, PlaneTypeOK
<1>2. \A e \in Environment : Numbered(e)
  BY DEF Resolution!Init, Resolution!PlaneInit, Resolution!Environment, Environment, Numbered
<1>3. resolved = <<>> /\ Len(resolved) = 0 /\ lookup = [q \in Resolver |-> Nil]
  BY DEF Resolution!Init
<1>4. QED
  BY <1>1, <1>2, <1>3 DEF ResolutionHolds

LEMMA ResolutionNextHolds ==
  ASSUME Asked \subseteq Environment, ResolutionHolds, [Resolution!Next]_(Resolution!vars)
  PROVE  ResolutionHolds'
<1>1. CASE UNCHANGED Resolution!vars
  <2>1. UNCHANGED <<releases, history, active, lookup, resolved>>
    BY <1>1 DEF Resolution!vars, Resolution!planeVars
  <2>2. QED
    BY <2>1 DEF ResolutionHolds, PlaneTypeOK, Numbered, LookHolds, MadeSince, AnswerHolds
<1>2. ASSUME NEW q \in Resolver, Resolution!Refuse(q) PROVE ResolutionHolds'
  <2>1. lookup' = [lookup EXCEPT ![q] = Nil] /\ UNCHANGED <<releases, history, active, resolved>>
    BY <1>2 DEF Resolution!Refuse, Resolution!planeVars
  <2>2. QED
    BY <2>1, ReadsOn
<1>3. QED
  BY <1>1, <1>2, PlaneStepHolds, ResolveHolds, GetActiveHolds, GetArtifactHolds,
     VerifyArtifactHolds, RevalidateHolds, ResolvedHolds DEF Resolution!Next

\* However the plane goes on between the reads of a request, the invariant holds of every
\* behaviour.
THEOREM ResolutionHoldsAlways ==
  ASSUME Asked \subseteq Environment PROVE Resolution!Spec => []ResolutionHolds
<1>1. Resolution!Init => ResolutionHolds
  BY ResolutionInitHolds
<1>2. ResolutionHolds /\ [Resolution!Next]_(Resolution!vars) => ResolutionHolds'
  BY ResolutionNextHolds
<1>3. QED
  BY <1>1, <1>2, PTL DEF Resolution!Spec

\* What is resolved is one deployment that was made in the environment that was asked
\* for, not older than the question, of an artifact that was live when it was verified
\* for the last time.
THEOREM WhatIsResolvedIsFresh ==
  ASSUME Asked \subseteq Environment
  PROVE  Resolution!Spec => [](Resolution!ResolutionIsADeployment /\ Resolution!ResolutionIsFresh)
<1>1. ResolutionHolds => Resolution!ResolutionIsFresh
  <2> SUFFICES ASSUME ResolutionHolds, NEW i \in DOMAIN resolved
               PROVE  /\ resolved[i].revision >= resolved[i].asked
                      /\ resolved[i].vouched.status = "active"
                      /\ resolved[i].vouched.digest = resolved[i].digest
    BY DEF Resolution!ResolutionIsFresh
  <2>1. AnswerHolds(resolved[i])
    BY DEF ResolutionHolds
  <2>2. QED
    BY <2>1 DEF AnswerHolds
<1>2. ResolutionHolds => Resolution!ResolutionIsADeployment
  <2> SUFFICES ASSUME ResolutionHolds, NEW i \in DOMAIN resolved
               PROVE  \E d \in {history[resolved[i].environment][k] : k \in DOMAIN history[resolved[i].environment]} :
                        <<d.revision, d.release, d.digest, d.binding>>
                          = <<resolved[i].revision, resolved[i].release, resolved[i].digest, resolved[i].binding>>
    BY DEF Resolution!ResolutionIsADeployment
  <2> DEFINE a == resolved[i]
  <2>1. AnswerHolds(a)
    BY DEF ResolutionHolds
  <2>2. a.environment \in Environment
    BY <2>1 DEF AnswerHolds
  <2>3. DOMAIN history[a.environment] = 1..Len(history[a.environment])
    BY <2>2 DEF ResolutionHolds, PlaneTypeOK
  <2> HIDE DEF a
  <2>4. QED
    BY <2>1, <2>3 DEF AnswerHolds, a
<1>3. QED
  BY <1>1, <1>2, ResolutionHoldsAlways, PTL
=============================================================================

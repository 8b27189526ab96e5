----------------------- MODULE ApplicationDeployment -----------------------
(***************************************************************************)
(* The deployment plane for applications on PostgreSQL.  Every plane       *)
(* process queues its own calls, but several run at once, and a call is a  *)
(* chain of transactions: it loads the release, reads the source and the   *)
(* target environment, and commits a deployment that was computed from     *)
(* them.  The commit takes a lock and checks again what may have changed.  *)
(***************************************************************************)
EXTENDS DeploymentPlane

CONSTANT Plane  \* processes; each has at most one call under way

VARIABLE call   \* what the call of each process has read so far

vars == <<planeVars, call>>

\* A call to activate a release: source and current are the revisions that
\* were active in the source and in the target environment when it looked.
Activation ==
  [step : {"artifact", "source", "current", "commit"}, environment : Environment,
   operation : {"publish", "promote", "rollback"}, release : Release, digest : Digest,
   binding : Binding, source : Nat, current : Nat]

Deprecation == [step : {"deprecate"}, release : Release]

TypeOK == PlaneTypeOK /\ call \in [Plane -> Activation \cup Deprecation \cup {Nil}]

Init == PlaneInit /\ call = [p \in Plane |-> Nil]

-----------------------------------------------------------------------------
At(p, step) == call[p] # Nil /\ call[p].step = step

Set(p, what) == call' = [call EXCEPT ![p] = what]

Goto(p, step) == Set(p, [call[p] EXCEPT !.step = step])

Begin(p, step, e, operation, r, d, b) ==
  Set(p, [step |-> step, environment |-> e, operation |-> operation, release |-> r,
          digest |-> d, binding |-> b, source |-> 0, current |-> 0])

\* publish, up to and including the transaction that registers the release
StartPublish(p, r, d, b) ==
  /\ call[p] = Nil
  /\ Register(r, d) \/ (Live(r, d) /\ UNCHANGED releases)
  /\ Begin(p, "current", "dev", "publish", r, d, b)
  /\ UNCHANGED <<history, active>>

\* promote, with the release loaded and verified
StartPromote(p, e, r, d, b) ==
  /\ call[p] = Nil
  /\ e # "dev"
  /\ Live(r, d)
  /\ Begin(p, "source", e, "promote", r, d, b)
  /\ UNCHANGED planeVars

\* rollback, with deployment i of the history read
StartRollback(p, e, i) ==
  /\ call[p] = Nil
  /\ i \in 1..Len(history[e])
  /\ Begin(p, "artifact", e, "rollback", history[e][i].release, history[e][i].digest,
           history[e][i].binding)
  /\ UNCHANGED planeVars

StartDeprecate(p, r) ==
  /\ call[p] = Nil
  /\ releases[r] # Nil
  /\ Set(p, [step |-> "deprecate", release |-> r])
  /\ UNCHANGED planeVars

LoadTarget(p) ==
  /\ At(p, "artifact")
  /\ Live(call[p].release, call[p].digest)
  /\ Goto(p, "current")
  /\ UNCHANGED planeVars

\* Mutant: the source environment may run anything.
ReadSourceAny(p) ==
  /\ At(p, "source")
  /\ Set(p, [call[p] EXCEPT !.source = active[Source(call[p].environment)], !.step = "current"])
  /\ UNCHANGED planeVars

ReadSource(p) ==
  /\ At(p, "source")
  /\ LET from == Source(call[p].environment) IN
       /\ Runs(from, call[p].release, call[p].digest)
       /\ Set(p, [call[p] EXCEPT !.source = active[from], !.step = "current"])
  /\ UNCHANGED planeVars

ReadCurrent(p) ==
  /\ At(p, "current")
  /\ LET c == call[p] IN
       IF InPlace(c.environment, c.release, c.digest, c.binding) THEN Set(p, Nil)
       ELSE Set(p, [c EXCEPT !.current = active[c.environment], !.step = "commit"])
  /\ UNCHANGED planeVars

\* Mutant: the source is not looked at again.
SourceAsRead(c) == c.operation = "promote" => c.source # 0

\* The source of a promotion is still the deployment that was read.
SourceHolds(c) == c.operation = "promote" => active[Source(c.environment)] = c.source

\* Mutant: the commit does not compare what is active with what was read.
ExtendsAny(c) == c.current \in 0..MaxRevision

\* The deployment computed from what was read extends what is active now.
Extends(c) == active[c.environment] = c.current

Computed(c) ==
  [revision |-> c.current + 1, previous |-> c.current, release |-> c.release,
   digest |-> c.digest, binding |-> c.binding, operation |-> c.operation]

\* Mutant: the status of the release is not read again.
CommittableAsLoaded(c) == SourceHolds(c) /\ releases[c.release] # Nil /\ Extends(c)

\* The checks of commitDeployment, made under its locks.
Committable(c) == SourceHolds(c) /\ Live(c.release, c.digest) /\ Extends(c)

CommitDeployment(p) ==
  /\ At(p, "commit")
  /\ LET c == call[p] IN
       /\ c.current < MaxRevision
       /\ Committable(c)
       /\ history' = [history EXCEPT ![c.environment] = Append(@, Computed(c))]
       /\ active' = [active EXCEPT ![c.environment] = c.current + 1]
  /\ Set(p, Nil)
  /\ UNCHANGED releases

SetDeprecated(p) ==
  /\ At(p, "deprecate")
  /\ releases' = [releases EXCEPT ![call[p].release].status = "deprecated"]
  /\ Set(p, Nil)
  /\ UNCHANGED <<history, active>>

\* A check of the call fails, or its transaction does: it answers with an error.
Fail(p) ==
  /\ call[p] # Nil
  /\ Set(p, Nil)
  /\ UNCHANGED planeVars

Next == \E p \in Plane :
  \/ \E r \in Release, d \in Digest, b \in Binding : StartPublish(p, r, d, b)
  \/ \E e \in Environment, r \in Release, d \in Digest, b \in Binding :
       StartPromote(p, e, r, d, b)
  \/ \E e \in Environment : \E i \in 1..MaxRevision : StartRollback(p, e, i)
  \/ \E r \in Release : StartDeprecate(p, r)
  \/ LoadTarget(p) \/ ReadSource(p) \/ ReadCurrent(p)
  \/ CommitDeployment(p) \/ SetDeprecated(p) \/ Fail(p)

Spec == Init /\ [][Next]_vars

-----------------------------------------------------------------------------
(* Properties *)

\* The revisions of an environment are 1, 2, ... without gap or repetition,
\* each names the one before, and the last one is active, although they are
\* computed from a read that several processes may share.
HistoryIsAChain == \A e \in Environment :
  /\ active[e] = Len(history[e])
  /\ \A i \in 1..Len(history[e]) : history[e][i].revision = i /\ history[e][i].previous = i - 1

\* "promotion must move one exact Application release one adjacent environment
\* forward": whatever was ever deployed in staging or production was deployed in the
\* environment before it, although the source is read in another transaction.
EveryReleaseCameThrough == \A e \in Environment \ {"dev"} :
  \A i \in 1..Len(history[e]) : \E j \in 1..Len(history[Source(e)]) :
    /\ history[Source(e)][j].release = history[e][i].release
    /\ history[Source(e)][j].digest = history[e][i].digest

\* What a deployment plane has done can be audited: its history has no gap, and
\* what is in production came through staging.
DeploymentsAreSound == HistoryIsAChain /\ EveryReleaseCameThrough

\* No environment is put on a release after its deprecation has been answered,
\* however old the read is that said it was active.
NoDeprecatedActivation ==
  [][\A e \in Environment : active'[e] # active[e] =>
       LET d == history'[e][active'[e]] IN Live(d.release, d.digest)]_vars
-----------------------------------------------------------------------------
(* The inductive invariant behind the properties: what a call has read was   *)
(* so, and is so still while the revision it came with is active.            *)

Activating(p) == call[p] # Nil /\ call[p].step # "deprecate"

\* A deprecation is of a release that is there.
DeprecatedIsRegistered == \A p \in Plane : At(p, "deprecate") => releases[call[p].release] # Nil

\* An operation is on the environments it is for; a rollback names a deployment
\* of its environment, and only a rollback loads its artifact that way.
OperationFits == \A p \in Plane : Activating(p) =>
  LET c == call[p] IN
    /\ c.operation = "publish" => c.environment = "dev"
    /\ c.operation = "promote" => c.environment # "dev"
    /\ c.step = "artifact" => c.operation = "rollback"
    /\ c.operation = "rollback" =>
         \E i \in 1..Len(history[c.environment]) :
           LET d == history[c.environment][i] IN
             d.release = c.release /\ d.digest = c.digest /\ d.binding = c.binding

\* The source that was read ran the release of the call.
SourceRan == \A p \in Plane : Activating(p) =>
  LET c == call[p] IN
    c.operation = "promote" /\ c.step \in {"current", "commit"} =>
      /\ c.source <= active[Source(c.environment)]
      /\ active[Source(c.environment)] = c.source =>
           Runs(Source(c.environment), c.release, c.digest)

\* The target that was read did not run it under this binding.
TargetDiffers == \A p \in Plane : At(p, "commit") =>
  LET c == call[p] IN
    /\ c.current <= active[c.environment]
    /\ active[c.environment] = c.current =>
         ~InPlace(c.environment, c.release, c.digest, c.binding)

\* All of it.
ReadsHold == /\ TypeOK
             /\ DeploymentsAreSound
             /\ DeprecatedIsRegistered
             /\ OperationFits
             /\ SourceRan
             /\ TargetDiffers
=============================================================================

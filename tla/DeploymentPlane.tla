-------------------------- MODULE DeploymentPlane --------------------------
(***************************************************************************)
(* What a deployment plane promises for one application: a release is one  *)
(* signed artifact for ever, an environment moves along a chain of         *)
(* deployments, and an artifact reaches an environment by running in the   *)
(* one before it or by having run there before.  This is the plane in      *)
(* memory, whose calls are queued, so that each is one step.               *)
(***************************************************************************)
EXTENDS Naturals, Sequences

CONSTANTS
  Nil,
  Release,     \* the versions of the application
  Digest,      \* the artifacts signed for them
  Binding,     \* environment bindings (the plane for Packs has one)
  MaxRevision  \* bound, and the code's limit: no deployment beyond this revision

ASSUME MaxRevisionAssumption == MaxRevision \in Nat

VARIABLES
  releases,  \* the registered releases: digest and status
  history,   \* the deployments of each environment
  active     \* the revision active in each environment, 0 for none

planeVars == <<releases, history, active>>

Environment == {"dev", "staging", "production"}

Registered == [digest : Digest, status : {"active", "deprecated"}]

ASSUME NilAssumption == Nil \notin Registered

Deployment == [revision : Nat, previous : Nat, release : Release, digest : Digest,
               binding : Binding, operation : {"publish", "promote", "rollback"}]

PlaneTypeOK ==
  /\ releases \in [Release -> Registered \cup {Nil}]
  /\ history \in [Environment -> Seq(Deployment)]
  /\ active \in [Environment -> 0..MaxRevision]

PlaneInit ==
  /\ releases = [r \in Release |-> Nil]
  /\ history = [e \in Environment |-> <<>>]
  /\ active = [e \in Environment |-> 0]

-----------------------------------------------------------------------------
\* adjacentPromotion: the environment a promotion to e comes from.
Source(e) == IF e = "staging" THEN "dev" ELSE "staging"

\* Release r with digest d can be activated.
Live(r, d) == releases[r] # Nil /\ releases[r].digest = d /\ releases[r].status = "active"

\* Environment e runs release r with digest d.
Runs(e, r, d) ==
  /\ active[e] # 0
  /\ history[e][active[e]].release = r
  /\ history[e][active[e]].digest = d

\* Environment e runs it under this binding, and need not be deployed to.
InPlace(e, r, d, b) == Runs(e, r, d) /\ history[e][active[e]].binding = b

\* The deployment that follows the active one.
NextDeployment(e, r, d, b, operation) ==
  [revision |-> active[e] + 1, previous |-> active[e], release |-> r, digest |-> d,
   binding |-> b, operation |-> operation]

Deploy(e, r, d, b, operation) ==
  /\ ~InPlace(e, r, d, b)
  /\ active[e] < MaxRevision
  /\ history' = [history EXCEPT ![e] = Append(@, NextDeployment(e, r, d, b, operation))]
  /\ active' = [active EXCEPT ![e] = @ + 1]

\* storeVerified: the version is new.
Register(r, d) ==
  /\ releases[r] = Nil
  /\ releases' = [releases EXCEPT ![r] = [digest |-> d, status |-> "active"]]

\* A publication that registers its release and deploys nothing.
PublishUndeployed(r, d) == Register(r, d) /\ UNCHANGED <<history, active>>

Publish(r, d, b) ==
  /\ Register(r, d) \/ (Live(r, d) /\ UNCHANGED releases)
  /\ Deploy("dev", r, d, b, "publish")

Promote(e, r, d, b) ==
  /\ e # "dev"
  /\ Live(r, d)
  /\ Runs(Source(e), r, d)
  /\ Deploy(e, r, d, b, "promote")
  /\ UNCHANGED releases

\* Back to deployment i of the environment.
Rollback(e, i) ==
  /\ i \in 1..Len(history[e])
  /\ LET target == history[e][i] IN
       /\ Live(target.release, target.digest)
       /\ Deploy(e, target.release, target.digest, target.binding, "rollback")
  /\ UNCHANGED releases

Deprecate(r) ==
  /\ releases[r] # Nil
  /\ releases' = [releases EXCEPT ![r].status = "deprecated"]
  /\ UNCHANGED <<history, active>>

PlaneNext ==
  \/ \E r \in Release, d \in Digest : PublishUndeployed(r, d)
  \/ \E r \in Release, d \in Digest, b \in Binding : Publish(r, d, b)
  \/ \E e \in Environment, r \in Release, d \in Digest, b \in Binding : Promote(e, r, d, b)
  \/ \E e \in Environment : \E i \in 1..MaxRevision : Rollback(e, i)
  \/ \E r \in Release : Deprecate(r)

\* The plane in memory; the processes of a plane on PostgreSQL together behave
\* like one (ApplicationDeployment).
PlaneSpec == PlaneInit /\ [][PlaneNext]_planeVars
=============================================================================

------------------------ MODULE ApplicationResolution ------------------------
(* A resolver turns a release and an environment into the exact artifact and  *)
(* deployment an application runs from.  It reads the active deployment, then *)
(* the release, then verifies the artifact again, while the plane goes on.    *)
EXTENDS DeploymentPlane

CONSTANTS
  Asked,        \* the environments that are asked for
  Resolver,     \* requests that may be under way at once
  MaxResolved   \* bound: the answers that are kept

VARIABLES
  lookup,       \* what the request of each resolver has read so far
  resolved      \* history: what was answered, with what held when it was asked

vars == <<planeVars, lookup, resolved>>

Init ==
  /\ PlaneInit
  /\ lookup = [q \in Resolver |-> Nil]
  /\ resolved = <<>>

\* resolve, of a release in an environment; asked and vouched are history: what held
\* when the request came, and when the artifact was verified.
Resolve(q, e, r) ==
  /\ lookup[q] = Nil
  /\ lookup' = [lookup EXCEPT ![q] =
       [step |-> "active", environment |-> e, release |-> r, deployment |-> Nil,
        asked |-> active[e], vouched |-> Nil]]
  /\ UNCHANGED <<planeVars, resolved>>

Reads(q, step) == lookup[q] # Nil /\ lookup[q].step = step

\* lookupActive, its first transaction
GetActive(q) ==
  /\ Reads(q, "active")
  /\ LET c == lookup[q] IN
       /\ active[c.environment] # 0
       /\ LET d == history[c.environment][active[c.environment]] IN
            /\ d.release = c.release
            /\ lookup' = [lookup EXCEPT ![q].deployment = d, ![q].step = "artifact"]
  /\ UNCHANGED <<planeVars, resolved>>

\* lookupActive, its second transaction, and the checks of resolve
GetArtifact(q) ==
  /\ Reads(q, "artifact")
  /\ Live(lookup[q].release, lookup[q].deployment.digest)
  /\ lookup' = [lookup EXCEPT ![q].step = "trust"]
  /\ UNCHANGED <<planeVars, resolved>>

\* verifyArtifact: the trust provider (external) vouches for integrity, provenance
\* and signature; where it does not, the request is refused.
VerifyArtifact(q) ==
  /\ Reads(q, "trust")
  /\ lookup' = [lookup EXCEPT ![q].step = "revalidate", ![q].vouched = releases[lookup[q].release]]
  /\ UNCHANGED <<planeVars, resolved>>

\* The artifact is verified again, the release is not read again.
RevalidateOffline(q) ==
  /\ Reads(q, "revalidate")
  /\ lookup' = [lookup EXCEPT ![q].step = "digest"]
  /\ UNCHANGED <<planeVars, resolved>>

\* verifyCachedApplication reads the release again.
Revalidate(q) ==
  /\ Reads(q, "revalidate")
  /\ Live(lookup[q].release, lookup[q].deployment.digest)
  /\ lookup' = [lookup EXCEPT ![q].step = "digest"]
  /\ UNCHANGED <<planeVars, resolved>>

\* The digest provider answers, and so does resolve.
Resolved(q) ==
  /\ Reads(q, "digest")
  /\ Len(resolved) < MaxResolved
  /\ LET c == lookup[q] IN
       resolved' = Append(resolved,
         [environment |-> c.environment, release |-> c.release, revision |-> c.deployment.revision,
          digest |-> c.deployment.digest, binding |-> c.deployment.binding,
          asked |-> c.asked, vouched |-> c.vouched])
  /\ lookup' = [lookup EXCEPT ![q] = Nil]
  /\ UNCHANGED planeVars

\* Whatever is read does not fit, or a source or the digest fails: an error.
Refuse(q) ==
  /\ lookup[q] # Nil
  /\ lookup' = [lookup EXCEPT ![q] = Nil]
  /\ UNCHANGED <<planeVars, resolved>>

\* The plane, as far as it changes the environments that are asked for.
PlaneStep ==
  \/ \E r \in Release, d \in Digest, b \in Binding : Publish(r, d, b)
  \/ \E e \in Asked, r \in Release, d \in Digest, b \in Binding : Promote(e, r, d, b)
  \/ \E e \in Asked : \E i \in 1..MaxRevision : Rollback(e, i)
  \/ \E r \in Release : Deprecate(r)

Next ==
  \/ PlaneStep /\ UNCHANGED <<lookup, resolved>>
  \/ \E q \in Resolver :
       \/ \E e \in Asked, r \in Release : Resolve(q, e, r)
       \/ GetActive(q) \/ GetArtifact(q) \/ VerifyArtifact(q) \/ Revalidate(q)
       \/ Resolved(q) \/ Refuse(q)

Spec == Init /\ [][Next]_vars

TypeOK ==
  /\ PlaneTypeOK
  /\ DOMAIN lookup = Resolver

\* A resolution is one deployment that was made: release, artifact and binding
\* are those of the revision it names, in the environment it was asked for,
\* although the reads are transactions of their own.
ResolutionIsADeployment ==
  \A i \in DOMAIN resolved : LET a == resolved[i] IN
    \E d \in {history[a.environment][k] : k \in DOMAIN history[a.environment]} :
      <<d.revision, d.release, d.digest, d.binding>> = <<a.revision, a.release, a.digest, a.binding>>

\* It is not older than the question, and a deprecation stops the requests
\* under way: the deployment was active when it was asked for or became so
\* later, and the release was live when its artifact was verified the last time.
ResolutionIsFresh ==
  \A i \in DOMAIN resolved : LET a == resolved[i] IN
    /\ a.revision >= a.asked
    /\ a.vouched.status = "active" /\ a.vouched.digest = a.digest
=============================================================================

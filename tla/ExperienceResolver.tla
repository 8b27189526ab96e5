-------------------------- MODULE ExperienceResolver --------------------------
(* Experience Packs between a registry and a host: the manifest of a pack, the *)
(* registry's snapshot, the marketplace that lists it, what a host can show,   *)
(* and the resolver of one host, which awaits three functions that it trusts   *)
(* while others ask for, release and dispose of what it mounts.  Identities    *)
(* and versions are numbered in the order of their texts.                      *)
EXTENDS Naturals, Sequences, FiniteSets, Functions, SequencesExt, Folds

CONSTANTS
  Refused, Missing,
  MaxArtifacts, MaxEntrypoints, MaxManifests, MaxListings, MaxMatches, MaxImplementations, MaxCapabilities,
  Call, Instance, Deployment,
  Registry,        \* the snapshot the resolver was made with
  Host,            \* the host's capability manifest
  Target,          \* what the resolver of deployments may answer
  Requirement,     \* what the function that derives a requirement may answer
  MaxInstances

-----------------------------------------------------------------------------
(* Packs and the registry *)

MediaTypes(role) ==
  CASE role = "studio-publication" -> {"application/json"}
    [] role = "asset"              -> {"image/png", "image/jpeg", "image/webp", "image/avif"}
    [] OTHER                       -> {}

ArtifactIsValid(artifact) == artifact.mediaType \in MediaTypes(artifact.role)

MetadataIsValid(pack) == IsInjective(pack.tags)

CompatibilityIsValid(pack) == pack.max # Missing => pack.min <= pack.max

ArtifactsOf(pack, id) == {a \in Range(pack.artifacts) : a.id = id}

\* A pack belongs to the publisher that its identity names; its artifacts have
\* identities of their own; its entrypoints are Studio publications among them.
PackIsValid(pack) ==
  /\ pack.namespace = pack.publisher
  /\ MetadataIsValid(pack)
  /\ CompatibilityIsValid(pack)
  /\ Len(pack.artifacts) \in 1..MaxArtifacts
  /\ \A i, j \in DOMAIN pack.artifacts :
       /\ ArtifactIsValid(pack.artifacts[i])
       /\ pack.artifacts[i].id = pack.artifacts[j].id => i = j
  /\ Len(pack.entrypoints) \in 1..MaxEntrypoints
  /\ IsInjective(pack.entrypoints)
  /\ \A e \in Range(pack.entrypoints) :
       \E a \in ArtifactsOf(pack, e) : a.role = "studio-publication"

SameRelease(x, y) == x.id = y.id /\ x.version = y.version

ReleaseBefore(x, y) == x.id < y.id \/ (x.id = y.id /\ x.version < y.version)

\* Mutant: what comes is put after the first that it does not belong before.
InsertAfterOne(sorted, x) ==
  LET later == SelectInSeq(sorted, LAMBDA y : ReleaseBefore(x, y))
  IN  InsertAt(sorted, IF later = 0 THEN Len(sorted) + 1 ELSE 1, x)

\* What comes is put before the first that it belongs before.
Insert(sorted, x) ==
  LET later == SelectInSeq(sorted, LAMBDA y : ReleaseBefore(x, y))
  IN  InsertAt(sorted, IF later = 0 THEN Len(sorted) + 1 ELSE later, x)

Holds(sorted, x) == \E y \in Range(sorted) : SameRelease(x, y)

Snapshot(packs) ==
  IF Len(packs) > MaxManifests THEN Refused
  ELSE FoldLeft(LAMBDA sorted, pack :
                  IF sorted = Refused \/ ~PackIsValid(pack) \/ Holds(sorted, pack)
                  THEN Refused ELSE Insert(sorted, pack),
                <<>>, packs)

Lookup(registry, reference) ==
  LET i == SelectInSeq(registry, LAMBDA y : SameRelease(y, reference))
  IN  IF i = 0 THEN Missing ELSE registry[i]

-----------------------------------------------------------------------------
(* The marketplace *)

EntryOf(pack) ==
  [id |-> pack.id, version |-> pack.version, publisher |-> pack.publisher, tags |-> pack.tags,
   words |-> pack.words, min |-> pack.min, max |-> pack.max]

Catalogue(registry, listings) ==
  IF Len(listings) > MaxListings THEN Refused
  ELSE FoldLeft(LAMBDA entries, listing :
                  IF entries = Refused \/ Lookup(registry, listing) = Missing
                     \/ Holds(entries, listing)
                  THEN Refused ELSE Insert(entries, EntryOf(Lookup(registry, listing))),
                <<>>, listings)

QueryIsValid(query) == query.limit = Missing \/ query.limit \in 1..MaxMatches

Matches(query, entry) ==
  /\ query.publisher \in {Missing, entry.publisher}
  /\ query.tag = Missing \/ query.tag \in Range(entry.tags)
  /\ query.text = Missing \/ query.text \in entry.words

Query(entries, query) ==
  IF ~QueryIsValid(query) THEN Refused
  ELSE LET found == SelectSeq(entries, LAMBDA e : Matches(query, e))
       IN  IF query.limit = Missing \/ Len(found) <= query.limit THEN found
           ELSE SubSeq(found, 1, query.limit)

-----------------------------------------------------------------------------
(* What a host can show *)

ImplementationsAreValid(ids) == Len(ids) <= MaxImplementations /\ IsInjective(ids)

CapabilitiesAreValid(capabilities) == Len(capabilities) <= MaxCapabilities /\ IsInjective(capabilities)

Platform == {"web", "ios", "android"}

ManifestIsValid(host) ==
  /\ host.platform \in Platform
  /\ ImplementationsAreValid(host.implementations)
  /\ CapabilitiesAreValid(host.capabilities)

RequirementIsValid(requirement) ==
  /\ requirement.platform \in Platform
  /\ ImplementationsAreValid(requirement.implementations)
  /\ CapabilitiesAreValid(requirement.capabilities)

Compatible(host, requirement) ==
  /\ host.platform = requirement.platform
  /\ Range(requirement.implementations) \subseteq Range(host.implementations)
  /\ Range(requirement.capabilities) \subseteq Range(host.capabilities)

-----------------------------------------------------------------------------
(* Whatever order they come in *)

Reordered(s, order) == [i \in DOMAIN s |-> s[order[i]]]
Orders(s) == {order \in [DOMAIN s -> DOMAIN s] : IsInjective(order)}

\* A registry is the same in whatever order its manifests come (registry.ts
\* inserts each in its place), holds every one of them, and nothing twice.
RegistryIsCanonical(packs) ==
  LET registry == Snapshot(packs)
  IN  /\ \A order \in Orders(packs) : Snapshot(Reordered(packs, order)) = registry
      /\ registry # Refused =>
           /\ Range(registry) = Range(packs) /\ Len(registry) = Len(packs)
           /\ \A i \in DOMAIN packs : Lookup(registry, packs[i]) = packs[i]

\* The marketplace lists what the registry has, as it has it; a query finds with a
\* limit the first of what it finds without, and leaves out nothing that matches
\* (catalog.ts, query.ts).
MarketIsFaithful(packs, listings, query) ==
  LET registry == Snapshot(packs)
      entries  == Catalogue(registry, listings)
      all      == Query(entries, [query EXCEPT !.limit = Missing])
      some     == Query(entries, query)
  IN  (registry # Refused /\ entries # Refused /\ some # Refused) =>
        /\ IsPrefix(some, all)
        /\ {e \in Range(entries) : Matches(query, e)} = Range(all)
        /\ \A e \in Range(entries) : e = EntryOf(Lookup(registry, e))
        /\ \A order \in Orders(listings) : Catalogue(registry, Reordered(listings, order)) = entries

-----------------------------------------------------------------------------
(* The resolver *)

VARIABLES mounted, pending, calls, disposed

vars == <<mounted, pending, calls, disposed>>

Idle == [at |-> "idle", instance |-> Missing, deployment |-> Missing, artifact |-> Missing]
Mounted == {i \in Instance : mounted[i] # Missing}
InFlight == {c \in Call : calls[c].at \in {"deployment", "publication", "requirement"}}

Init ==
  /\ mounted = [i \in Instance |-> Missing]
  /\ pending = {}
  /\ calls = [c \in Call |-> Idle]
  /\ disposed = FALSE

\* What an `await` returns to, the `finally` of resolve included.
Fail(c) ==
  /\ pending' = pending \ {calls[c].instance}
  /\ calls' = [calls EXCEPT ![c] = Idle]
  /\ UNCHANGED <<mounted, disposed>>

\* Mutant: an instance that is still being resolved may be asked for again.
RequestUnmounted(c, i, d) ==
  /\ calls[c].at = "idle" /\ ~disposed
  /\ i \notin Mounted
  /\ Cardinality(Mounted) + Cardinality(pending) < MaxInstances
  /\ pending' = pending \cup {i}
  /\ calls' = [calls EXCEPT ![c] =
                 [at |-> "deployment", instance |-> i, deployment |-> d, artifact |-> Missing]]
  /\ UNCHANGED <<mounted, disposed>>

Request(c, i, d) ==
  /\ calls[c].at = "idle" /\ ~disposed
  /\ i \notin Mounted /\ i \notin pending
  /\ Cardinality(Mounted) + Cardinality(pending) < MaxInstances
  /\ pending' = pending \cup {i}
  /\ calls' = [calls EXCEPT ![c] =
                 [at |-> "deployment", instance |-> i, deployment |-> d, artifact |-> Missing]]
  /\ UNCHANGED <<mounted, disposed>>

\* The pack and the artifact that a deployment's target names, if there are such.
EntrypointArtifact(target) ==
  LET pack == Lookup(Registry, target)
  IN  IF pack = Missing THEN Missing
      ELSE IF target.entrypoint \notin Range(pack.entrypoints) THEN Missing
      ELSE [release |-> [id |-> pack.id, version |-> pack.version],
            artifact |-> CHOOSE a \in ArtifactsOf(pack, target.entrypoint) : TRUE]

TargetIsValid(target, c) == target # Refused /\ target.deployment = calls[c].deployment

DeploymentResolved(c, target) ==
  /\ calls[c].at = "deployment"
  /\ IF TargetIsValid(target, c) /\ EntrypointArtifact(target) # Missing
     THEN /\ calls' = [calls EXCEPT ![c].at = "publication", ![c].artifact = EntrypointArtifact(target)]
          /\ UNCHANGED <<mounted, pending, disposed>>
     ELSE Fail(c)

PublicationResolved(c, isObject) ==
  /\ calls[c].at = "publication"
  /\ IF isObject
     THEN /\ calls' = [calls EXCEPT ![c].at = "requirement"]
          /\ UNCHANGED <<mounted, pending, disposed>>
     ELSE Fail(c)

Mount(c) ==
  /\ mounted' = [mounted EXCEPT ![calls[c].instance] =
                   [deployment |-> calls[c].deployment, artifact |-> calls[c].artifact]]
  /\ pending' = pending \ {calls[c].instance}
  /\ calls' = [calls EXCEPT ![c] = Idle]
  /\ UNCHANGED disposed

\* Mutant: the resolver is not asked again whether it has been disposed of.
RequirementDerivedLate(c, requirement) ==
  /\ calls[c].at = "requirement"
  /\ IF requirement # Refused /\ RequirementIsValid(requirement) /\ Compatible(Host, requirement)
     THEN Mount(c) ELSE Fail(c)

RequirementDerived(c, requirement) ==
  /\ calls[c].at = "requirement"
  /\ IF /\ requirement # Refused /\ RequirementIsValid(requirement)
        /\ Compatible(Host, requirement) /\ ~disposed
     THEN Mount(c) ELSE Fail(c)

\* An instance that is being resolved is not released: it is mounted all the same.
ReleaseInstance(i) ==
  /\ ~disposed /\ i \in Mounted
  /\ mounted' = [mounted EXCEPT ![i] = Missing]
  /\ UNCHANGED <<pending, calls, disposed>>

Dispose ==
  /\ ~disposed
  /\ disposed' = TRUE
  /\ mounted' = [i \in Instance |-> Missing]
  /\ pending' = {}
  /\ UNCHANGED calls

Next ==
  \/ \E c \in Call :
       \/ \E i \in Instance, d \in Deployment : Request(c, i, d)
       \/ \E target \in Target : DeploymentResolved(c, target)
       \/ \E isObject \in BOOLEAN : PublicationResolved(c, isObject)
       \/ \E requirement \in Requirement : RequirementDerived(c, requirement)
  \/ \E i \in Instance : ReleaseInstance(i)
  \/ Dispose

TypeOK ==
  /\ pending \subseteq Instance
  /\ disposed \in BOOLEAN
  /\ \A c \in Call : calls[c] # Idle => calls[c].instance \in Instance /\ calls[c].deployment \in Deployment

\* What is reserved is what a call in flight will mount: an instance is asked for
\* by one call at a time and never while it is mounted, no more are mounted or on
\* their way than the limit, and a resolver that was disposed of while its
\* functions were awaited ends empty (resolver.ts resolve, dispose).
ReservationsAreCalls ==
  /\ IF disposed THEN pending = {} /\ Mounted = {}
     ELSE /\ pending = {calls[c].instance : c \in InFlight}
          /\ pending \cap Mounted = {}
          /\ \A c, d \in InFlight : calls[c].instance = calls[d].instance => c = d
  /\ Cardinality(Mounted) + Cardinality(pending) <= MaxInstances

\* What is mounted is an entrypoint that a registered pack publishes, of the
\* deployment that was asked for, and stays until it is released or disposed of.
MountedIsPublished ==
  \A i \in Mounted :
    LET pack == Lookup(Registry, mounted[i].artifact.release)
    IN  /\ pack # Missing
        /\ mounted[i].artifact.artifact \in Range(pack.artifacts)
        /\ mounted[i].artifact.artifact.id \in Range(pack.entrypoints)
        /\ \E t \in Target : t # Refused /\ t.deployment = mounted[i].deployment /\ SameRelease(t, pack)
=============================================================================

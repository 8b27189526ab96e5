--------------------------- MODULE CapabilitySupply ---------------------------
(* What a provider can be asked, and on whose word: capability definitions,    *)
(* the connections and the trust evidence that stand behind them, the supply   *)
(* several sources report, the routes a policy draws through it, the action a  *)
(* connection resolves to, the query a host runs, and what a provider is seen  *)
(* to have done. All of it is decided from the values handed in.               *)
EXTENDS Integers, Sequences, SequencesExt, FiniteSetsExt

CONSTANTS
  Missing, Refused,
  FloatingVersions,                \* what names no one version
  MaxSources, MaxPerSource, MaxTotal, MaxContexts, MaxBindings, MaxScopes, MaxItems,
  FailoverReasons, ItemKinds, ForbiddenSegments,
  IndexOf,                         \* the pointer segments that are array positions
  ForbiddenKeys,                   \* fields an observation may not carry
  Instants

Distinct(list) == Cardinality(Range(list)) = Len(list)
Each(list, Of(_)) == [k \in DOMAIN list |-> Of(list[k])]
Before(a, b) == \E k \in DOMAIN a : a[k] < b[k] /\ \A j \in 1..(k - 1) : a[j] = b[j]

-----------------------------------------------------------------------------
(* Definitions and contexts *)

ReferenceIsExact(reference) == reference.version \notin FloatingVersions
NullOrExact(reference) == reference = Missing \/ ReferenceIsExact(reference)
ReferencesAreExact(list, limit) ==
  Len(list) <= limit /\ Distinct(list) /\ \A k \in DOMAIN list : ReferenceIsExact(list[k])

RequirementsAreValid(contexts) == ReferencesAreExact(contexts, MaxContexts)
InvocationIsValid(kind, action) == kind \in {"query", "action"} /\ (kind = "query" <=> action = Missing)
CapabilityIsValid(capability) ==
  /\ capability.namespace = capability.publisher
  /\ NullOrExact(capability.input) /\ NullOrExact(capability.output)
  /\ RequirementsAreValid(capability.contexts)
  /\ InvocationIsValid(capability.kind, capability.action)
ReleaseOf(capability) == [id |-> capability.id, version |-> capability.version]

\* The second schema names an action's release, the first only its type.
Projected(capability) ==
  [capability EXCEPT !.action = IF capability.kind = "action" THEN capability.action.id ELSE Missing]
CapabilityV2IsValid(capability) ==
  /\ capability.kind = "action" => ReferenceIsExact(capability.action)
  /\ CapabilityIsValid(Projected(capability))

ProvenanceIsValid(provenance) == ReferencesAreExact(provenance, MaxContexts)
ItemIsValid(item) == item.kind \in ItemKinds /\ NullOrExact(item.type) /\ ProvenanceIsValid(item.provenance)
ItemsAreValid(items) ==
  /\ Len(items) <= MaxItems
  /\ \A k \in DOMAIN items : ItemIsValid(items[k])
  /\ Distinct(Each(items, LAMBDA item : item.id))
ContextIsValid(context) == ReferenceIsExact(context.type) /\ ItemsAreValid(context.items)

-----------------------------------------------------------------------------
(* What sources supply *)

BindingIsValid(binding) == ReferenceIsExact(binding.ref) /\ ReferenceIsExact(binding.capability)

RecordIsValid(supply) ==
  /\ CapabilityIsValid(supply.capability) /\ supply.capability.kind = "query"
  /\ BindingIsValid(supply.binding)
  /\ supply.binding.capability = ReleaseOf(supply.capability)

Records(sources) == UNION {Range(sources[k].supplies) : k \in DOMAIN sources}
SnapshotIsValid(sources) ==
  /\ Len(sources) <= MaxSources
  /\ Distinct(Each(sources, LAMBDA source : source.id))
  /\ \A k \in DOMAIN sources :
       /\ Len(sources[k].supplies) <= MaxPerSource
       /\ Distinct(Each(sources[k].supplies, LAMBDA supply : supply.binding.ref))
  /\ FoldLeft(LAMBDA sum, source : sum + Len(source.supplies), 0, sources) <= MaxTotal
  /\ \A a, b \in Records(sources) :
       /\ RecordIsValid(a)
       /\ ReleaseOf(a.capability) = ReleaseOf(b.capability) => a.capability = b.capability
       /\ a.binding.ref = b.binding.ref => a.binding = b.binding

\* A binding without a location sorts as the empty text does.
SupplyOrder(supply) ==
  <<supply.capability.id, supply.capability.version, supply.binding.provider,
    IF supply.binding.location = Missing THEN 0 ELSE supply.binding.location,
    supply.binding.ref.id, supply.binding.ref.version>>
InOrder(supplies) == SetToSortSeq(supplies, LAMBDA a, b : Before(SupplyOrder(a), SupplyOrder(b)))
\* Mutant: the sources stay in the order they reported in.
SnapshotAsReported(sources) == sources

Snapshot(sources) ==
  [k \in DOMAIN sources |->
     LET source == SetToSortSeq(Range(sources), LAMBDA a, b : a.id < b.id)[k]
     IN  [source EXCEPT !.supplies = InOrder(Range(source.supplies))]]

Asked(supply, query) ==
  /\ ReleaseOf(supply.capability) = query.capability
  /\ query.provider \in {Missing, supply.binding.provider}
  /\ query.location \in {Missing, supply.binding.location}
Lookup(sources, query) ==
  IF ~SnapshotIsValid(sources) \/ ~ReferenceIsExact(query.capability) THEN Refused ELSE
  LET found      == InOrder({supply \in Records(sources) : Asked(supply, query)})
      Holds(supply, source) == supply \in Range(source.supplies)
      Reporting(supply) == SelectSeq(Snapshot(sources), LAMBDA source : Holds(supply, source))
  IN  Each(found, LAMBDA supply : [supply  |-> supply,
                                   sources |-> Each(Reporting(supply), LAMBDA source : source.id)])

-----------------------------------------------------------------------------
(* A route through the supply *)

NamesAreDistinct(list) == list # <<>> /\ Distinct(list)
ReasonsAreValid(reasons) == NamesAreDistinct(reasons) /\ Range(reasons) \subseteq FailoverReasons
PolicyIsValid(policy) ==
  /\ ReferenceIsExact(policy.capability)
  /\ NamesAreDistinct(policy.order) /\ \A k \in DOMAIN policy.order : ReferenceIsExact(policy.order[k])
  /\ NamesAreDistinct(policy.locations) /\ ReasonsAreValid(policy.reasons)
OfferIsValid(offer) == ReferenceIsExact(offer.binding)

\* The scope of the offers, which must be one.
CommonScope(offers) == IF Cardinality({o.trust.scope : o \in offers}) = 1
                       THEN (CHOOSE o \in offers : TRUE).trust.scope ELSE Refused

MeetsTerms(supply, offer, policy, now) ==
  /\ offer.trust.provider = supply.binding.provider
  /\ now < offer.trust.until
  /\ supply.binding.location # Missing /\ supply.binding.location \in Range(policy.locations)
  /\ offer.availability >= policy.availability /\ offer.latency <= policy.latency
  /\ offer.currency = policy.currency /\ offer.cost <= policy.cost

RoutePlan(found, policy, offers, now) ==
  LET Supplies(ref) == {f.supply : f \in {x \in Range(found) : x.supply.binding.ref = ref}}
      Offers(ref)   == {o \in Range(offers) : o.binding = ref}
      declared      == Range(policy.order)
  IN  IF /\ PolicyIsValid(policy)
         /\ \A k \in DOMAIN offers : OfferIsValid(offers[k])
         /\ Distinct(Each(offers, LAMBDA offer : offer.binding))
         /\ \A ref \in declared :
              \E s \in Supplies(ref), o \in Offers(ref) : MeetsTerms(s, o, policy, now)
         /\ CommonScope(UNION {Offers(ref) : ref \in declared}) # Refused
      THEN [scope   |-> CommonScope(UNION {Offers(ref) : ref \in declared}),
            routes  |-> Each(policy.order, LAMBDA ref : CHOOSE o \in Offers(ref) : TRUE),
            reasons |-> policy.reasons]
      ELSE Refused

\* Mutant: a failover offers the route that has just failed.
AdvanceToItself(plan, current, reason) ==
  LET at == SelectInSeq(plan.routes, LAMBDA route : route.binding = current)
  IN  IF reason \in Range(plan.reasons) /\ at # 0 THEN plan.routes[at] ELSE Refused

\* The trust behind the next route is not looked at again.
Advance(plan, current, reason) ==
  LET at == SelectInSeq(plan.routes, LAMBDA route : route.binding = current)
  IN  IF reason \in Range(plan.reasons) /\ at # 0 /\ at < Len(plan.routes)
      THEN plan.routes[at + 1] ELSE Refused

-----------------------------------------------------------------------------
(* A connection to a provider *)

ScopeIsWhole(secret, scope) == secret.environment = scope.environment

OperationOf(connector, id) == {o \in connector.operations : o.id = id}
ConnectionBinding(binding, operation, granted, profile) ==
  /\ operation.profile = profile /\ operation.requires \subseteq granted
  /\ binding.kind = (IF operation.reads THEN "query" ELSE "action")
  /\ ReferenceIsExact(binding.target)
CreateConnection(raw, connector) ==
  LET eligible == {o \in connector.operations : o.profile = raw.profile}
      bound    == Each(raw.bindings, LAMBDA binding : binding.operation)
  IN  IF /\ raw.provider = connector.provider /\ raw.connector = connector.id
         /\ ScopeIsWhole(raw.secret, raw.scope)
         /\ raw.profile \in DOMAIN connector.profiles /\ eligible # {}
         /\ Len(raw.granted) <= MaxScopes /\ Distinct(raw.granted)
         /\ Range(raw.granted) \subseteq connector.profiles[raw.profile]
         /\ raw.state = "pending"
         /\ Len(raw.bindings) <= MaxBindings /\ Distinct(bound)
         /\ \A k \in DOMAIN raw.bindings : \E o \in OperationOf(connector, bound[k]) :
              ConnectionBinding(raw.bindings[k], o, Range(raw.granted), raw.profile)
         /\ {o.id : o \in eligible} \subseteq Range(bound)
      THEN raw ELSE Refused

ConnectionIdentityIsValid(connection) == ScopeIsWhole(connection.secret, connection.scope)
Lasting(connection, now) == connection.expires = Missing \/ now < connection.expires
Transition(connection, to, now) ==
  CASE to = "activate" /\ connection.state = "pending" /\ Lasting(connection, now) ->
         [connection EXCEPT !.state = "active"]
    [] to = "revoke" /\ connection.state \in {"pending", "active"} -> [connection EXCEPT !.state = "revoked"]
    [] to = "expire" /\ connection.state \in {"pending", "active"} -> [connection EXCEPT !.state = "expired"]
    [] OTHER -> Refused

TrustEvidenceIsValid(evidence) ==
  /\ ScopeIsWhole(evidence.secret, evidence.scope)
  /\ evidence.issued < evidence.expires
  /\ evidence.checked \in evidence.issued..evidence.expires
  /\ evidence.revoked \in {Missing} \cup evidence.issued..evidence.expires

\* Mutant: trust outlives the connection it is in.
EndsOfEvidence(connection, evidence) == {evidence.expires}

Ends(connection, evidence) == {evidence.expires} \cup ({connection.expires} \ {Missing})
ProviderTrust(connection, evidence, now) ==
  IF /\ ConnectionIdentityIsValid(connection) /\ TrustEvidenceIsValid(evidence)
     /\ evidence.connection = connection.id /\ evidence.provider = connection.provider
     /\ evidence.scope = connection.scope /\ evidence.secret = connection.secret
     /\ connection.state = "active" /\ Lasting(connection, now)
     /\ now >= evidence.issued /\ now >= evidence.checked /\ now < evidence.expires
     /\ evidence.revoked = Missing \/ now < evidence.revoked
     /\ evidence.health = "healthy"
  THEN [id |-> evidence.id, until |-> Min(Ends(connection, evidence))] ELSE Refused

-----------------------------------------------------------------------------
(* The action an operation of a connection stands for *)

BehaviorIsValid(behavior) ==
  IF behavior.freshness = "bounded-age" THEN behavior.maxAge # Missing /\ behavior.maxAge > 0
  ELSE behavior.maxAge = Missing

SupplyConnectionIsValid(connection) ==
  /\ ScopeIsWhole(connection.secret, connection.scope)
  /\ Len(connection.granted) <= MaxScopes /\ Len(connection.bindings) <= MaxBindings
  /\ Distinct(Each(connection.bindings, LAMBDA binding : binding.operation))
  /\ \A k \in DOMAIN connection.bindings :
       connection.bindings[k].kind = "action" => ReferenceIsExact(connection.bindings[k].target)
EnvironmentIsValid(environment) ==
  environment.trust \in {"trusted", "untrusted"} /\ ScopeIsWhole(environment.secret, environment.scope)

ActionSupply(request, connection, environment, evidence, now) ==
  LET trust == ProviderTrust(connection, evidence, now)
  IN  IF /\ ReferenceIsExact(request.action) /\ BehaviorIsValid(request.behavior)
         /\ SupplyConnectionIsValid(connection)
         /\ EnvironmentIsValid(environment) /\ environment.trust = "trusted"
         /\ environment.scope = connection.scope /\ environment.secret = connection.secret
         /\ trust # Refused /\ trust.id = environment.evidence
         /\ \E k \in DOMAIN connection.bindings :
              connection.bindings[k] = [operation |-> request.operation, kind |-> "action", target |-> request.action]
      THEN [action |-> request.action, operation |-> request.operation, until |-> trust.until]
      ELSE Refused

-----------------------------------------------------------------------------
(* A query a host runs for its caller *)

PrincipalIsInScope(principal, scope) == principal.organization = scope.organization

ContextOrder(context) == <<context.type.id, context.type.version, context.id>>
Contexts(contexts, capability) ==
  IF /\ Len(contexts) <= MaxContexts
     /\ \A k \in DOMAIN contexts : ContextIsValid(contexts[k])
     /\ Distinct(Each(contexts, LAMBDA context : context.type))
     /\ {contexts[k].type : k \in DOMAIN contexts} = Range(capability.contexts)
  THEN SetToSortSeq(Range(contexts), LAMBDA a, b : Before(ContextOrder(a), ContextOrder(b)))
  ELSE Refused

RequestIsValid(request, capability) ==
  /\ PrincipalIsInScope(request.principal, request.scope)
  /\ NullOrExact(request.input) /\ request.input = capability.input
  /\ Contexts(request.contexts, capability) # Refused

AdapterFailure(failure) == failure.code # Missing
AdapterResult(result, capability) ==
  CASE result.outcome = "success" /\ result.output = capability.output -> result
    [] result.outcome = "empty" -> result
    [] result.outcome = "error" /\ AdapterFailure(result) -> result
    [] OTHER -> Refused

InvocationEvidence(capability, binding, result) ==
  [capability |-> ReleaseOf(capability), binding |-> binding.ref, provider |-> binding.provider,
   location |-> binding.location, result |-> result]

\* What the adapter is given, when it is called at all.
AdapterInput(capability, binding, request) ==
  IF /\ CapabilityIsValid(capability) /\ BindingIsValid(binding)
     /\ binding.capability = ReleaseOf(capability)
     /\ capability.kind # "action"
     /\ RequestIsValid(request, capability)
  THEN [input |-> request.input, contexts |-> Contexts(request.contexts, capability)]
  ELSE Refused
\* An adapter that throws has no result.
Invoke(capability, binding, request, result) ==
  IF \/ AdapterInput(capability, binding, request) = Refused
     \/ result = Missing
     \/ AdapterResult(result, capability) = Refused
  THEN Refused ELSE InvocationEvidence(capability, binding, result)

-----------------------------------------------------------------------------
(* What a provider is seen to have done *)

ProviderVersionIsValid(version) == version.kind \in {"revision", "etag", "blob-sha"}
PointerIsValid(path) == path # <<>> /\ Range(path) \cap ForbiddenSegments = {}
AssertionIsValid(assertion) == PointerIsValid(assertion.path) /\ assertion.operator \in {"absent", "equals"}

\* The value a pointer names: an object's field, an array's item at a canonical index.
ValueAt(root, path) ==
  FoldLeft(LAMBDA at, segment :
    CASE at.kind = "object" /\ segment \in DOMAIN at.fields -> at.fields[segment]
      [] at.kind = "array" /\ segment \in DOMAIN IndexOf /\ IndexOf[segment] < Len(at.items) ->
           at.items[IndexOf[segment] + 1]
      [] OTHER -> [kind |-> "nothing"], root, path)

RECURSIVE KeysOf(_)
KeysOf(value) ==
  CASE value.kind = "object" -> DOMAIN value.fields \cup UNION {KeysOf(value.fields[f]) : f \in DOMAIN value.fields}
    [] value.kind = "array" -> UNION {KeysOf(value.items[k]) : k \in DOMAIN value.items}
    [] OTHER -> {}
ObservationIsValid(observation) ==
  ProviderVersionIsValid(observation.version) /\ KeysOf(observation.data) \cap ForbiddenKeys = {}
ExpectationIsValid(expectation) ==
  /\ expectation.version # Missing => ProviderVersionIsValid(expectation.version)
  /\ expectation.version # Missing \/ expectation.digest # Missing
  /\ expectation.assertions # <<>>
  /\ \A k \in DOMAIN expectation.assertions : AssertionIsValid(expectation.assertions[k])
  /\ Distinct(Each(expectation.assertions, LAMBDA assertion : assertion.path))

SameResource(expectation, observation) == expectation.of = observation.of

Precondition(expectation, observation) ==
  CASE observation = Missing -> "unavailable"
    [] observation # Missing /\ ~SameResource(expectation, observation) -> Refused
    [] OTHER -> IF /\ expectation.version \in {Missing, observation.version}
                   /\ expectation.digest \in {Missing, observation.digest}
                THEN "match" ELSE "mismatch"

AssertionHolds(assertion, data) ==
  LET found == ValueAt(data, assertion.path)
  IN  IF assertion.operator = "absent" THEN found.kind = "nothing" ELSE found = assertion.value
Postcondition(expectation, observation) ==
  LET passed == SelectSeq(expectation.assertions, LAMBDA a : AssertionHolds(a, observation.data))
  IN  CASE observation = Missing -> "uncertain"
        [] observation # Missing /\ ~SameResource(expectation, observation) -> Refused
        [] OTHER -> IF Len(passed) = Len(expectation.assertions) THEN "verified"
                    ELSE IF passed # <<>> THEN "partial" ELSE "mismatch"

-----------------------------------------------------------------------------
(* Properties *)

\* What a lookup answers depends neither on the order sources report in nor on
\* the order within a source: it lists each binding once, and names for it
\* exactly the sources that, asked alone, would have listed it.
SupplyIsWhatSourcesSay(sources, query) ==
  LET found  == Lookup(sources, query)
      turned == Reverse(Each(sources, LAMBDA source : [source EXCEPT !.supplies = Reverse(source.supplies)]))
      Told(list) == {list[k].supply : k \in DOMAIN list}
  IN  found # Refused =>
        /\ Lookup(turned, query) = found
        /\ Distinct(Each(found, LAMBDA f : f.supply.binding.ref))
        /\ \A k \in DOMAIN sources :
             Told(SelectSeq(found, LAMBDA f : sources[k].id \in Range(f.sources)))
               = Told(Lookup(<<sources[k]>>, query))

\* A plan follows its policy whatever order the offers come in and whatever else
\* the sources supply: with a source gone it is the same plan or none. It can be
\* drawn again exactly as long as every trust in it lasts, and a failover for a
\* declared reason goes down the policy's order and stops at its end.
RouteKeepsItsTerms(sources, query, policy, offers, now) ==
  LET Plan(list, t) == RoutePlan(Lookup(list, query), policy, offers, t)
      plan == Plan(sources, now)
      After(k) == IF k < Len(plan.routes) THEN plan.routes[k + 1] ELSE Refused
  IN  plan # Refused =>
        /\ RoutePlan(Lookup(sources, query), policy, Reverse(offers), now) = plan
        /\ \A k \in DOMAIN sources : Plan(RemoveAt(sources, k), now) \in {plan, Refused}
        /\ \A t \in Instants : t >= now =>
             Plan(sources, t) = IF \A k \in DOMAIN plan.routes : t < plan.routes[k].trust.until
                                THEN plan ELSE Refused
        /\ \A k \in DOMAIN plan.routes, reason \in FailoverReasons :
             Advance(plan, policy.order[k], reason)
               = IF reason \in Range(policy.reasons) THEN After(k) ELSE Refused

\* What a connection resolves to is an operation that writes, with every scope it
\* requires granted. It goes on resolving to the same until the instant it names,
\* unless its evidence is revoked before then, and no longer; a connection that
\* has been revoked or has expired resolves to nothing and is never taken up again.
SupplyLastsUntilItSays(raw, connector, request, environment, evidence, now) ==
  LET made == CreateConnection(raw, connector)
      live == IF made = Refused THEN Refused ELSE Transition(made, "activate", now)
      Got(connection, t) == ActionSupply(request, connection, environment, evidence, t)
      got  == IF live = Refused THEN Refused ELSE Got(live, now)
  IN  got # Refused =>
        /\ \E o \in OperationOf(connector, got.operation) : ~o.reads /\ o.requires \subseteq Range(live.granted)
        /\ \A t \in Instants : t >= now =>
             /\ Got(live, t) = IF t < got.until /\ (evidence.revoked = Missing \/ t < evidence.revoked)
                               THEN got ELSE Refused
             /\ \A end \in {"revoke", "expire"} :
                  LET over == Transition(live, end, t)
                  IN  /\ Got(over, t) = Refused
                      /\ \A to \in {"activate", "revoke", "expire"} : Transition(over, to, t) = Refused

\* Only a query reaches an adapter, with one context for each that its definition
\* requires, in an order the caller does not choose; a success is of the type the
\* definition promises.
InvocationIsTyped(capability, binding, request, result) ==
  LET first == Projected(capability)
      given == AdapterInput(first, binding, request)
      Done(r) == Invoke(first, binding, r, result)
      done  == Done(request)
  IN  CapabilityV2IsValid(capability) =>
        /\ given # Refused =>
             /\ capability.kind = "query"
             /\ Len(given.contexts) = Len(capability.contexts)
             /\ \A k \in DOMAIN capability.contexts : \E j \in DOMAIN given.contexts :
                  given.contexts[j].type = capability.contexts[k]
             /\ AdapterInput(first, binding, [request EXCEPT !.contexts = Reverse(@)]) = given
        /\ done # Refused =>
             /\ done.result.outcome = "success" => done.result.output = capability.output
             /\ done.binding = binding.ref /\ done.capability = ReleaseOf(capability)

\* A verdict is about the resource the expectation names and no other. It is
\* verified when every assertion would be verified alone, a mismatch when none
\* would, and no assertion added to an expectation makes it come out better.
VerdictIsEarned(expectation, observation) ==
  LET Alone(k) == Postcondition([expectation EXCEPT !.assertions = <<expectation.assertions[k]>>], observation)
      verdict  == Postcondition(expectation, observation)
      alone    == {Alone(k) : k \in DOMAIN expectation.assertions}
      Without(k) == Postcondition([expectation EXCEPT !.assertions = RemoveAt(@, k)], observation)
  IN  ExpectationIsValid(expectation) /\ (observation = Missing \/ ObservationIsValid(observation)) =>
        /\ verdict = CASE Cardinality(alone) = 1 -> CHOOSE a \in alone : TRUE
                       [] OTHER -> "partial"
        /\ Refused \in alone => Precondition(expectation, observation) = Refused
        /\ Len(expectation.assertions) > 1 /\ verdict = "verified" =>
             \A k \in DOMAIN expectation.assertions : Without(k) = "verified"
        /\ Postcondition([expectation EXCEPT !.assertions = Reverse(@)], observation) = verdict
=============================================================================

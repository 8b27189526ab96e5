------------------------ MODULE ApplicationDefinition ------------------------
(* What an application is before it runs: its package, in the first and the   *)
(* second schema, the migration from one to the other, and its graphs of      *)
(* experiences, capabilities, actions and contexts; and a draft of it on the  *)
(* canvas, with the projection the editor shows.                              *)
EXTENDS Naturals, Sequences, FiniteSets, Functions, SequencesExt

CONSTANTS
  FloatingVersions,  \* "latest", "main", "1.x": names of a release that move
  Off,               \* no maximal version of the host, or no brand
  MaxReferences,     \* the length at which a list of references is refused
  Refused,           \* the answer of a parser or a migration that accepts nothing
  Place,             \* where something may be on the canvas
  Nowhere,           \* a place outside the canvas
  NoGraph            \* no graph is active

Exact(reference) == reference.version \notin FloatingVersions

ReferencesAreValid(references) ==
  /\ Len(references) <= MaxReferences
  /\ IsInjective(references)
  /\ \A i \in DOMAIN references : Exact(references[i])

ReferenceKinds == {"capabilities", "contextTypes", "flows", "governanceRequirements",
                   "protocolProjections", "entitlementRefs", "meteringRefs"}

HostIsValid(host) ==
  /\ host.max # Off => host.min <= host.max
  /\ Len(host.required) <= MaxReferences
  /\ IsInjective(host.required)

\* The fields both schemas have; an action of the first schema is only a type.
PackageIsValidV1(package) ==
  /\ package.identity.publisher = package.publisher
  /\ IsInjective(package.experiences)
  /\ IsInjective(package.actions)
  /\ \A kind \in ReferenceKinds : ReferencesAreValid(package.references[kind])
  /\ package.brand # Off => Exact(package.brand)
  /\ HostIsValid(package.host)
  /\ \/ Len(package.experiences) + Len(package.actions) > 0
     \/ \E kind \in {"capabilities", "flows"} : package.references[kind] # <<>>

\* The second schema binds one exact version of each action.
ActionsAreValid(actions) ==
  /\ \A i \in DOMAIN actions : Exact(actions[i])
  /\ \A i, j \in DOMAIN actions : actions[i].id = actions[j].id => i = j

TriggersAreValid(triggers, flows) ==
  /\ Len(triggers) <= MaxReferences
  /\ IsInjective(triggers)
  /\ \A i \in DOMAIN triggers : triggers[i].entrypoint \in Range(flows)

ActionTypes(actions) == [i \in DOMAIN actions |-> actions[i].id]

\* What the second schema tells a reader of the first.
ProjectApplicationV1(package) ==
  [package EXCEPT !.actions = ActionTypes(package.actions),
                  !.triggers = <<>>, !.pricing = <<>>, !.settlement = <<>>]

PackageIsValid(package) ==
  /\ ActionsAreValid(package.actions)
  /\ ReferencesAreValid(package.pricing)
  /\ ReferencesAreValid(package.settlement)
  /\ PackageIsValidV1(ProjectApplicationV1(package))
  /\ TriggersAreValid(package.triggers, package.references["flows"])

-----------------------------------------------------------------------------
\* Mutant: a mapping may name the version of another action.
MappingsAnyId(mappings) == \A i \in DOMAIN mappings : Exact(mappings[i].ref)

\* A mapping names the exact version of an action the first schema left open.
MappingsAreValid(mappings) ==
  \A i \in DOMAIN mappings : Exact(mappings[i].ref) /\ mappings[i].ref.id = mappings[i].type

\* Every action is mapped once, and nothing else is.
MappingsFit(actions, mappings) ==
  LET types == [i \in DOMAIN mappings |-> mappings[i].type]
  IN  IsInjective(types) /\ Range(types) = Range(actions)

MappedActions(actions, mappings) ==
  [i \in DOMAIN actions |->
     LET m == CHOOSE j \in DOMAIN mappings : mappings[j].type = actions[i] IN mappings[m].ref]

Migrate(package, declaration) ==
  LET target == [package EXCEPT !.actions = MappedActions(package.actions, declaration.mappings),
                                !.triggers = declaration.triggers,
                                !.pricing = declaration.pricing,
                                !.settlement = declaration.settlement]
  IN  IF /\ PackageIsValidV1(package)
         /\ MappingsAreValid(declaration.mappings)
         /\ MappingsFit(package.actions, declaration.mappings)
         /\ PackageIsValid(target)
      THEN target ELSE Refused

\* A migrated package is what it was to a reader of the first schema, and it
\* is a package of the second; an action keeps its place and gains one version.
MigrationRoundTrips(package, declaration) ==
  LET target == Migrate(package, declaration)
  IN  target # Refused =>
        /\ PackageIsValid(target)
        /\ ProjectApplicationV1(target) = package
        /\ \A i \in DOMAIN target.actions :
             \E k \in DOMAIN declaration.mappings : declaration.mappings[k].ref = target.actions[i]

-----------------------------------------------------------------------------
Relation(kind, from, to) ==
  CASE kind = "experience-uses-capability" -> from = "experience" /\ to = "capability"
    [] kind = "experience-offers-action"   -> from = "experience" /\ to = "action"
    [] kind = "context-input"              -> from = "context" /\ to # "context"
    [] kind = "context-output"             -> from # "context" /\ to = "context"
    [] kind = "semantic-transition"        -> from = "experience" /\ to = "experience"

KindOf(graph, id) == LET i == CHOOSE i \in DOMAIN graph.nodes : graph.nodes[i].id = id
                     IN  graph.nodes[i].target.kind
NodeIds(graph) == {graph.nodes[i].id : i \in DOMAIN graph.nodes}
EdgeIds(graph) == {graph.edges[i].id : i \in DOMAIN graph.edges}

NodesAreValid(nodes) ==
  /\ nodes # <<>>
  /\ \A i, j \in DOMAIN nodes : nodes[i].id = nodes[j].id => i = j
  /\ \A i \in DOMAIN nodes :
       nodes[i].target.kind # "experience" => Exact(nodes[i].target.ref)

EdgesAreValid(graph) ==
  \A i \in DOMAIN graph.edges : LET e == graph.edges[i] IN
    /\ e.from # e.to
    /\ {e.from, e.to} \subseteq NodeIds(graph)
    /\ Relation(e.kind, KindOf(graph, e.from), KindOf(graph, e.to))
    /\ \A j \in DOMAIN graph.edges : LET f == graph.edges[j] IN
         (f.id = e.id \/ <<f.kind, f.from, f.to>> = <<e.kind, e.from, e.to>>) => i = j

GraphIsValid(graph) ==
  /\ graph.id.publisher = graph.publisher
  /\ NodesAreValid(graph.nodes)
  /\ EdgesAreValid(graph)

-----------------------------------------------------------------------------
(* A draft: the semantics of an application and the projection of it, with the *)
(* parser that decides which drafts exist.                                     *)

Ref(graph) == [id |-> graph.id, version |-> graph.version]
Refs(semantics) == {Ref(semantics.graphs[i]) : i \in DOMAIN semantics.graphs}
GraphAt(semantics, ref) ==
  LET i == CHOOSE i \in DOMAIN semantics.graphs : Ref(semantics.graphs[i]) = ref
  IN  semantics.graphs[i]

ActionsOf(graph) ==
  {graph.nodes[i].target.ref : i \in {j \in DOMAIN graph.nodes : graph.nodes[j].target.kind = "action"}}

ActionClosure(semantics) ==
  \A i \in DOMAIN semantics.graphs :
    ActionsOf(semantics.graphs[i]) \subseteq Range(semantics.application.actions)

SemanticsAreValid(semantics) ==
  /\ PackageIsValid(semantics.application)
  /\ \A i \in DOMAIN semantics.graphs : GraphIsValid(semantics.graphs[i])
  /\ \A i, j \in DOMAIN semantics.graphs :
       Ref(semantics.graphs[i]) = Ref(semantics.graphs[j]) => i = j
  /\ ActionClosure(semantics)

\* Mutant: the nodes laid out are not looked up in the graph.
LayoutsPlacedOnly(layouts, graph) ==
  \A i \in DOMAIN layouts : layouts[i].at \in Place

LayoutsAreValid(layouts, graph) ==
  \A i \in DOMAIN layouts :
    /\ layouts[i].node \in NodeIds(graph)
    /\ layouts[i].at \in Place
    /\ \A j \in DOMAIN layouts : layouts[i].node = layouts[j].node => i = j

SelectionIsValid(selection, graph) ==
  /\ IsInjective(selection.nodes) /\ Range(selection.nodes) \subseteq NodeIds(graph)
  /\ IsInjective(selection.edges) /\ Range(selection.edges) \subseteq EdgeIds(graph)

ViewIsValid(view, semantics) ==
  /\ view.ref \in Refs(semantics)
  /\ view.viewport \in Place
  /\ LET graph == GraphAt(semantics, view.ref)
     IN  LayoutsAreValid(view.layouts, graph) /\ SelectionIsValid(view.selection, graph)

ProjectionIsValid(projection, semantics) ==
  /\ projection.active \in Refs(semantics) \cup {NoGraph}
  /\ \A i \in DOMAIN projection.views :
       /\ ViewIsValid(projection.views[i], semantics)
       /\ \A j \in DOMAIN projection.views :
            projection.views[i].ref = projection.views[j].ref => i = j

DraftIsValid(draft) ==
  /\ draft.revision \in Nat
  /\ SemanticsAreValid(draft.semantics)
  /\ ProjectionIsValid(draft.projection, draft.semantics)

EmptyProjection == [active |-> NoGraph, views |-> <<>>]
=============================================================================

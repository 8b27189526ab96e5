---------------------------- MODULE StudioDocument ----------------------------
(***************************************************************************)
(* A Studio experience document: its two parsers, the component catalogue  *)
(* and the data sources it is checked against, the edits of the binding    *)
(* and flow packages, and its way to the visual editor and back.           *)
(*                                                                         *)
(* A document is [entry, views, bindings, interactions]; a source names a  *)
(* path of the state, of the domain or of the repeated item, or is a       *)
(* literal. A catalogue lists components with props, slots and events.     *)
(***************************************************************************)
EXTENDS Naturals, FiniteSets, SequencesExt

CONSTANTS
  Missing, Refused,
  MaxViews, MaxNodes, MaxBindings, MaxInteractions, MaxPayload, MaxSources, MaxFields,
  Paths, ScopePaths,     \* semantic namespaces, and those that start at currentItem
  Placeholder,           \* the path that stands for a scope path before the first parser
  Segments,              \* what may be a node's id
  AliasOf,               \* the editor's id of each node id the editor reserves
  ReservedFields         \* the names the editor reserves for itself

Kinds == {"state", "domain"}
Outcomes == {"success", "empty", "error"}
ScalarTypes == {"string", "number", "boolean", "enum"}

Each(list, Op(_)) == [k \in DOMAIN list |-> Op(list[k])]
Distinct(list) == IsInjective(list)
Without(list, Test(_)) == SelectSeq(list, LAMBDA entry : ~Test(entry))
\* The first of the places that pass, as find gives it.
Found(list, places) == IF places = {} THEN Missing ELSE list[Min(places)]
ById(list, id)   == Found(list, {k \in DOMAIN list : list[k].id = id})
ByKey(list, key) == Found(list, {k \in DOMAIN list : list[k].key = key})
\* What was refused stays refused; and what does not pass is refused.
Then(value, Op(_)) == IF value = Refused THEN Refused ELSE Op(value)
OrElse(value, other) == IF value = Refused THEN other ELSE value
Passing(value, Test(_)) == IF value # Refused /\ Test(value) THEN value ELSE Refused

-----------------------------------------------------------------------------
(* The structure of a document *)

RECURSIVE Climbs(_, _, _)
Climbs(parentOf, current, seen) ==
  \/ current = Missing
  \/ current \notin seen /\ Climbs(parentOf, parentOf[current], seen \cup {current})
Acyclic(nodes) ==
  LET parentOf == [id \in {nodes[k].id : k \in DOMAIN nodes} |->
                     ById(nodes, id).parent]
  IN  \A k \in DOMAIN nodes :
        /\ nodes[k].parent \in DOMAIN parentOf \cup {Missing}
        /\ Climbs(parentOf, nodes[k].parent, {nodes[k].id})

NodesAreValid(nodes) ==
  /\ Len(nodes) \in 1..MaxNodes
  /\ Distinct(Each(nodes, LAMBDA node : node.id))
  /\ \A k \in DOMAIN nodes : (nodes[k].parent = Missing) <=> (nodes[k].slot = Missing)
  /\ Distinct(Each(nodes, LAMBDA node : <<node.parent, node.slot, node.order>>))
  /\ Acyclic(nodes)
ViewsAreValid(views) ==
  /\ Len(views) \in 1..MaxViews
  /\ Distinct(Each(views, LAMBDA view : view.id))
  /\ \A k \in DOMAIN views : NodesAreValid(views[k].nodes)

ViewOf(document, id) == ById(document.views, id)
NodeOf(document, view, id) ==
  LET found == ViewOf(document, view)
  IN  IF found = Missing THEN Missing ELSE ById(found.nodes, id)

BindingTarget(binding) == <<binding.view, binding.node, binding.prop>>
BindingTo(bindings, target) ==
  Found(bindings, {k \in DOMAIN bindings : BindingTarget(bindings[k]) = target})
BindingsAreValid(document) ==
  /\ Len(document.bindings) <= MaxBindings
  /\ Distinct(Each(document.bindings, BindingTarget))
  /\ \A binding \in Range(document.bindings) :
       /\ NodeOf(document, binding.view, binding.node) # Missing
       /\ binding.source.kind \in Kinds /\ binding.source.path \in Paths

RoutesAreValid(document, routes) ==
  /\ Distinct(Each(routes, LAMBDA route : route.outcome))
  /\ \A route \in Range(routes) :
       route.outcome \in Outcomes /\ ViewOf(document, route.view) # Missing
Trigger(interaction) == <<interaction.view, interaction.node, interaction.event>>
RaisedBy(interactions, trigger) ==
  Found(interactions, {k \in DOMAIN interactions : Trigger(interactions[k]) = trigger})
InteractionsAreValid(document) ==
  /\ Len(document.interactions) <= MaxInteractions
  /\ Distinct(Each(document.interactions, Trigger))
  /\ \A interaction \in Range(document.interactions) :
       /\ NodeOf(document, interaction.view, interaction.node) # Missing
       /\ RoutesAreValid(document, interaction.routes)

\* The first parser knows neither repeats, payloads nor scope sources.
LegacyIsValid(document) ==
  /\ ViewsAreValid(document.views)
  /\ \A view \in Range(document.views) : \A node \in Range(view.nodes) : node.repeat = Missing
  /\ ViewOf(document, document.entry) # Missing
  /\ BindingsAreValid(document)
  /\ InteractionsAreValid(document)
  /\ \A interaction \in Range(document.interactions) : interaction.payload = Missing

-----------------------------------------------------------------------------
(* The second parser takes out what the first does not know, and puts it back *)

SourceIsValid(source, literals) ==
  CASE source.kind = "literal" -> literals
    [] source.kind = "scope"   -> source.path \in ScopePaths
    [] OTHER                   -> source.kind \in Kinds /\ source.path \in Paths
PayloadIsValid(payload) ==
  payload = Missing \/ /\ Len(payload) <= MaxPayload
                       /\ Distinct(Each(payload, LAMBDA entry : entry.key))
                       /\ \A entry \in Range(payload) : SourceIsValid(entry.source, TRUE)
RepeatIsValid(repeat) == repeat = Missing \/ (repeat.kind \in Kinds /\ repeat.path \in Paths)
ExtrasAreValid(document) ==
  /\ \A view \in Range(document.views) : \A node \in Range(view.nodes) : RepeatIsValid(node.repeat)
  /\ \A binding \in Range(document.bindings) :
       binding.source.kind = "scope" => binding.source.path \in ScopePaths
  /\ \A interaction \in Range(document.interactions) : PayloadIsValid(interaction.payload)

Sanitized(document) ==
  [document EXCEPT
     !.views        = Each(@, LAMBDA view : [view EXCEPT
                        !.nodes = Each(@, LAMBDA node : [node EXCEPT !.repeat = Missing])]),
     !.bindings     = Each(@, LAMBDA binding :
                        IF binding.source.kind # "scope" THEN binding
                        ELSE [binding EXCEPT !.source = [@ EXCEPT !.kind = "domain", !.path = Placeholder]]),
     !.interactions = Each(@, LAMBDA interaction : [interaction EXCEPT !.payload = Missing])]

\* A mutant: what stood for a scope source stays in the binding.
RestoredButBindings(legacy, document) ==
  [legacy EXCEPT
     !.views        = [v \in DOMAIN @ |-> [@[v] EXCEPT
                        !.nodes = [n \in DOMAIN @ |->
                           [@[n] EXCEPT !.repeat = document.views[v].nodes[n].repeat]]]],
     !.interactions = [k \in DOMAIN @ |-> [@[k] EXCEPT !.payload = document.interactions[k].payload]]]

\* By their places in the lists.
Restored(legacy, document) ==
  [legacy EXCEPT
     !.views        = [v \in DOMAIN @ |-> [@[v] EXCEPT
                        !.nodes = [n \in DOMAIN @ |->
                           [@[n] EXCEPT !.repeat = document.views[v].nodes[n].repeat]]]],
     !.bindings     = [k \in DOMAIN @ |-> [@[k] EXCEPT !.source = document.bindings[k].source]],
     !.interactions = [k \in DOMAIN @ |-> [@[k] EXCEPT !.payload = document.interactions[k].payload]]]

Parsed(document) ==
  LET legacy == Passing(Sanitized(document), LegacyIsValid)
  IN  IF ~ExtrasAreValid(document) THEN Refused ELSE Then(legacy, LAMBDA known : Restored(known, document))

-----------------------------------------------------------------------------
(* The component catalogue *)

OptionsAreValid(definition) ==
  IF definition.type = "enum"
  THEN /\ definition.options \notin {Missing, <<>>} /\ Len(definition.options) <= MaxFields
       /\ Distinct(definition.options)
  ELSE definition.options = Missing
PropsAreValid(props) ==
  /\ Len(props) <= MaxFields
  /\ Distinct(Each(props, LAMBDA prop : prop.key))
  /\ \A prop \in Range(props) : prop.type \in ScalarTypes /\ OptionsAreValid(prop)
SlotsAreValid(slots) == Len(slots) <= MaxFields /\ Distinct(slots)
EventPayloadIsValid(payload) ==
  payload = Missing \/ /\ Len(payload) <= MaxFields
                       /\ Distinct(Each(payload, LAMBDA field : field.key))
                       /\ \A field \in Range(payload) :
                            field.type \in ScalarTypes /\ OptionsAreValid(field)
EventsAreValid(events) ==
  Len(events) <= MaxFields /\ Distinct(Each(events, LAMBDA event : event.name))
CatalogIsValid(catalog) ==
  /\ catalog # <<>> /\ Len(catalog) <= MaxFields
  /\ Distinct(Each(catalog, LAMBDA component : component.ref))
  /\ \A component \in Range(catalog) :
       /\ PropsAreValid(component.props) /\ SlotsAreValid(component.slots)
       /\ EventsAreValid(component.events)
       /\ \A event \in Range(component.events) : EventPayloadIsValid(event.payload)

ComponentOf(catalog, ref) == Found(catalog, {k \in DOMAIN catalog : catalog[k].ref = ref})
PropOf(component, key) ==
  IF component = Missing THEN Missing ELSE ByKey(component.props, key)
EventOf(component, name) ==
  IF component = Missing THEN Missing
  ELSE Found(component.events, {k \in DOMAIN component.events : component.events[k].name = name})
PayloadOf(owner) == IF owner.payload = Missing THEN <<>> ELSE owner.payload
Accepts(definition, value) ==
  IF definition.type = "enum" THEN value.type = "string" /\ value.value \in Range(definition.options)
  ELSE value.type = definition.type

BoundProps(document, view, node) ==
  {binding.prop : binding \in {b \in Range(document.bindings) : b.view = view /\ b.node = node}}
BindingMeetsCatalog(document, catalog, binding) ==
  LET node == NodeOf(document, binding.view, binding.node)
      prop == PropOf(ComponentOf(catalog, node.component), binding.prop)
  IN  prop # Missing /\ prop.bindable /\ binding.prop \notin DOMAIN node.props
NodeMeetsCatalog(document, catalog, view, node) ==
  LET component == ComponentOf(catalog, node.component)
      parent    == NodeOf(document, view, node.parent)
  IN  /\ \A key \in DOMAIN node.props :
           LET prop == PropOf(component, key) IN prop # Missing /\ Accepts(prop, node.props[key])
      /\ \A prop \in Range(component.props) :
           prop.required => prop.key \in DOMAIN node.props \cup BoundProps(document, view, node.id)
      /\ parent # Missing => node.slot \in Range(ComponentOf(catalog, parent.component).slots)
InteractionMeetsCatalog(document, catalog, interaction) ==
  LET node  == NodeOf(document, interaction.view, interaction.node)
      event == EventOf(ComponentOf(catalog, node.component), interaction.event)
      DeclaredField(key) == ByKey(PayloadOf(event), key)
  IN  /\ event # Missing
      /\ \A entry \in Range(PayloadOf(interaction)) :
           /\ DeclaredField(entry.key) # Missing
           /\ entry.source.kind = "literal" => Accepts(DeclaredField(entry.key), entry.source.value)
\* Asked of what is published, and not while it is drawn.
IsComplete(document, catalog) ==
  \A interaction \in Range(document.interactions) :
    LET node == NodeOf(document, interaction.view, interaction.node)
    IN  \A field \in Range(PayloadOf(EventOf(ComponentOf(catalog, node.component), interaction.event))) :
          field.required => \E entry \in Range(PayloadOf(interaction)) : entry.key = field.key

AgainstCatalog(document, catalog) ==
  Passing(Parsed(document), LAMBDA parsed :
     /\ CatalogIsValid(catalog)
     /\ \A view \in Range(document.views) : \A node \in Range(view.nodes) :
          ComponentOf(catalog, node.component) # Missing
     /\ \A binding \in Range(document.bindings) : BindingMeetsCatalog(document, catalog, binding)
     /\ \A view \in Range(document.views) : \A node \in Range(view.nodes) :
          NodeMeetsCatalog(document, catalog, view.id, node)
     /\ \A interaction \in Range(document.interactions) :
          InteractionMeetsCatalog(document, catalog, interaction))

-----------------------------------------------------------------------------
(* What bindings, repeats and payloads may read: desk is [catalog, sources, actions] *)

SourcesAreValid(sources) ==
  /\ Len(sources) <= MaxSources
  /\ \A source \in Range(sources) :
       /\ SourceIsValid(source, FALSE)
       /\ source.type \in ScalarTypes \cup {"array", "object"}
  /\ Distinct(Each(sources, LAMBDA source : <<source.kind, source.path>>))
Registered(sources, source) ==
  Found(sources, {k \in DOMAIN sources : sources[k].kind = source.kind /\ sources[k].path = source.path})

RECURSIVE Repeats(_, _, _)
Repeats(document, view, id) ==
  LET node == NodeOf(document, view, id)
  IN  node # Missing /\ (node.repeat # Missing \/ Repeats(document, view, node.parent))
MayRead(document, view, node, type, source) ==
  source # Missing /\ source.type = type /\ (source.kind = "scope" => Repeats(document, view, node))
MayRepeat(source) == source # Missing /\ source.kind # "scope" /\ source.type = "array"

ReadingsAreRegistered(document, desk) ==
  /\ \A binding \in Range(document.bindings) :
       LET node == NodeOf(document, binding.view, binding.node)
           prop == PropOf(ComponentOf(desk.catalog, node.component), binding.prop)
       IN  /\ prop # Missing /\ prop.bindable
           /\ MayRead(document, binding.view, binding.node, prop.type, Registered(desk.sources, binding.source))
  /\ \A view \in Range(document.views) : \A node \in Range(view.nodes) :
       node.repeat # Missing => MayRepeat(Registered(desk.sources, node.repeat))
  /\ \A interaction \in Range(document.interactions) :
       LET node  == NodeOf(document, interaction.view, interaction.node)
           event == EventOf(ComponentOf(desk.catalog, node.component), interaction.event)
       IN  \A entry \in Range(PayloadOf(interaction)) :
             entry.source.kind # "literal" =>
               LET field == ByKey(PayloadOf(event), entry.key)
               IN  field # Missing /\ MayRead(document, interaction.view, interaction.node, field.type,
                                              Registered(desk.sources, entry.source))
Opened(document, desk) ==
  IF SourcesAreValid(desk.sources) THEN AgainstCatalog(document, desk.catalog) ELSE Refused
BindingsChecked(document, desk) ==
  Passing(Opened(document, desk), LAMBDA opened : ReadingsAreRegistered(opened, desk))
\* Only that every interaction raises an event the action adapter maps.
ActionsAreMapped(opened, desk) == \A i \in Range(opened.interactions) : i.action \in desk.actions
FlowChecked(document, desk) ==
  Passing(AgainstCatalog(document, desk.catalog), LAMBDA opened : ActionsAreMapped(opened, desk))
\* Both checks; what the first has opened the second opens as it is.
CheckedDocument(document, desk) ==
  Passing(BindingsChecked(document, desk), LAMBDA opened : ActionsAreMapped(opened, desk))
Checked(document, desk) == CheckedDocument(document, desk) # Refused

\* What an editor offers: the sources, and what is there now.
OfferedFor(document, desk, view, node, type) ==
  Without(desk.sources, LAMBDA source : ~MayRead(document, view, node, type, source))
BindingOffers(document, desk, view, id) ==
  Then(BindingsChecked(document, desk), LAMBDA checked :
  LET node      == NodeOf(checked, view, id)
      component == ComponentOf(desk.catalog, node.component)
      Current(key) == BindingTo(checked.bindings, <<view, id, key>>)
  IN  IF node = Missing THEN Refused ELSE
      Each(SelectSeq(component.props, LAMBDA prop : prop.bindable),
           LAMBDA prop : [prop    |-> prop.key,
                          sources |-> OfferedFor(checked, desk, view, id, prop.type),
                          current |-> IF Current(prop.key) = Missing THEN Missing ELSE Current(prop.key).source]))
RepeatOffers(document, desk, view, id) ==
  Then(BindingsChecked(document, desk), LAMBDA checked :
    IF NodeOf(checked, view, id) = Missing THEN Refused ELSE
    [sources |-> SelectSeq(desk.sources, MayRepeat), current |-> NodeOf(checked, view, id).repeat])
PayloadOffers(document, desk, view, id, name) ==
  Then(BindingsChecked(document, desk), LAMBDA checked :
  LET node    == NodeOf(checked, view, id)
      event   == EventOf(ComponentOf(desk.catalog, node.component), name)
      raised  == RaisedBy(checked.interactions, <<view, id, name>>)
      Current(key) == IF raised = Missing THEN Missing
                      ELSE ByKey(PayloadOf(raised), key)
  IN  IF node = Missing \/ event = Missing THEN Refused ELSE
      Each(PayloadOf(event),
           LAMBDA field : [key     |-> field.key,
                           sources |-> OfferedFor(checked, desk, view, id, field.type),
                           current |-> IF Current(field.key) = Missing THEN Missing
                                       ELSE Current(field.key).source]))
FlowOffers(document, desk, view, id) ==
  Then(FlowChecked(document, desk), LAMBDA checked :
  LET node    == NodeOf(checked, view, id)
      Raised(name) == RaisedBy(checked.interactions, <<view, id, name>>)
  IN  IF node = Missing THEN Refused ELSE
      [views  |-> Each(checked.views, LAMBDA v : v.id),
       events |-> Each(ComponentOf(desk.catalog, node.component).events,
                       LAMBDA event : [event   |-> event.name,
                                       actions |-> desk.actions,
                                       current |-> Raised(event.name)])])

-----------------------------------------------------------------------------
(* The edits: edit is [view, node, prop, source, event, key, action, outcome, target] *)

WithNode(document, edit, Change(_)) ==
  [document EXCEPT !.views = Each(@, LAMBDA view :
     IF view.id # edit.view THEN view
     ELSE [view EXCEPT !.nodes = Each(@, LAMBDA node : IF node.id = edit.node THEN Change(node) ELSE node)])]
EditedProp(document, desk, edit) ==
  LET node == NodeOf(document, edit.view, edit.node)
  IN  IF node = Missing THEN Missing ELSE PropOf(ComponentOf(desk.catalog, node.component), edit.prop)
Unbound(document, edit) ==
  Without(document.bindings, LAMBDA b : BindingTarget(b) = <<edit.view, edit.node, edit.prop>>)

\* A binding takes the place of the static value.
SetBinding(opened, desk, edit) ==
  LET prop   == EditedProp(opened, desk, edit)
      bound  == [view |-> edit.view, node |-> edit.node, prop |-> edit.prop, source |-> edit.source]
      Static(node) == [node EXCEPT !.props = [key \in DOMAIN @ \ {edit.prop} |-> @[key]]]
  IN  IF prop = Missing \/ ~prop.bindable THEN Refused ELSE
      WithNode([opened EXCEPT !.bindings = Append(Unbound(opened, edit), bound)], edit, Static)
ClearBinding(opened, desk, edit) ==
  LET prop   == EditedProp(opened, desk, edit)
      bound  == edit.prop \in BoundProps(opened, edit.view, edit.node)
  IN  IF \/ prop = Missing \/ ~prop.bindable
         \/ bound /\ prop.required /\ edit.prop \notin DOMAIN NodeOf(opened, edit.view, edit.node).props
      THEN Refused ELSE [opened EXCEPT !.bindings = Unbound(opened, edit)]
SetRepeat(opened, edit) ==
  LET Repeated(node) == [node EXCEPT !.repeat = edit.source]
  IN  IF edit.source.kind = "scope" \/ NodeOf(opened, edit.view, edit.node) = Missing
      THEN Refused ELSE WithNode(opened, edit, Repeated)
ClearRepeat(opened, edit) ==
  LET Single(node) == [node EXCEPT !.repeat = Missing] IN WithNode(opened, edit, Single)

IsRaised(interaction, edit) == Trigger(interaction) = <<edit.view, edit.node, edit.event>>
Unmapped(interaction, edit) == Without(PayloadOf(interaction), LAMBDA entry : entry.key = edit.key)
WithPayload(document, edit, Change(_)) ==
  [document EXCEPT !.interactions = Each(@, LAMBDA i :
     IF IsRaised(i, edit) THEN [i EXCEPT !.payload = Change(i)] ELSE i)]
SetPayload(opened, edit) ==
  LET Mapped(interaction) == Append(Unmapped(interaction, edit), [key |-> edit.key, source |-> edit.source])
  IN  IF ~\E i \in Range(opened.interactions) : IsRaised(i, edit)
      THEN Refused ELSE WithPayload(opened, edit, Mapped)
ClearPayload(opened, edit) ==
  LET Rest(interaction) == Unmapped(interaction, edit) IN WithPayload(opened, edit, Rest)

BindingKinds == {"bind", "unbind", "repeat", "single", "map", "unmap"}
\* Each opens the document with its sources, and what it makes is checked as a whole.
BindingEdited(document, desk, edit) ==
  Then(Then(Opened(document, desk), LAMBDA opened :
         CASE edit.kind = "bind"   -> SetBinding(opened, desk, edit)
           [] edit.kind = "unbind" -> ClearBinding(opened, desk, edit)
           [] edit.kind = "repeat" -> SetRepeat(opened, edit)
           [] edit.kind = "single" -> ClearRepeat(opened, edit)
           [] edit.kind = "map"    -> SetPayload(opened, edit)
           [] edit.kind = "unmap"  -> ClearPayload(opened, edit)),
       LAMBDA changed : BindingsChecked(changed, desk))

\* The flow package edits an interaction as the first schema knows it: change is [kind, ...].
RoutesAfter(routes, edit) ==
  IF edit.outcome = Missing THEN routes ELSE
  LET rest == Without(routes, LAMBDA route : route.outcome = edit.outcome)
  IN  IF edit.target = Missing THEN rest ELSE Append(rest, [outcome |-> edit.outcome, view |-> edit.target])
LegacyInteraction(opened, desk, edit, remove) ==
  LET node     == NodeOf(opened, edit.view, edit.node)
      existing == RaisedBy(opened.interactions, <<edit.view, edit.node, edit.event>>)
      others   == Without(opened.interactions, LAMBDA i : IsRaised(i, edit))
      action   == IF edit.action # Missing \/ existing = Missing THEN edit.action ELSE existing.action
      routes   == RoutesAfter(IF existing = Missing THEN <<>> ELSE existing.routes, edit)
      next     == [view |-> edit.view, node |-> edit.node, event |-> edit.event,
                   action |-> action, routes |-> routes, payload |-> Missing]
  IN  IF \/ node = Missing
         \/ EventOf(ComponentOf(desk.catalog, node.component), edit.event) = Missing
         \/ remove /\ existing = Missing
         \/ ~remove /\ \/ action \notin desk.actions
                       \/ edit.target # Missing /\ ViewOf(opened, edit.target) = Missing
      THEN Refused ELSE [opened EXCEPT !.interactions = IF remove THEN others ELSE Append(others, next)]
LegacyEdited(document, desk, edit, remove) ==
  Then(Then(AgainstCatalog(document, desk.catalog), LAMBDA opened :
              LegacyInteraction(opened, desk, edit, remove)),
       LAMBDA changed : FlowChecked(changed, desk))
\* A mutant: the payloads of the earlier document are forgotten.
NotPreserved(document, changed) == changed

\* The second schema puts the payloads of the earlier document back, where there are any.
Preserved(document, changed) ==
  LET kept == SelectSeq(document.interactions, LAMBDA i : PayloadOf(i) # <<>>)
      Before(interaction) == RaisedBy(kept, Trigger(interaction))
      Filled == [changed EXCEPT !.interactions = Each(@, LAMBDA i :
                   IF Before(i) = Missing THEN i ELSE [i EXCEPT !.payload = Before(i).payload])]
  IN  IF changed = Refused \/ Parsed(document) = Refused THEN changed ELSE
      OrElse(Parsed(Filled), changed)
\* What of an edit each call hands on: an action, a route, or a route taken away.
ChangeOf(edit) ==
  CASE edit.kind = "act"     -> [edit EXCEPT !.outcome = Missing, !.target = Missing]
    [] edit.kind = "route"   -> [edit EXCEPT !.action = Missing]
    [] edit.kind = "unroute" -> [edit EXCEPT !.action = Missing, !.target = Missing]
FlowEdited(document, desk, edit) ==
  IF edit.kind = "silence" THEN LegacyEdited(document, desk, edit, TRUE)
  ELSE Preserved(document, LegacyEdited(document, desk, ChangeOf(edit), FALSE))

Edited(document, desk, edit) ==
  IF edit.kind \in BindingKinds THEN BindingEdited(document, desk, edit)
  ELSE FlowEdited(document, desk, edit)

-----------------------------------------------------------------------------
(* The way to the visual editor and back: data is [content, foreign], a tree of items *)

EditorId(id) == IF id \in DOMAIN AliasOf THEN AliasOf[id] ELSE id
DeclaredProps(component) == {prop.key : prop \in Range(component.props)}
EditorTakes(catalog) ==
  /\ CatalogIsValid(catalog)
  /\ \A component \in Range(catalog) :
       /\ (DeclaredProps(component) \cup Range(component.slots)) \cap ReservedFields = {}
       /\ DeclaredProps(component) \cap Range(component.slots) = {}

Bootstrap(prop) ==
  CASE prop.type = "enum"    -> [type |-> "string", value |-> prop.options[1]]
    [] prop.type = "string"  -> [type |-> "string", value |-> ""]
    [] prop.type = "number"  -> [type |-> "number", value |-> "0"]
    [] prop.type = "boolean" -> [type |-> "boolean", value |-> "false"]
\* What the palette inserts.
FreshItem(component, id) ==
  [type |-> component.ref, id |-> id,
   props |-> [key \in {prop.key : prop \in {p \in Range(component.props) : p.required}} |->
                Bootstrap(PropOf(component, key))],
   slots |-> [slot \in {} |-> <<>>], locked |-> {}]

\* A mutant: in the order of the document.
SiblingsAsListed(nodes, parent, slot) ==
  SelectSeq(nodes, LAMBDA node : node.parent = parent /\ node.slot = slot)

Siblings(nodes, parent, slot) ==
  SortSeq(SelectSeq(nodes, LAMBDA node : node.parent = parent /\ node.slot = slot),
          LAMBDA a, b : a.order < b.order)
RECURSIVE Item(_, _, _, _)
Item(document, catalog, view, node) ==
  [type   |-> node.component, id |-> EditorId(node.id), props |-> node.props,
   slots  |-> [slot \in Range(ComponentOf(catalog, node.component).slots) |->
                 Each(Siblings(ViewOf(document, view).nodes, node.id, slot),
                      LAMBDA child : Item(document, catalog, view, child))],
   locked |-> BoundProps(document, view, node.id)]
Exported(document, catalog, view) ==
  Then(AgainstCatalog(document, catalog), LAMBDA opened :
    IF ~EditorTakes(catalog) \/ ViewOf(opened, view) = Missing THEN Refused ELSE
    [content |-> Each(Siblings(ViewOf(opened, view).nodes, Missing, Missing),
                      LAMBDA node : Item(opened, catalog, view, node)),
     foreign |-> FALSE])

ItemIsValid(item, catalog) ==
  LET component == ComponentOf(catalog, item.type)
  IN  /\ DOMAIN item.props \subseteq DeclaredProps(component)
      /\ DOMAIN item.slots \subseteq Range(component.slots)
      /\ item.locked \subseteq DeclaredProps(component) \cup Range(component.slots)
\* The items in the order of the walk, with the place of each; Missing for an unknown component.
RECURSIVE Walk(_, _, _, _)
Walk(items, parent, slot, catalog) ==
  FlattenSeq([k \in DOMAIN items |->
    LET item  == items[k]
        slots == SelectSeq(ComponentOf(catalog, item.type).slots, LAMBDA s : s \in DOMAIN item.slots)
    IN  IF ComponentOf(catalog, item.type) = Missing THEN <<Missing>> ELSE
        <<[item |-> item, parent |-> parent, slot |-> slot, order |-> k - 1]>>
          \o FlattenSeq(Each(slots, LAMBDA s : Walk(item.slots[s], item.id, s, catalog)))])
DataIsValid(data, placed, catalog) ==
  /\ ~data.foreign /\ Len(placed) <= MaxNodes /\ Missing \notin Range(placed)
  /\ \A k \in DOMAIN placed : ItemIsValid(placed[k].item, catalog)

NamedBy(mappings, editor) == Found(mappings, {k \in DOMAIN mappings : mappings[k].editor = editor})
MappingsAreValid(mappings) ==
  /\ Len(mappings) <= MaxNodes
  /\ Distinct(Each(mappings, LAMBDA m : m.editor)) /\ Distinct(Each(mappings, LAMBDA m : m.node))
  /\ \A m \in Range(mappings) : m.node \in Segments
ReservedMappings(nodes) ==
  Each(SelectSeq(nodes, LAMBDA node : node.id \in DOMAIN AliasOf),
       LAMBDA node : [editor |-> AliasOf[node.id], node |-> node.id])
Merged(nodes, ids, mappings) ==
  SelectSeq(ReservedMappings(nodes), LAMBDA m : m.editor \in ids /\ m \notin Range(mappings)) \o mappings

\* The first schema drops the repeats; they come back by the nodes' ids.
Repeated(nodes, earlier) ==
  Each(nodes, LAMBDA node :
    LET before == ById(earlier, node.id)
    IN  IF before = Missing THEN node ELSE [node EXCEPT !.repeat = before.repeat])
Imported(document, catalog, view, data, given) ==
  Then(AgainstCatalog(document, catalog), LAMBDA opened :
  LET earlier  == ViewOf(opened, view).nodes
      placed   == Walk(data.content, Missing, Missing, catalog)
      ids      == {placed[k].item.id : k \in DOMAIN placed}
      mappings == Merged(earlier, ids, given)
      Named(id) == LET m == NamedBy(mappings, id)
                   IN  IF m = Missing THEN id ELSE m.node
      nodes    == Each(placed, LAMBDA p :
                    [id |-> Named(p.item.id), component |-> p.item.type, order |-> p.order,
                     props |-> p.item.props, slot |-> p.slot, repeat |-> Missing,
                     parent |-> IF p.parent = Missing THEN Missing ELSE Named(p.parent)])
      Placing(list) == [opened EXCEPT !.views = Each(@, LAMBDA v :
                          IF v.id = view THEN [v EXCEPT !.nodes = list] ELSE v)]
  IN  IF \/ ~EditorTakes(catalog) \/ ViewOf(opened, view) = Missing
         \/ ~DataIsValid(data, placed, catalog) \/ ~MappingsAreValid(mappings)
         \/ \E id \in ids : Named(id) \notin Segments
         \/ ~Distinct(Each(nodes, LAMBDA node : node.id))
         \/ \E m \in Range(mappings) : m.editor \notin ids
         \/ AgainstCatalog(Placing(nodes), catalog) = Refused
      THEN Refused ELSE AgainstCatalog(Placing(Repeated(nodes, earlier)), catalog))

-----------------------------------------------------------------------------
(* A session of the editor: names maps the ids the editor made up to nodes' ids *)

SessionOf(opened, catalog, view) ==
  LET nodes   == ViewOf(opened, view).nodes
      aliases == {m.editor : m \in Range(ReservedMappings(nodes))}
  IN  IF ~EditorTakes(catalog) \/ ViewOf(opened, view) = Missing THEN Refused ELSE
      [catalog |-> catalog, view |-> view, current |-> opened,
       names |-> [editor \in aliases |-> NamedBy(ReservedMappings(nodes), editor).node],
       reserved |-> {node.id : node \in Range(nodes)}]
OpenAuthoring(document, catalog, view) ==
  Then(AgainstCatalog(document, catalog), LAMBDA opened : SessionOf(opened, catalog, view))
HasNode(session, id) == NodeOf(session.current, session.view, id) # Missing
NodeIdOf(session, editor) ==
  LET id == IF editor \in DOMAIN session.names THEN session.names[editor] ELSE editor
  IN  IF id \in Segments /\ HasNode(session, id) THEN id ELSE Missing
EditorIdOf(session, id) ==
  IF ~HasNode(session, id) THEN Missing ELSE
  IF \E editor \in DOMAIN session.names : session.names[editor] = id
  THEN CHOOSE editor \in DOMAIN session.names : session.names[editor] = id ELSE id

\* A mutant: an id that is taken may be given.
MayAllocateAny(session, id) == id \in Segments /\ id \notin DOMAIN AliasOf

\* An id once given stays given, also when a later item or the import is refused.
MayAllocate(session, id) ==
  id \in Segments /\ id \notin DOMAIN AliasOf /\ id \notin session.reserved
Allocated(step, editor, host) ==
  IF ~step.ok \/ editor \in Segments THEN step ELSE
  IF editor \notin DOMAIN step.session.names /\ ~MayAllocate(step.session, host[editor])
  THEN [step EXCEPT !.ok = FALSE] ELSE
  LET id   == IF editor \in DOMAIN step.session.names THEN step.session.names[editor] ELSE host[editor]
      next == [step.session EXCEPT
                 !.names = [e \in DOMAIN @ \cup {editor} |-> IF e = editor THEN id ELSE @[e]],
                 !.reserved = @ \cup {id}]
  IN  [ok |-> TRUE, session |-> next, mappings |-> Append(step.mappings, [editor |-> editor, node |-> id])]
IdentitiesAreClear(placed) ==
  Missing \notin Range(placed) /\ Len(placed) <= MaxNodes /\ Distinct(Each(placed, LAMBDA p : p.item.id))
\* What is imported with the ids that were given, or the session with those ids alone.
Taken(given, next) ==
  IF ~given.ok \/ next = Refused THEN [session |-> given.session, accepted |-> FALSE]
  ELSE [session |-> [given.session EXCEPT !.current = next], accepted |-> TRUE]
Reconciled(session, data, host) ==
  LET placed == Walk(data.content, Missing, Missing, session.catalog)
      ids    == Each(placed, LAMBDA p : p.item.id)
      Given  == FoldLeft(LAMBDA step, editor : Allocated(step, editor, host),
                         [ok |-> TRUE, session |-> session, mappings |-> <<>>], ids)
  IN  IF ~IdentitiesAreClear(placed) THEN [session |-> session, accepted |-> FALSE] ELSE
      Then(Given, LAMBDA given :
        Taken(given, Imported(session.current, session.catalog, session.view, data, given.mappings)))

-----------------------------------------------------------------------------
(* What they promise *)

\* The parser takes a document as it is or not at all: what it hides from the first parser
\* comes back in its own place, and the placeholder never escapes.
ParserTellsTheDocument(document) == Parsed(document) \in {document, Refused}

OthersOf(list, Test(_)) == ToSet(Without(list, Test))
KeepsTheRest(document, desk, edit, next) ==
  LET Target(binding) == BindingTarget(binding) = <<edit.view, edit.node, edit.prop>>
      Same(interaction) == IsRaised(interaction, edit)
      was == RaisedBy(document.interactions, <<edit.view, edit.node, edit.event>>)
      is  == RaisedBy(next.interactions, <<edit.view, edit.node, edit.event>>)
      Binds == edit.kind \in {"bind", "unbind"}
      Maps  == edit.kind \in {"map", "unmap"}
      Flows == edit.kind \in {"act", "silence", "route", "unroute"}
      Bare(node) == [node EXCEPT !.repeat = Missing,
        !.props = [key \in DOMAIN @ \ {edit.prop} |-> @[key]]]
  IN  Checked(document, desk) /\ next # Refused =>
        /\ Checked(next, desk)
        /\ IF Binds THEN OthersOf(next.bindings, Target) = OthersOf(document.bindings, Target)
           ELSE next.bindings = document.bindings
        /\ IF Maps \/ Flows THEN OthersOf(next.interactions, Same) = OthersOf(document.interactions, Same)
           ELSE next.interactions = document.interactions
        /\ next.entry = document.entry
        /\ IF Maps \/ Flows THEN next.views = document.views
           ELSE WithNode(next, edit, Bare).views = WithNode(document, edit, Bare).views
        /\ Maps /\ was # Missing => is.action = was.action /\ is.routes = was.routes
        /\ Flows /\ was # Missing /\ edit.kind # "silence" =>
             /\ ToSet(PayloadOf(is)) = ToSet(PayloadOf(was))
             /\ edit.kind # "act" => is.action = was.action
             /\ \A route \in ToSet(was.routes) : route \notin ToSet(is.routes) => route.outcome = edit.outcome
\* An edit of a checked document is refused or gives a checked document, and changes
\* nothing but what it names: one prop's binding, one repeat, one interaction's payload,
\* action or route.
EditsKeepTheRest(document, desk, edit) == KeepsTheRest(document, desk, edit, Edited(document, desk, edit))

OffersTell(document, desk, edit, took) ==
  LET Offered(list) == \E k \in DOMAIN list : list[k].kind = edit.source.kind /\ list[k].path = edit.source.path
      raised   == \E i \in Range(document.interactions) : IsRaised(i, edit)
  IN  Checked(document, desk) /\ NodeOf(document, edit.view, edit.node) # Missing =>
        CASE edit.kind = "bind" ->
               took <=> \E offer \in Range(BindingOffers(document, desk, edit.view, edit.node)) :
                          offer.prop = edit.prop /\ Offered(offer.sources)
          [] edit.kind = "repeat" ->
               took <=> Offered(RepeatOffers(document, desk, edit.view, edit.node).sources)
          [] edit.kind = "map" /\ edit.source.kind # "literal" ->
               took <=> raised /\
                 \E offers \in {PayloadOffers(document, desk, edit.view, edit.node, edit.event)} \ {Refused} :
                   \E offer \in Range(offers) : offer.key = edit.key /\ Offered(offer.sources)
          [] edit.kind \in {"act", "route"} ->
               \A flow \in {FlowOffers(document, desk, edit.view, edit.node)} :
                 took <=> \E event \in Range(flow.events) :
                   /\ event.event = edit.event
                   /\ IF edit.kind = "act" THEN edit.action \in event.actions
                      ELSE event.current # Missing /\ edit.target \in Range(flow.views)
          [] OTHER -> TRUE
\* What the inspector offers for a prop, a repeat or a payload field is what the edit takes.
OffersAreTaken(document, desk, edit) == OffersTell(document, desk, edit, Edited(document, desk, edit) # Refused)

Ranked(nodes) == [k \in DOMAIN nodes |-> [nodes[k] EXCEPT !.order =
  Cardinality({j \in DOMAIN nodes : /\ nodes[j].parent = nodes[k].parent /\ nodes[j].slot = nodes[k].slot
                                    /\ nodes[j].order < nodes[k].order})]]
\* A view that goes to the editor and comes back untouched is the same view, and a component
\* fresh from the palette is taken beside it, and disturbs nothing.
EditorGivesBack(document, catalog, view, component, id) ==
  LET Nodes(of) == ToSet(ViewOf(of, view).nodes)
      known == ToSet(Ranked(ViewOf(document, view).nodes))
      Beside(of) == [of EXCEPT !.views = SelectSeq(@, LAMBDA v : v.id # view)]
      Fresh(data) == [data EXCEPT !.content = Append(@, FreshItem(component, "made-up"))]
  IN  \A data \in {Exported(document, catalog, view)} \ {Refused} :
        /\ \A back \in {Imported(document, catalog, view, data, <<>>)} :
             /\ back # Refused /\ Nodes(back) = known /\ Beside(back) = Beside(document)
             /\ Exported(back, catalog, view) = data
        /\ \/ Len(ViewOf(document, view).nodes) = MaxNodes
           \/ NodeOf(document, view, id) # Missing \/ id \in DOMAIN AliasOf
           \/ \A grown \in {Imported(document, catalog, view, Fresh(data), <<[editor |-> "made-up", node |-> id]>>)} :
                /\ grown # Refused /\ Beside(grown) = Beside(document)
                /\ known \subseteq Nodes(grown) /\ Cardinality(Nodes(grown) \ known) = 1

\* Over a session of refused and accepted changes an id the editor made up keeps the node it
\* was given, no two name one node, none is given a node of the view as it was opened, and
\* the document changes only when a change is accepted.
IdentityIsKept(session, change, next) ==
  LET new  == DOMAIN next.session.names \ DOMAIN session.names
  IN  /\ \A editor \in DOMAIN session.names :
           editor \in DOMAIN next.session.names /\ next.session.names[editor] = session.names[editor]
      /\ IsInjective(next.session.names)
      /\ \A editor \in new : next.session.names[editor] \notin session.reserved
      /\ ~next.accepted => next.session.current = session.current
      /\ AgainstCatalog(next.session.current, session.catalog) = next.session.current
      /\ next.accepted =>
           LET nodes == ViewOf(next.session.current, session.view).nodes
           IN  /\ Len(nodes) = Len(Walk(change.data.content, Missing, Missing, session.catalog))
               /\ \A node \in Range(nodes) : NodeIdOf(next.session, EditorIdOf(next.session, node.id)) = node.id
RECURSIVE IdentitiesAreKept(_, _)
IdentitiesAreKept(session, changes) ==
  changes = <<>> \/
    \A next \in {Reconciled(session, changes[1].data, changes[1].host)} :
      IdentityIsKept(session, changes[1], next) /\ IdentitiesAreKept(next.session, Tail(changes))
=============================================================================

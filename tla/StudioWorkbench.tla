---------------------------- MODULE StudioWorkbench ----------------------------
(* The workbench a Studio document is drawn on, and what comes of the drawing: *)
(* the publication and its preview, the design of its nodes, the brand whose   *)
(* templates are opened on it, the drafts a model writes for several hosts,    *)
(* and the rendering of a view.  The editor's data and the host that allocates *)
(* ids are external.                                                           *)
EXTENDS StudioDocument

CONSTANTS
  Platforms,
  MaxTemplates,
  Colors,            \* the strings that are colors
  ColorKeys, ModeKey, Gradient,      \* the design's props: colors, the background's mode,
  GradientKeys,                      \* its value for a gradient and the colors this needs,
  Bounds,                            \* what each number may be,
  OptionsOf                          \* and the options of each of the others

-----------------------------------------------------------------------------
(* The design of a node *)

DesignKeys == ColorKeys \cup {ModeKey} \cup DOMAIN Bounds \cup DOMAIN OptionsOf
\* options is [components, palette, gradient]: which components, which colors, and whether gradients.
DesignOptionsAreValid(options) ==
  options.palette # Missing =>
    options.palette # <<>> /\ Distinct(options.palette) /\ Range(options.palette) \subseteq Colors
DesignProp(key, options) ==
  LET Choice(list) == [key |-> key, type |-> "enum", required |-> FALSE, bindable |-> FALSE, options |-> list]
      Plain(type)  == [key |-> key, type |-> type, required |-> FALSE, bindable |-> FALSE, options |-> Missing]
  IN  CASE key \in ColorKeys        -> IF options.palette = Missing THEN Plain("string") ELSE Choice(options.palette)
        [] key = ModeKey            -> Choice(IF options.gradient THEN <<"none", "solid", Gradient>> ELSE <<"none", "solid">>)
        [] key \in DOMAIN Bounds    -> Plain("number")
        [] key \in DOMAIN OptionsOf -> Choice(OptionsOf[key])
DesignProps(options) ==
  Each(SetToSeq(DesignKeys \ (IF options.gradient THEN {} ELSE GradientKeys)),
       LAMBDA key : DesignProp(key, options))
DesignCatalog(catalog, options) ==
  LET selected == IF options.components = Missing THEN {c.ref : c \in Range(catalog)} ELSE options.components
      Designed(component) == IF component.ref \notin selected THEN component
                             ELSE [component EXCEPT !.props = @ \o DesignProps(options)]
      designed == Each(catalog, Designed)
  IN  IF /\ CatalogIsValid(catalog) /\ DesignOptionsAreValid(options)
         /\ selected \subseteq {c.ref : c \in Range(catalog)}
         /\ \A c \in Range(catalog) : c.ref \in selected =>
              DeclaredProps(c) \cap {prop.key : prop \in Range(DesignProps(options))} = {}
         /\ CatalogIsValid(designed)
      THEN designed ELSE Refused

IsColor(value)  == value.type = "string" /\ value.value \in Colors
InBounds(key, value) == value.type = "number" /\ value.value \in Bounds[key]
IsGradient(props) == ModeKey \in DOMAIN props /\ props[ModeKey].value = Gradient
DesignIsValid(props) ==
  /\ \A key \in DOMAIN props \cap ColorKeys : IsColor(props[key])
  /\ \A key \in DOMAIN props \cap DOMAIN Bounds : InBounds(key, props[key])
  /\ IsGradient(props) => GradientKeys \subseteq DOMAIN props
DesignsAreValid(opened) ==
  \A view \in Range(opened.views) : \A node \in Range(view.nodes) : DesignIsValid(node.props)
DesignChecked(document, catalog) == Passing(AgainstCatalog(document, catalog), DesignsAreValid)
\* What the renderer makes of the props; where it is refused, the node is drawn without a design.
ResolvedDesign(props) ==
  IF /\ DesignIsValid(props)
     /\ \A key \in DOMAIN props \cap DOMAIN OptionsOf :
          props[key].type = "string" /\ props[key].value \in Range(OptionsOf[key])
     /\ ModeKey \in DOMAIN props => props[ModeKey].value \in {"none", "solid", Gradient}
  THEN [key \in DOMAIN props \cap DesignKeys |-> props[key].value] ELSE Refused

-----------------------------------------------------------------------------
(* Publication, preview and rendering *)

SourceName(source) == <<source.kind, source.path>>
SourcesOf(document) ==
  {SourceName(binding.source) : binding \in Range(document.bindings)} \cup
  {SourceName(node.repeat) : node \in
     {n \in UNION {Range(view.nodes) : view \in Range(document.views)} : n.repeat # Missing}} \cup
  UNION {{SourceName(entry.source) : entry \in {e \in Range(PayloadOf(i)) : e.source.kind # "literal"}} :
           i \in Range(document.interactions)}
Compiled(document) ==
  Then(Parsed(document), LAMBDA parsed :
    [document   |-> parsed,
     components |-> UNION {{node.component : node \in Range(view.nodes)} : view \in Range(parsed.views)},
     actions    |-> {i.action : i \in Range(parsed.interactions)},
     sources    |-> SourcesOf(parsed)])
Publication(document, desk) ==
  Then(CheckedDocument(document, desk), LAMBDA checked :
    IF IsComplete(checked, desk.catalog) /\ DesignsAreValid(checked) THEN Compiled(document) ELSE Refused)
\* The sources of a preview are those of its bindings alone.
Preview(document, desk, view) ==
  Then(Publication(document, desk), LAMBDA publication :
  LET Here(list) == SelectSeq(list, LAMBDA entry : entry.view = view)
      shown == ViewOf(publication.document, view)
  IN  IF shown = Missing THEN Refused ELSE
      [view         |-> shown,
       bindings     |-> Here(publication.document.bindings),
       interactions |-> Here(publication.document.interactions),
       components   |-> {node.component : node \in Range(shown.nodes)},
       actions      |-> {i.action : i \in Range(Here(publication.document.interactions))},
       sources      |-> {SourceName(b.source) : b \in Range(Here(publication.document.bindings))}])

RegistryIsWhole(renderers, catalog) == renderers = {component.ref : component \in Range(catalog)}
RECURSIVE Drawn(_, _, _)
\* The nodes as they are drawn, children before their parent.
Drawn(nodes, catalog, node) ==
  LET slots == ComponentOf(catalog, node.component).slots
  IN  FlattenSeq(Each(slots, LAMBDA slot :
        FlattenSeq(Each(Siblings(nodes, node.id, slot), LAMBDA child : Drawn(nodes, catalog, child))))) \o <<node>>
Rendered(view, catalog, renderers) ==
  LET nodes == view.nodes
      drawn == FlattenSeq(Each(Siblings(nodes, Missing, Missing), LAMBDA root : Drawn(nodes, catalog, root)))
  IN  IF /\ CatalogIsValid(catalog) /\ RegistryIsWhole(renderers, catalog)
         /\ \A node \in Range(nodes) :
              /\ ComponentOf(catalog, node.component) # Missing
              /\ node.parent # Missing =>
                   LET parent == ById(nodes, node.parent)
                   IN  parent # Missing /\ node.slot \in Range(ComponentOf(catalog, parent.component).slots)
         /\ Distinct(drawn) /\ Len(drawn) = Len(nodes)
      THEN drawn ELSE Refused

-----------------------------------------------------------------------------
(* A brand: [package, implementations, recipes]; a package is                 *)
(* [brand, brandOf, catalog, sources, actions, templates]                      *)

DeskOf(package) == [catalog |-> package.catalog, sources |-> package.sources, actions |-> package.actions]
PackageIsValid(package) ==
  /\ CatalogIsValid(package.catalog) /\ package.brand = package.brandOf
  /\ SourcesAreValid(package.sources)
  /\ Len(package.templates) <= MaxTemplates
  /\ Distinct(Each(package.templates, LAMBDA template : template.id))
  /\ \A template \in Range(package.templates) :
       Checked(template.document, DeskOf(package))

ImplementationOf(list, ref) == Found(list, {k \in DOMAIN list : list[k].component = ref})
\* Exactly one for each component, in the order of the catalogue.
NormalizedImplementations(list, catalog) ==
  IF /\ Distinct(Each(list, LAMBDA entry : entry.component))
     /\ {entry.component : entry \in Range(list)} = {component.ref : component \in Range(catalog)}
     /\ \A entry \in Range(list) : DOMAIN entry.on = Platforms
  THEN Each(catalog, LAMBDA component : ImplementationOf(list, component.ref)) ELSE Refused
RecipesAreMapped(brand) ==
  \A template \in Range(brand.package.templates) : template.recipe \in brand.recipes
DefinedBrand(brand) ==
  Then(NormalizedImplementations(brand.implementations, brand.package.catalog), LAMBDA implementations :
    IF ~PackageIsValid(brand.package) \/ ~RecipesAreMapped(brand)
    THEN Refused ELSE [brand EXCEPT !.implementations = implementations])

\* A host manifest is [platform, implementations].
HostsAreValid(hosts) ==
  /\ Len(hosts) = Cardinality(Platforms)
  /\ {host.platform : host \in Range(hosts)} = Platforms
HostOf(hosts, platform) == Found(hosts, {k \in DOMAIN hosts : hosts[k].platform = platform})
\* A mutant: what some host can draw.
AnyCatalog(brand, hosts) ==
  LET Runs(component) ==
        LET implementation == ImplementationOf(brand.implementations, component.ref)
        IN  \E p \in Platforms : implementation.on[p] \in HostOf(hosts, p).implementations
  IN  SelectSeq(brand.package.catalog, Runs)

CommonCatalog(brand, hosts) ==
  LET Runs(component) ==
        LET implementation == ImplementationOf(brand.implementations, component.ref)
        IN  \A p \in Platforms : implementation.on[p] \in HostOf(hosts, p).implementations
  IN  SelectSeq(brand.package.catalog, Runs)
\* base is the document the draft starts from, candidate what the model answers; a document has an identity.
DraftAsked(raw, hosts, recipe, base) ==
  Then(DefinedBrand(raw), LAMBDA brand :
    LET desk == [DeskOf(brand.package) EXCEPT !.catalog = CommonCatalog(brand, hosts)]
    IN  IF ~HostsAreValid(hosts) \/ recipe \notin brand.recipes THEN Refused ELSE
        Passing(desk, LAMBDA common : common.catalog # <<>> /\ (base = Missing \/ Checked(base, common))))
Draft(raw, hosts, recipe, base, candidate) ==
  Then(DraftAsked(raw, hosts, recipe, base), LAMBDA desk : IF Checked(candidate, desk) THEN candidate ELSE Refused)

-----------------------------------------------------------------------------
(* The workbench *)

CONSTANTS
  Desk, Opening,        \* the catalogue, sources and actions; the documents it may be opened with
  Edits, Replacements,  \* what the inspector and the panels ask for
  ViewIds, Roots,       \* views that may be added, and their roots: [id, component]
  Trees, Hosts          \* the editor's data, and the ids the host gives

VARIABLES
  bench,   \* the document, the view it shows and the session of the editor
  last     \* history: whether the last command was refused, or was a reconciliation

vars == <<bench, last>>

OpenBench(document, desk, view) ==
  Then(CheckedDocument(document, desk), LAMBDA checked :
    IF ViewOf(checked, view) = Missing THEN Refused ELSE
    Then(SessionOf(checked, desk.catalog, view), LAMBDA session :
      [current |-> checked, view |-> view, session |-> session]))

Init == /\ bench \in {OpenBench(document, Desk, document.entry) : document \in Opening} \ {Refused}
        /\ last = "done"

Become(next) ==
  IF next = Refused THEN bench' = bench /\ last' = "refused" ELSE bench' = next /\ last' = "done"
Commit(document, view) == Become(IF document = Refused THEN Refused ELSE OpenBench(document, Desk, view))

Edit(edit) == Commit(Edited(bench.current, Desk, [edit EXCEPT !.view = bench.view]), bench.view)
ReplaceDocument(document) ==
  Commit(document, IF ViewOf(document, bench.view) = Missing THEN document.entry ELSE bench.view)
SelectView(view) ==
  Become(IF ViewOf(bench.current, view) = Missing THEN Refused ELSE
         Then(SessionOf(bench.current, Desk.catalog, view), LAMBDA session :
           [bench EXCEPT !.view = view, !.session = session]))
AddView(view, root) ==
  LET component == ComponentOf(Desk.catalog, root.component)
      node == [id |-> root.id, component |-> root.component, order |-> 0, props |-> [key \in {} |-> Missing],
               parent |-> Missing, slot |-> Missing, repeat |-> Missing]
  IN  Commit(IF \/ view \notin Segments \/ ViewOf(bench.current, view) # Missing
                \/ Len(bench.current.views) >= MaxViews \/ root.id \notin Segments
                \/ component = Missing \/ component.kind # "layout"
             THEN Refused
             ELSE [bench.current EXCEPT !.views = Append(@, [id |-> view, nodes |-> <<node>>])],
             view)
LeadsTo(document, view) ==
  \E i \in Range(document.interactions) : \E route \in Range(i.routes) : route.view = view
RemoveView(view) ==
  LET Elsewhere(list) == SelectSeq(list, LAMBDA entry : entry.view # view)
  IN  Commit(IF \/ ViewOf(bench.current, view) = Missing \/ Len(bench.current.views) <= 1
                \/ bench.current.entry = view \/ LeadsTo(bench.current, view)
             THEN Refused
             ELSE [bench.current EXCEPT !.views = SelectSeq(@, LAMBDA v : v.id # view),
                                        !.bindings = Elsewhere(@), !.interactions = Elsewhere(@)],
             IF bench.view = view THEN bench.current.entry ELSE bench.view)
SetEntryView(view) ==
  Commit(IF ViewOf(bench.current, view) = Missing THEN Refused ELSE [bench.current EXCEPT !.entry = view],
         bench.view)
\* A mutant: the document is taken over before it is checked.
TakeBeforeCheck(step, checked) ==
  /\ bench' = [bench EXCEPT !.session = step.session, !.current = step.session.current]
  /\ last'  = IF step.accepted /\ checked # Refused THEN "reconcile" ELSE "refused"

\* The session of the editor has moved on when the bindings or the flow refuse what it made.
Take(step, checked) ==
  IF step.accepted /\ checked # Refused /\ ViewOf(checked, bench.view) # Missing
  THEN bench' = [bench EXCEPT !.session = step.session, !.current = checked] /\ last' = "reconcile"
  ELSE bench' = [bench EXCEPT !.session = step.session] /\ last' = "refused"
ReconcilePuck(data, host) ==
  \E step \in {Reconciled(bench.session, data, host)} : Take(step, CheckedDocument(step.session.current, Desk))

Next ==
  \/ \E edit \in Edits : Edit(edit)
  \/ \E document \in Replacements : ReplaceDocument(document)
  \/ \E view \in ViewIds : \/ SelectView(view) \/ RemoveView(view) \/ SetEntryView(view)
                           \/ \E root \in Roots : AddView(view, root)
  \/ \E data \in Trees, host \in Hosts : ReconcilePuck(data, host)

Spec == Init /\ [][Next]_vars

TypeOK ==
  /\ DOMAIN bench = {"current", "view", "session"}
  /\ bench.view \in {view.id : view \in Range(bench.current.views)}
  /\ bench.session.view = bench.view /\ bench.session.catalog = Desk.catalog

-----------------------------------------------------------------------------
(* What the workbench promises *)

\* Whatever is done and refused on the workbench, its document passes the bindings' and the
\* flow's check as it is; it is not published only where a payload is not complete or a
\* design is not valid; and what is published reads only registered sources, and every view
\* of it is drawn whole, each node once.
BenchIsSound ==
  LET renderers == {component.ref : component \in Range(Desk.catalog)} IN
  /\ CheckedDocument(bench.current, Desk) = bench.current
  /\ \A publication \in {Publication(bench.current, Desk)} :
       IF publication = Refused
       THEN ~IsComplete(bench.current, Desk.catalog) \/ ~DesignsAreValid(bench.current)
       ELSE /\ publication.document = bench.current
            /\ publication.sources \subseteq {SourceName(source) : source \in Range(Desk.sources)}
            /\ \A view \in Range(bench.current.views) :
                 /\ Rendered(view, Desk.catalog, renderers) # Refused
                 /\ \A preview \in {Preview(bench.current, Desk, view.id)} :
                      preview # Refused /\ preview.sources \subseteq publication.sources

\* A refused command leaves the document and the view, and a reconciliation changes the nodes
\* of the shown view only: a node that is still there keeps its repeat, unless the editor's
\* session had moved on to a tree that the workbench refused.
ReconcileKeepsTheRest ==
  /\ last' = "refused" => bench'.current = bench.current /\ bench'.view = bench.view
  /\ last' = "reconcile" =>
       /\ bench'.view = bench.view /\ bench'.current.entry = bench.current.entry
       /\ bench'.current.bindings = bench.current.bindings
       /\ bench'.current.interactions = bench.current.interactions
       /\ \A view \in Range(bench.current.views) : view.id # bench.view => ViewOf(bench'.current, view.id) = view
       /\ bench.session.current = bench.current =>
            \A node \in Range(ViewOf(bench.current, bench.view).nodes) :
              LET now == NodeOf(bench'.current, bench.view, node.id)
              IN  now # Missing => now.repeat = node.repeat

\* A design that is accepted with a component the design catalogue extends is drawn as it was
\* chosen; the renderer falls back to no design at all for nothing that was published.
DesignIsNotLost(catalog, options, document) ==
  \A designed \in {DesignCatalog(catalog, options)} :
  designed # Refused /\ DesignChecked(document, designed) # Refused =>
    \A view \in Range(document.views) : \A node \in Range(view.nodes) :
      (options.components = Missing \/ node.component \in options.components) =>
        /\ ResolvedDesign(node.props) # Refused
        /\ options.palette # Missing =>
             \A key \in DOMAIN node.props \cap ColorKeys : node.props[key].value \in Range(options.palette)

\* A template of a defined brand opens on the workbench, unless the catalogue takes names the
\* editor reserves; and a draft for several hosts is a document of the brand, and each of its
\* nodes has an implementation that every host has.
BrandRuns(raw, hosts, base, candidate) ==
  \A brand \in {DefinedBrand(raw)}, draft \in {Draft(raw, hosts, "recipe", base, candidate)} :
      /\ brand # Refused =>
           /\ \A template \in Range(brand.package.templates) :
                EditorTakes(brand.package.catalog) =>
                  OpenBench(template.document, DeskOf(brand.package), template.document.entry) # Refused
           /\ {entry.component : entry \in Range(brand.implementations)} =
                {component.ref : component \in Range(brand.package.catalog)}
      /\ draft # Refused =>
           /\ CheckedDocument(draft, DeskOf(brand.package)) = draft
           /\ \A view \in Range(draft.views) : \A node \in Range(view.nodes) : \A p \in Platforms :
                ImplementationOf(brand.implementations, node.component).on[p] \in HostOf(hosts, p).implementations
=============================================================================

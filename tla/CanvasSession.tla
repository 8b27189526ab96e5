--------------------------- MODULE CanvasSession ---------------------------
(* The mutation session of a canvas: editors change a draft they have read,   *)
(* each naming the revision it read.                                          *)
EXTENDS ApplicationDefinition

CONSTANTS
  Editor,       \* who changes the draft
  FirstDraft,   \* the drafts a session may be created with
  Semantics,    \* the semantics an editor may ask for
  View,         \* the views of a graph an editor may ask for
  MaxRevision   \* bound: Number.MAX_SAFE_INTEGER, where revisions run out

VARIABLES
  draft,        \* current, the draft of the session
  read          \* the draft each editor read last

vars == <<draft, read>>

Init ==
  /\ draft \in {d \in FirstDraft : DraftIsValid(d)}
  /\ read = [e \in Editor |-> draft]

\* A caller keeps the draft it is shown.
Read(editor) ==
  /\ read' = [read EXCEPT ![editor] = draft]
  /\ UNCHANGED draft

\* Mutant: the revision that is expected is not compared.
CommitUnread(editor, semantics, projection) ==
  LET candidate == [revision |-> draft.revision + 1, semantics |-> semantics,
                    projection |-> projection]
  IN  /\ draft.revision # MaxRevision
      /\ DraftIsValid(candidate)
      /\ draft' = candidate
      /\ read' = [read EXCEPT ![editor] = candidate]

\* guard, and commit: the whole candidate is parsed before it becomes current.
Commit(editor, semantics, projection) ==
  LET candidate == [revision |-> draft.revision + 1, semantics |-> semantics,
                    projection |-> projection]
  IN  /\ read[editor].revision = draft.revision
      /\ draft.revision # MaxRevision
      /\ DraftIsValid(candidate)
      /\ draft' = candidate
      /\ read' = [read EXCEPT ![editor] = candidate]

ReplaceSemantics(editor, semantics) == Commit(editor, semantics, draft.projection)

SetActiveGraph(editor, ref) ==
  /\ ref \in Refs(draft.semantics) \cup {NoGraph}
  /\ Commit(editor, draft.semantics, [draft.projection EXCEPT !.active = ref])

ViewOf(ref) == {i \in DOMAIN draft.projection.views : draft.projection.views[i].ref = ref}

UpsertGraphView(editor, view) ==
  LET views == draft.projection.views
      at    == ViewOf(view.ref)
      next  == IF at = {} THEN Append(views, view)
               ELSE [i \in DOMAIN views |-> IF i \in at THEN view ELSE views[i]]
  IN  /\ view.ref \in Refs(draft.semantics)
      /\ Commit(editor, draft.semantics, [draft.projection EXCEPT !.views = next])

RemoveGraphView(editor, ref) ==
  /\ ref \in Refs(draft.semantics)
  /\ \E i \in ViewOf(ref) :
       Commit(editor, draft.semantics,
              [active |-> IF draft.projection.active = ref THEN NoGraph ELSE draft.projection.active,
               views  |-> RemoveAt(draft.projection.views, i)])

ChangeView(editor, ref, Changed(_)) ==
  /\ ref \in Refs(draft.semantics)
  /\ \E i \in ViewOf(ref) :
       Commit(editor, draft.semantics,
              [draft.projection EXCEPT !.views[i] = Changed(@)])

Moved(layouts, node, place) ==
  LET at   == {i \in DOMAIN layouts : layouts[i].node = node}
      next == [node |-> node, at |-> place]
  IN  IF at = {} THEN Append(layouts, next)
      ELSE [i \in DOMAIN layouts |-> IF i \in at THEN next ELSE layouts[i]]

SetNodeLayout(editor, ref, node, place) ==
  LET Changed(view) == [view EXCEPT !.layouts = Moved(@, node, place)]
  IN  ChangeView(editor, ref, Changed)

SetViewport(editor, ref, place) ==
  LET Changed(view) == [view EXCEPT !.viewport = place] IN ChangeView(editor, ref, Changed)

SetSelection(editor, ref, selection) ==
  LET Changed(view) == [view EXCEPT !.selection = selection] IN ChangeView(editor, ref, Changed)

KnownRefs == UNION {Refs(s) : s \in Semantics}
KnownNodes == UNION {UNION {NodeIds(s.graphs[i]) : i \in DOMAIN s.graphs} : s \in Semantics}
Selections == {v.selection : v \in View}

Next ==
  \E e \in Editor :
    \/ Read(e)
    \/ \E s \in Semantics : ReplaceSemantics(e, s)
    \/ \E r \in KnownRefs \cup {NoGraph} : SetActiveGraph(e, r)
    \/ \E v \in View : UpsertGraphView(e, v)
    \/ \E r \in KnownRefs : RemoveGraphView(e, r)
    \/ \E r \in KnownRefs, n \in KnownNodes, p \in Place \cup {Nowhere} : SetNodeLayout(e, r, n, p)
    \/ \E r \in KnownRefs, p \in Place \cup {Nowhere} : SetViewport(e, r, p)
    \/ \E r \in KnownRefs, s \in Selections : SetSelection(e, r, s)

Spec == Init /\ [][Next]_vars

TypeOK ==
  /\ draft.revision \in 0..MaxRevision
  /\ DOMAIN read = Editor

\* What the editor shows is of the application as it is: a view, its layouts
\* and its selection name nodes and edges of a graph of the current semantics,
\* and an action a graph uses is one the package binds, in that version.
NothingDangles ==
  LET s == draft.semantics
      v == draft.projection.views
  IN  /\ \A i \in DOMAIN v : \E g \in Range(s.graphs) :
           /\ Ref(g) = v[i].ref
           /\ {v[i].layouts[k].node : k \in DOMAIN v[i].layouts} \cup Range(v[i].selection.nodes)
                \subseteq NodeIds(g)
           /\ Range(v[i].selection.edges) \subseteq EdgeIds(g)
      /\ \A g \in Range(s.graphs) : ActionsOf(g) \subseteq Range(s.application.actions)
      /\ draft.projection.active # NoGraph =>
           \E g \in Range(s.graphs) : Ref(g) = draft.projection.active

\* No edit writes over one its editor has not seen: whoever changes the draft
\* had read exactly the draft it changes.
NoUnseenOverwrite ==
  [][draft' # draft => \E e \in Editor : read[e] = draft /\ read'[e] = draft']_vars
=============================================================================

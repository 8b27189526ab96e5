------------------------ MODULE CanvasCollaboration ------------------------
(* A shared canvas: participants show where they are, propose semantics for   *)
(* the draft, review what others propose, and apply what was approved.        *)
EXTENDS ApplicationDefinition

CONSTANTS
  Participant,        \* the collaborators of the session
  RequiredApprovals,  \* how many peers must approve, 1 .. |Participant| - 1
  FirstDraft,         \* the drafts a session may be created with
  Semantics,          \* the semantics a participant may propose
  ProposalId, Selection,
  MaxRevision,        \* bound: Number.MAX_SAFE_INTEGER, where revisions run out
  MaxSequence         \* bound: how far the counter of a presence goes

VARIABLES
  draft,       \* currentDraft, held by the inner mutation session
  presence,    \* presenceByActor
  proposals,   \* proposalById
  reviews,     \* reviewsByProposal: the decision of each reviewer
  applied      \* history: the proposals applied, each with the draft it met and its reviews

vars == <<draft, presence, proposals, reviews, applied>>

\* The map with one more entry, or another one in its place.
Put(f, key, value) == [k \in DOMAIN f \cup {key} |-> IF k = key THEN value ELSE f[k]]

Told        == Semantics \cup {d.semantics : d \in FirstDraft}
SharedDraft == [revision : 0..MaxRevision, semantics : Told,
                projection : {d.projection : d \in FirstDraft}]
Proposal    == [author : Participant, base : 0..MaxRevision, from : Told, to : Told,
                compatible : BOOLEAN]
Decisions   == UNION {[S -> {"approve", "reject"}] : S \in SUBSET Participant}

\* What the constants must be: a session begins with a draft.
CollaborationConstants == MaxRevision \in Nat /\ FirstDraft \subseteq SharedDraft

Init ==
  /\ draft \in {d \in FirstDraft : DraftIsValid(d)}
  /\ presence = <<>> /\ proposals = <<>> /\ reviews = <<>> /\ applied = <<>>

UpdatePresence(actor, sequence, ref, selection) ==
  /\ actor \in DOMAIN presence => sequence > presence[actor].sequence
  /\ \/ /\ ref = NoGraph
        /\ selection = [nodes |-> <<>>, edges |-> <<>>]
     \/ /\ ref \in Refs(draft.semantics)
        /\ SelectionIsValid(selection, GraphAt(draft.semantics, ref))
  /\ presence' = Put(presence, actor, [sequence |-> sequence, ref |-> ref, selection |-> selection])
  /\ UNCHANGED <<draft, proposals, reviews, applied>>

WithProjection(semantics, projection) ==
  [revision |-> draft.revision, semantics |-> semantics, projection |-> projection]

CreateProposal(id, author, expected, semantics) ==
  /\ id \notin DOMAIN proposals
  /\ expected = draft.revision
  /\ DraftIsValid(WithProjection(semantics, EmptyProjection))
  /\ semantics.application.identity = draft.semantics.application.identity
  /\ semantics.application.publisher = draft.semantics.application.publisher
  /\ semantics # draft.semantics
  /\ proposals' = Put(proposals, id,
       [author |-> author, base |-> draft.revision, from |-> draft.semantics, to |-> semantics,
        compatible |-> DraftIsValid(WithProjection(semantics, draft.projection))])
  /\ reviews' = Put(reviews, id, <<>>)
  /\ UNCHANGED <<draft, presence, applied>>

\* A review may also come after the proposal was applied, or has become stale.
ReviewProposal(id, reviewer, decision) ==
  /\ id \in DOMAIN proposals
  /\ reviewer # proposals[id].author
  /\ reviewer \notin DOMAIN reviews[id]
  /\ reviews' = [reviews EXCEPT ![id] = Put(@, reviewer, decision)]
  /\ UNCHANGED <<draft, presence, proposals, applied>>

Deciding(id, decision) == {r \in DOMAIN reviews[id] : reviews[id][r] = decision}

\* Mutant: only the draft the caller expects is compared, not the proposal's base.
ApplyStale(id, actor, expected) ==
  /\ id \in DOMAIN proposals
  /\ expected = draft.revision
  /\ Deciding(id, "reject") = {}
  /\ Cardinality(Deciding(id, "approve")) >= RequiredApprovals
  /\ proposals[id].compatible
  /\ LET candidate == [draft EXCEPT !.revision = @ + 1, !.semantics = proposals[id].to]
     IN  /\ draft.revision # MaxRevision
         /\ DraftIsValid(candidate)
         /\ draft' = candidate
  /\ presence' = <<>>
  /\ applied' = Append(applied, [id |-> id, met |-> draft, reviews |-> reviews[id]])
  /\ UNCHANGED <<proposals, reviews>>

\* The author may apply its own proposal once its peers have approved.
ApplyProposal(id, actor, expected) ==
  /\ id \in DOMAIN proposals
  /\ expected = draft.revision
  /\ proposals[id].base = draft.revision
  /\ Deciding(id, "reject") = {}
  /\ Cardinality(Deciding(id, "approve")) >= RequiredApprovals
  /\ proposals[id].compatible
  /\ LET candidate == [draft EXCEPT !.revision = @ + 1, !.semantics = proposals[id].to]
     IN  /\ draft.revision # MaxRevision
         /\ DraftIsValid(candidate)
         /\ draft' = candidate
  /\ presence' = <<>>
  /\ applied' = Append(applied, [id |-> id, met |-> draft, reviews |-> reviews[id]])
  /\ UNCHANGED <<proposals, reviews>>

Next ==
  \E p \in Participant :
    \/ \E n \in 0..MaxSequence, r \in UNION {Refs(s) : s \in Semantics} \cup {NoGraph},
          s \in Selection : UpdatePresence(p, n, r, s)
    \/ \E i \in ProposalId, v \in 0..draft.revision, s \in Semantics : CreateProposal(i, p, v, s)
    \/ \E i \in ProposalId, d \in {"approve", "reject"} : ReviewProposal(i, p, d)
    \/ \E i \in ProposalId, v \in 0..draft.revision : ApplyProposal(i, p, v)

Spec == Init /\ [][Next]_vars

TypeOK ==
  /\ draft \in SharedDraft
  /\ DOMAIN presence \subseteq Participant
  /\ DOMAIN proposals \subseteq ProposalId /\ DOMAIN reviews = DOMAIN proposals
  /\ \A i \in DOMAIN proposals : proposals[i] \in Proposal /\ reviews[i] \in Decisions
  /\ applied \in Seq([id : ProposalId, met : SharedDraft, reviews : Decisions])

\* What was applied had been approved, by enough peers none of whom is the
\* author and without one rejection, as a change of exactly the semantics it
\* replaced, for the same application of the same publisher.
AppliedWasAgreed ==
  \A k \in DOMAIN applied :
    LET a == applied[k]
        p == proposals[a.id]
    IN  /\ p.author \notin DOMAIN a.reviews
        /\ \A r \in DOMAIN a.reviews : a.reviews[r] = "approve"
        /\ Cardinality(DOMAIN a.reviews) >= RequiredApprovals
        /\ p.from = a.met.semantics
        /\ p.to.application.identity = a.met.semantics.application.identity

\* Of the proposals made for one revision at most one is ever applied, and
\* none twice: applying makes its rivals stale.
RivalsGoStale ==
  \A j, k \in DOMAIN applied :
    proposals[applied[j].id].base = proposals[applied[k].id].base => j = k

\* Whom others are shown somewhere is somewhere: on a graph of the current
\* semantics, with a selection of its nodes and edges.
PresenceIsSomewhere ==
  \A a \in DOMAIN presence : presence[a].ref # NoGraph =>
    \E g \in Range(draft.semantics.graphs) :
      /\ Ref(g) = presence[a].ref
      /\ Range(presence[a].selection.nodes) \subseteq NodeIds(g)
      /\ Range(presence[a].selection.edges) \subseteq EdgeIds(g)

\* A proposal found compatible when it was made still is when it is applied:
\* what its peers approved is never refused by the draft for its projection.
CompatibleStaysApplicable ==
  \A i \in DOMAIN proposals :
    (proposals[i].compatible /\ proposals[i].base = draft.revision) =>
      DraftIsValid([draft EXCEPT !.revision = @ + 1, !.semantics = proposals[i].to])
=============================================================================

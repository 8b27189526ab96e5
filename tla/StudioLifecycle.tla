-------------------------- MODULE StudioLifecycle --------------------------
(***************************************************************************)
(* Experience Studio: drafts of an experience, their revisions, and the    *)
(* publication made from one of them.  A mutation names the record version *)
(* its author has loaded, reads the record, and replaces it by a           *)
(* compare-and-swap that stores the new revision in the same write; restore *)
(* reads the revisions in a second read.  Versions begin anew when an id   *)
(* is used again, so that a mutation of a deleted experience may be stored  *)
(* as one of the experience that has its id now.  The authors share one    *)
(* service clock, which does not go back.                                  *)
(***************************************************************************)
EXTENDS Naturals, Sequences

CONSTANTS
  Nil,
  Author,       \* processes that call the service
  Document,     \* name and document of a draft that validateDraft accepts
  Publishable,  \* documents that prepareStudioPublication compiles
  MaxVersion,   \* bound: a record is not replaced beyond this version
  MaxBirths,    \* bound: how often an experience of this id is created
  MaxTime       \* bound: time stops here

VARIABLES
  clock,      \* the clock of the service
  record,     \* the record of the experience
  revisions,  \* its revisions, in the order of draftRevision
  call,       \* what each author has read, or is about to write
  births,     \* history: how often it was created
  intruded    \* history: whether a mutation of an experience that had its id
              \* before was stored since

vars == <<clock, record, revisions, call, births, intruded>>

Instant == Nat \cup {Nil}

Record == [recordVersion : Nat \ {0}, draftRevision : Nat \ {0}, document : Document,
           publication : Document \cup {Nil}, publishedDraftRevision : (Nat \ {0}) \cup {Nil},
           createdAt : Nat, updatedAt : Nat, publishedAt : Instant]

Revision == [document : Document, recordedAt : Nat]

\* A restore that has read the record and not yet its revisions; life is history:
\* the births when it read.
Restoring == [step : {"restoring"}, current : Record, target : Nat \ {0}, life : Nat]

\* A mutation that has been checked: revision is the one to add, if any.
Writing == [step : {"writing"}, expected : Nat, next : Record, revision : Revision \cup {Nil},
            life : Nat]

\* What the constants must be: Nil is none of the things it stands in for.
StudioConstants ==
  /\ Nil \notin Nat /\ Nil \notin Document /\ Nil \notin Record /\ Nil \notin Revision
  /\ Nil \notin Restoring /\ Nil \notin Writing
  /\ MaxVersion \in Nat /\ MaxBirths \in Nat /\ MaxTime \in Nat

TypeOK ==
  /\ clock \in 0..MaxTime
  /\ record \in Record \cup {Nil}
  /\ revisions \in Seq(Revision)
  /\ call \in [Author -> Restoring \cup Writing \cup {Nil}]
  /\ births \in 0..MaxBirths /\ intruded \in BOOLEAN

Init ==
  /\ clock = 0
  /\ record = Nil
  /\ revisions = <<>>
  /\ call = [p \in Author |-> Nil]
  /\ births = 0
  /\ intruded = FALSE

-----------------------------------------------------------------------------
(* What is read back *)

\* validStoredRecordIdentity
ValidRecord(r) ==
  /\ r.recordVersion >= r.draftRevision
  /\ r.createdAt <= r.updatedAt
  /\ r.publication = Nil <=> r.publishedDraftRevision = Nil
  /\ r.publication = Nil <=> r.publishedAt = Nil
  /\ r.publication # Nil =>
       /\ r.publishedDraftRevision <= r.draftRevision
       /\ r.createdAt <= r.publishedAt /\ r.publishedAt <= r.updatedAt
       /\ r.publication \in Publishable

\* readHistory accepts these revisions for this record.
ValidHistory(r, history) ==
  /\ Len(history) = r.draftRevision
  /\ \A i \in 1..Len(history) :
       /\ r.createdAt <= history[i].recordedAt /\ history[i].recordedAt <= r.updatedAt
       /\ \A j \in 1..i : history[j].recordedAt <= history[i].recordedAt
  /\ history[r.draftRevision].document = r.document

Set(p, what) == call' = [call EXCEPT ![p] = what]

\* A record the author loaded at version e, as the mutation reads it.
Loaded(p, e) ==
  /\ call[p] = Nil
  /\ record # Nil /\ ValidRecord(record)
  /\ record.recordVersion = e

Write(p, e, next, revision, life) ==
  /\ next.recordVersion <= MaxVersion
  /\ Set(p, [step |-> "writing", expected |-> e, next |-> next, revision |-> revision,
             life |-> life])
  /\ UNCHANGED <<clock, record, revisions, births, intruded>>

\* Mutant: what is published follows the draft.
RedraftedLive(r, document) ==
  [r EXCEPT !.document = document, !.draftRevision = @ + 1, !.recordVersion = @ + 1,
            !.updatedAt = clock, !.publication = IF @ = Nil THEN Nil ELSE document]

\* Mutant: the record keeps its date.
RedraftedUndated(r, document) ==
  [r EXCEPT !.document = document, !.draftRevision = @ + 1, !.recordVersion = @ + 1]

\* The next draft of r.
Redrafted(r, document) ==
  [r EXCEPT !.document = document, !.draftRevision = @ + 1, !.recordVersion = @ + 1,
            !.updatedAt = clock]

RevisionOf(document) == [document |-> document, recordedAt |-> clock]

-----------------------------------------------------------------------------
(* The operations *)

Create(p, document) ==
  /\ call[p] = Nil
  /\ Write(p, 0, [recordVersion |-> 1, draftRevision |-> 1, document |-> document,
                  publication |-> Nil, publishedDraftRevision |-> Nil, createdAt |-> clock,
                  updatedAt |-> clock, publishedAt |-> Nil],
           RevisionOf(document), births)

Save(p, e, document) ==
  /\ Loaded(p, e)
  /\ Write(p, e, Redrafted(record, document), RevisionOf(document), births)

Restore(p, e, target) ==
  /\ Loaded(p, e)
  /\ target <= record.draftRevision
  /\ Set(p, [step |-> "restoring", current |-> record, target |-> target, life |-> births])
  /\ UNCHANGED <<clock, record, revisions, births, intruded>>

\* The second read of a restore, and its checks.
RestoreRead(p) ==
  /\ call[p] # Nil /\ call[p].step = "restoring"
  /\ LET current == call[p].current document == revisions[call[p].target].document IN
       /\ ValidHistory(current, revisions)
       /\ Write(p, current.recordVersion, Redrafted(current, document), RevisionOf(document),
                call[p].life)

\* The revisions do not belong to the record any more: the restore fails.
RestoreFails(p) ==
  /\ call[p] # Nil /\ call[p].step = "restoring"
  /\ ~ValidHistory(call[p].current, revisions)
  /\ Set(p, Nil)
  /\ UNCHANGED <<clock, record, revisions, births, intruded>>

Publish(p, e) ==
  /\ Loaded(p, e)
  /\ record.document \in Publishable
  /\ Write(p, e, [record EXCEPT !.recordVersion = @ + 1, !.publication = record.document,
                                !.publishedDraftRevision = record.draftRevision,
                                !.updatedAt = clock, !.publishedAt = clock], Nil, births)

Unpublish(p, e) ==
  /\ Loaded(p, e)
  /\ record.publication # Nil
  /\ Write(p, e, [record EXCEPT !.recordVersion = @ + 1, !.publication = Nil,
                                !.publishedDraftRevision = Nil, !.updatedAt = clock,
                                !.publishedAt = Nil], Nil, births)

\* Mutant: any version is replaced.
HoldsAny(w) == w.expected = 0 <=> record = Nil

\* The store's predicate in the write: an insert finds nothing, a replace
\* finds the expected version, of whichever experience has the id.
Holds(w) ==
  IF w.expected = 0 THEN record = Nil
  ELSE record # Nil /\ record.recordVersion = w.expected

\* The write of the store.
Commit(p) ==
  /\ call[p] # Nil /\ call[p].step = "writing"
  /\ LET w == call[p] IN
       IF Holds(w)
       THEN /\ record' = w.next
            /\ revisions' = IF w.revision = Nil THEN revisions ELSE Append(revisions, w.revision)
            /\ births' = births + (IF w.expected = 0 THEN 1 ELSE 0)
            /\ births' <= MaxBirths
            /\ intruded' = (w.expected # 0 /\ (intruded \/ w.life # births))
       ELSE UNCHANGED <<record, revisions, births, intruded>>
  /\ Set(p, Nil)
  /\ UNCHANGED clock

Delete(p, e) ==
  /\ call[p] = Nil
  /\ record # Nil /\ record.recordVersion = e
  /\ record' = Nil /\ revisions' = <<>> /\ intruded' = FALSE
  /\ UNCHANGED <<clock, call, births>>

Tick ==
  /\ clock < MaxTime
  /\ clock' = clock + 1
  /\ UNCHANGED <<record, revisions, call, births, intruded>>

AuthorStep(p) ==
  \/ \E d \in Document : Create(p, d)
  \/ \E e \in 1..MaxVersion, d \in Document : Save(p, e, d)
  \/ \E e \in 1..MaxVersion, n \in 1..MaxVersion : Restore(p, e, n)
  \/ RestoreRead(p)
  \/ RestoreFails(p)
  \/ \E e \in 1..MaxVersion : Publish(p, e)
  \/ \E e \in 1..MaxVersion : Unpublish(p, e)
  \/ \E e \in 1..MaxVersion : Delete(p, e)
  \/ Commit(p)

Next == Tick \/ \E p \in Author : AuthorStep(p)

Spec == Init /\ [][Next]_vars

-----------------------------------------------------------------------------
(* Properties *)

\* What the service has stored it can read back, record and history; until a
\* mutation of an experience that had its id before is stored as one of it.
StudioIsReadable ==
  record # Nil /\ ~intruded => ValidRecord(record) /\ ValidHistory(record, revisions)

\* "Publishing creates a canonical StudioPublication from that exact draft
\* revision" (docs/studio/lifecycle-service.md): what is published is the
\* revision that is named.
PublicationIsItsRevision ==
  record # Nil /\ record.publication # Nil =>
    record.publication = revisions[record.publishedDraftRevision].document

\* It is so, whatever was saved, restored or deleted meanwhile, until a mutation
\* of an experience that had its id before is stored as one of this.
PublishedAsNamed == ~intruded => PublicationIsItsRevision

\* "Saving a later draft does not mutate the active publication": a step that
\* adds a revision leaves the publication as it is, and one that changes the
\* publication leaves the draft; no write does both, or takes a revision back,
\* until a mutation of an experience that had its id before is stored.
DraftAndPublicationApart ==
  [][record # Nil /\ record' # Nil /\ ~intruded' =>
       /\ revisions' # revisions => record'.publication = record.publication
       /\ record'.publication # record.publication =>
            record'.document = record.document /\ revisions' = revisions
       /\ SubSeq(revisions', 1, Len(revisions)) = revisions]_<<record, revisions>>
=============================================================================

------------------------- MODULE ApplicationFederation -------------------------
(* Catalogues of applications from several sources, read as one, and the       *)
(* attestation that lets a source in.  Numbers stand for identifiers, in the   *)
(* order of their text; what is a package is ApplicationDefinition's matter, so  *)
(* an envelope is what tells two packages apart.                               *)
EXTENDS Naturals, Sequences, FiniteSets, SequencesExt

CONSTANTS
  MaxSources, MaxPerSource, MaxTotal,   \* VIRA_APPLICATION_FEDERATION_MAX_*
  Refused, Missing,
  SourceId, Cursor, NoCursor,
  Content,        \* what a page may hold: how many applications, and the next cursor
  Limit,          \* the page size the client asks for
  Unknown,        \* no page, no request
  MaxChanges      \* bound: how often a source changes a page

\* first is what the first schema knows of a package, second what it does not.
Envelope(id, version, first, second, digest, public) ==
  [id |-> id, version |-> version, first |-> first, second |-> second,
   digest |-> digest, public |-> public]

ApplicationKey(e) == <<e.id, e.version>>

EnvelopeBefore(a, b) == a.id < b.id \/ (a.id = b.id /\ a.version < b.version)
SourceBefore(a, b)   == a.sourceId < b.sourceId

Sorted(seq, Before(_, _)) == SortSeq(seq, Before)

Applications(snapshot) == UNION {{<<s, k>> : k \in DOMAIN snapshot[s].applications} : s \in DOMAIN snapshot}
AtPlace(snapshot, p) == snapshot[p[1]].applications[p[2]]

WithinLimits(snapshot) ==
  /\ Len(snapshot) <= MaxSources
  /\ \A s \in DOMAIN snapshot : Len(snapshot[s].applications) <= MaxPerSource
  /\ Cardinality(Applications(snapshot)) <= MaxTotal

\* Sources may repeat each other, and must agree where they do.
Disagree(a, b) == ApplicationKey(a) = ApplicationKey(b) /\ a # b

SnapshotIsValid(snapshot) ==
  /\ WithinLimits(snapshot)
  /\ \A s, t \in DOMAIN snapshot : s # t => snapshot[s].sourceId # snapshot[t].sourceId
  /\ \A p \in Applications(snapshot) : AtPlace(snapshot, p).public
  /\ \A p, q \in Applications(snapshot) : p # q /\ p[1] = q[1] =>
       ApplicationKey(AtPlace(snapshot, p)) # ApplicationKey(AtPlace(snapshot, q))
  /\ \A p, q \in Applications(snapshot) :
       ~ Disagree(AtPlace(snapshot, p), AtPlace(snapshot, q))

\* Sources in the order in which they were given.
CanonicalPerSource(snapshot) ==
  [s \in DOMAIN snapshot |-> [snapshot[s] EXCEPT !.applications = Sorted(@, EnvelopeBefore)]]

Canonical(snapshot) ==
  Sorted([s \in DOMAIN snapshot |->
            [snapshot[s] EXCEPT !.applications = Sorted(@, EnvelopeBefore)]], SourceBefore)

ParseV1(snapshot) == IF SnapshotIsValid(snapshot) THEN Canonical(snapshot) ELSE Refused

\* The second schema is checked as what the first makes of it.
ProjectEnvelopeV1(e) == [e EXCEPT !.second = Missing]
ProjectSnapshotV1(snapshot) ==
  [s \in DOMAIN snapshot |->
     [snapshot[s] EXCEPT !.applications = [k \in DOMAIN @ |-> ProjectEnvelopeV1(@[k])]]]

\* ... and put back as it was, in the order of the projection.
Original(snapshot, sourceId, release) ==
  CHOOSE e \in {AtPlace(snapshot, p) : p \in {q \in Applications(snapshot) :
                                                snapshot[q[1]].sourceId = sourceId}} :
    ApplicationKey(e) = release

Parse(snapshot) ==
  LET projected == ParseV1(ProjectSnapshotV1(snapshot)) IN
    IF projected = Refused THEN Refused
    ELSE [s \in DOMAIN projected |->
            [projected[s] EXCEPT !.applications =
               [k \in DOMAIN @ |-> Original(snapshot, projected[s].sourceId, ApplicationKey(@[k]))]]]

-----------------------------------------------------------------------------
Offers(source, release) == \E k \in DOMAIN source.applications : ApplicationKey(source.applications[k]) = release

\* The envelope of the first source that has it, and every source that has it.
Lookup(snapshot, release) ==
  LET parsed == Parse(snapshot) IN
    IF parsed = Refused THEN Refused
    ELSE LET having == SelectSeq(parsed, LAMBDA source : Offers(source, release)) IN
         [envelope |-> IF having = <<>> THEN Missing
                       ELSE Original(parsed, having[1].sourceId, release),
          sourceIds |-> [s \in DOMAIN having |-> having[s].sourceId]]

-----------------------------------------------------------------------------
\* trust and evidence name a source, a publisher and a key, and when they hold.
Trust(key, from, expires, revoked) ==
  [key |-> key, from |-> from, expires |-> expires, revoked |-> revoked]
Attestation(key, issued, expires, digest, signed) ==
  [key |-> key, issued |-> issued, expires |-> expires, digest |-> digest, signed |-> signed]

InItsWindow(trust, evidence, now) ==
  /\ trust.from <= now /\ now < trust.expires
  /\ trust.revoked # Missing => now < trust.revoked
  /\ evidence.issued <= now /\ now < evidence.expires
  /\ trust.from <= evidence.issued /\ evidence.expires <= trust.expires

\* As long as the key is trusted.
ValidWithTheKey(trust, evidence) == trust.expires

ValidUntil(trust, evidence) ==
  IF trust.expires < evidence.expires THEN trust.expires ELSE evidence.expires

\* What an attestation that is accepted is good for, and until when.  The
\* signature (external) covers the trust record's identity and the evidence.
Authenticate(source, trust, evidence, now) ==
  LET parsed == Parse(<<source>>) IN
    IF /\ trust.from < trust.expires /\ evidence.issued < evidence.expires
       /\ parsed # Refused
       /\ <<source.sourceId, evidence.key.source>> = <<trust.key.source, trust.key.source>>
       /\ evidence.key = trust.key
       /\ InItsWindow(trust, evidence, now)
       /\ evidence.digest = parsed[1]
       /\ evidence.signed = [trust |-> trust.key, of |-> [evidence EXCEPT !.signed = Missing]]
    THEN [source |-> parsed[1], validUntil |-> ValidUntil(trust, evidence)]
    ELSE Refused

-----------------------------------------------------------------------------
Rearranged(snapshot) ==
  {[i \in DOMAIN snapshot |-> snapshot[p[i]]] : p \in Permutations(DOMAIN snapshot)}

\* A snapshot means the same whatever order its sources come in, and what was
\* read reads as itself; every source a lookup lists tells the same of the
\* release as far as the first schema sees it, and has the same digest.
FederationIsOne(snapshot, release) ==
  /\ \A other \in Rearranged(snapshot) :
       /\ Parse(other) = Parse(snapshot)
       /\ Lookup(other, release) = Lookup(snapshot, release)
  /\ Parse(snapshot) # Refused =>
       /\ Parse(Parse(snapshot)) = Parse(snapshot)
       /\ LET found == Lookup(snapshot, release) IN
            /\ \A s \in DOMAIN snapshot :
                 Offers(snapshot[s], release) <=>
                   \E k \in DOMAIN found.sourceIds : found.sourceIds[k] = snapshot[s].sourceId
            /\ \A p \in Applications(snapshot) :
                 ApplicationKey(AtPlace(snapshot, p)) = release =>
                   ProjectEnvelopeV1(AtPlace(snapshot, p)) = ProjectEnvelopeV1(found.envelope)

\* What was accepted would be accepted any time until it says it ends, unless
\* the trust is revoked meanwhile.
AcceptedStaysGood(source, trust, evidence, now) ==
  LET answer == Authenticate(source, trust, evidence, now) IN
    answer # Refused =>
      \A later \in now..(answer.validUntil - 1) :
        (trust.revoked # Missing => later < trust.revoked) =>
          Authenticate(source, trust, evidence, later) = answer

-----------------------------------------------------------------------------
(* Pages of a source, fetched over a transport that may answer late, again, or *)
(* with the answer to another request.  The source, the transport and the      *)
(* client's cache are external; what the client accepts is the code's.         *)

VARIABLES
  served,         \* what every page of every source holds
  changes,
  asked,          \* the request the client wants an answer to
  answers,        \* the answers on their way; one may arrive any time and again
  cache,          \* the page accepted last for each source and cursor
  ever,           \* history: every page that was served
  confirmed       \* history: pages held when the client was told they are current

vars == <<served, changes, asked, answers, cache, ever, confirmed>>

Page(source, cursor, content) == [source |-> source, cursor |-> cursor, content |-> content]
Served(source, cursor) == Page(source, cursor, served[source][cursor])

\* The digest of the canonical page is the page, which names its source, its
\* cursor and the next one; the etag is the digest.
Validator(page) == [source |-> page.source, cursor |-> page.cursor, digest |-> page]

Init ==
  /\ served \in [SourceId -> [Cursor -> Content]]
  /\ changes = 0
  /\ asked = Unknown
  /\ answers = {}
  /\ cache = [s \in SourceId |-> [c \in Cursor |-> Unknown]]
  /\ ever = {Served(s, c) : s \in SourceId, c \in Cursor}
  /\ confirmed = {}

Change(s, c, content) ==
  /\ changes < MaxChanges
  /\ content # served[s][c]
  /\ served' = [served EXCEPT ![s][c] = content]
  /\ changes' = changes + 1
  /\ ever' = ever \cup {Page(s, c, content)}
  /\ UNCHANGED <<asked, answers, cache, confirmed>>

\* The client asks for a page, and whether the one it holds is still current.
Ask(s, c) ==
  /\ asked' = [source |-> s, cursor |-> c, match |-> cache[s][c]]
  /\ UNCHANGED <<served, changes, answers, cache, ever, confirmed>>

\* The source answers the request: the page, or that it has not changed.
Answer ==
  /\ asked # Unknown
  /\ LET page == Served(asked.source, asked.cursor) IN
       answers' = answers \cup
         {[kind |-> IF asked.match = page THEN "not-modified" ELSE "page",
           source |-> asked.source, cursor |-> asked.cursor, content |-> page.content,
           validator |-> Validator(page)]}
  /\ UNCHANGED <<served, changes, asked, cache, ever, confirmed>>

\* The transport delivers another content than the one that was sent.
Mangle(a, content) ==
  /\ a.kind = "page" /\ content # a.content
  /\ answers' = answers \cup {[a EXCEPT !.content = content]}
  /\ UNCHANGED <<served, changes, asked, cache, ever, confirmed>>

-----------------------------------------------------------------------------
\* What is in a page may go on: it is not too long, and it ends where it is empty.
PageIsValid(content, cursor) ==
  /\ content.next # NoCursor => content.next # cursor
  /\ content.applications <= Limit
  /\ content.applications = 0 => content.next = NoCursor

ForRequest(a) == a.source = asked.source /\ a.cursor = asked.cursor

AcceptPage(a) ==
  /\ asked # Unknown
  /\ a.kind = "page"
  /\ ForRequest(a)
  /\ PageIsValid(a.content, a.cursor)
  /\ a.validator.source = asked.source /\ a.validator.cursor = asked.cursor
  /\ a.validator.digest = Page(a.source, a.cursor, a.content)
  /\ cache' = [cache EXCEPT ![a.source][a.cursor] = Page(a.source, a.cursor, a.content)]
  /\ asked' = Unknown
  /\ UNCHANGED <<served, changes, answers, ever, confirmed>>

\* Whatever the client holds, it is current.
AcceptNotModifiedAnyhow(a) ==
  /\ asked # Unknown
  /\ a.kind = "not-modified"
  /\ ForRequest(a)
  /\ LET held == cache[asked.source][asked.cursor] IN
       /\ held # Unknown
       /\ confirmed' = confirmed \cup {[held |-> held, current |-> a.validator.digest]}
  /\ asked' = Unknown
  /\ UNCHANGED <<served, changes, answers, cache, ever>>

\* What the client holds is named by the request and by the answer alike.
AcceptNotModified(a) ==
  /\ asked # Unknown
  /\ a.kind = "not-modified"
  /\ ForRequest(a)
  /\ LET held == cache[asked.source][asked.cursor] IN
       /\ asked.match # Unknown /\ held # Unknown
       /\ held = asked.match
       /\ a.validator = Validator(held)
       /\ confirmed' = confirmed \cup {[held |-> held, current |-> a.validator.digest]}
  /\ asked' = Unknown
  /\ UNCHANGED <<served, changes, answers, cache, ever>>

Next ==
  \/ \E s \in SourceId, c \in Cursor : Ask(s, c) \/ \E x \in Content : Change(s, c, x)
  \/ Answer
  \/ \E a \in answers : \/ \E x \in Content : Mangle(a, x)
                        \/ AcceptPage(a) \/ AcceptNotModified(a)

Spec == Init /\ [][Next]_vars

TypeOK ==
  /\ served \in [SourceId -> [Cursor -> Content]]
  /\ changes \in 0..MaxChanges

\* The client only ever holds, under a source and a cursor, a page that this
\* source served under this cursor, and one that ends and is not too long.
CacheWasServed ==
  \A s \in SourceId, c \in Cursor : cache[s][c] # Unknown =>
    /\ cache[s][c] \in ever
    /\ cache[s][c].source = s /\ cache[s][c].cursor = c
    /\ PageIsValid(cache[s][c].content, c)

\* To be told that nothing has changed is to hold what the source had when it
\* said so, even where the answer was given to an earlier request.
ConfirmedIsCurrent == \A k \in confirmed : k.held = k.current
=============================================================================

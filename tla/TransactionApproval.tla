------------------------- MODULE TransactionApproval -------------------------
(* From a transaction plan to the authority to execute one of its operations   *)
(* (packages/action-transaction): a plan is frozen over the evidence of its    *)
(* operations, a person decides on a review of it, a grant is signed for one   *)
(* operation, and its nonce is accepted once.  A plan may be frozen again      *)
(* while a review of it is open, an operation may be granted again under       *)
(* another nonce, and a signer, a verifier and the replay guard are awaited.   *)
(* Every instant is the caller's: no call reads a clock, and what one caller   *)
(* gives bounds nothing that another gives.                                    *)
EXTENDS Naturals, FiniteSets, Sequences, SequencesExt, Folds

CONSTANTS
  Draft,         \* plans to freeze: [operations, evidence, expires]
  User,          \* [id, kind, organization]
  Organization,  \* the organization of the plan's scope
  Verifier,      \* calls to verify a grant
  Nonce,
  Lifetime,      \* VIRA_TRANSACTION_GRANT_MAX_LIFETIME_MS
  MaxRevision, MaxApprovals, MaxGrants, MaxTime   \* bounds

VARIABLES
  frozen,        \* frozen plans [plan, revision]; the digest stands for the plan
  approvals,     \* [id, frozen, reviewed, decision, issued, expires]
  signing,       \* grants at the signer
  grants,        \* signed
  verifying,     \* [Verifier -> [grant, step: whose answer it awaits] or NoCall]
  nonces,        \* accepted by the replay guard
  accepted       \* grants that verify answered

vars == <<frozen, approvals, signing, grants, verifying, nonces, accepted>>

NoCall == [step |-> "idle"]

\* What the constants must be: every plan has an end, and so has the trust in
\* what supplies its operations.
ApprovalConstants ==
  /\ Lifetime \in Nat /\ MaxTime \in Nat \ {0}
  /\ \A d \in Draft : /\ d.expires \in Nat
                      /\ \A n \in DOMAIN d.operations : d.operations[n].trust \in Nat

-----------------------------------------------------------------------------
(* Freezing a plan.                                                            *)
Ids(operations) == {operations[n].id : n \in DOMAIN operations}
Depends(operations, id) ==
  operations[CHOOSE n \in DOMAIN operations : operations[n].id = id].dependsOn

\* Mutant: what is met again on the way down has been visited.
VisitShallow(operations, first, done) == [ok |-> TRUE, visited |-> done \cup {first}]

\* validateGraph.visit, depth first: FALSE as soon as a node is met again on
\* the way down; otherwise the nodes that are done.
Visit(operations, first, done) ==
  LET ids == Ids(operations)
      visit[id \in ids, visiting \in SUBSET ids, visited \in SUBSET ids] ==
        IF id \in visiting THEN [ok |-> FALSE, visited |-> visited]
        ELSE IF id \in visited THEN [ok |-> TRUE, visited |-> visited]
        ELSE LET below == FoldLeft(LAMBDA sofar, next :
                                     IF sofar.ok THEN visit[next, visiting \cup {id}, sofar.visited]
                                     ELSE sofar,
                                   [ok |-> TRUE, visited |-> visited], Depends(operations, id))
             IN  [ok |-> below.ok, visited |-> below.visited \cup {id}]
  IN  visit[first, {}, done]

\* parseOperation: what it depends on is named once.
OperationAccepted(operation) == IsInjective(operation.dependsOn)

GraphIsValid(operations) ==
  /\ \A m, n \in DOMAIN operations : operations[m].id = operations[n].id => m = n
  /\ \A n \in DOMAIN operations : \A next \in ToSet(operations[n].dependsOn) :
       next # operations[n].id /\ next \in Ids(operations)
  /\ FoldLeft(LAMBDA sofar, operation :
                IF sofar.ok THEN Visit(operations, operation.id, sofar.visited) ELSE sofar,
              [ok |-> TRUE, visited |-> {}], operations).ok

\* verifyOperationEvidence: one record for each operation, of exactly what it
\* is supplied by, whose trust lasts as long as the plan, and with a preflight
\* that carries a challenge exactly when it must be confirmed.
EvidenceIsValid(draft) ==
  /\ Len(draft.evidence) = Len(draft.operations)
  /\ \A m, n \in DOMAIN draft.evidence : draft.evidence[m].id = draft.evidence[n].id => m = n
  /\ \A operation \in ToSet(draft.operations) : \E evidence \in ToSet(draft.evidence) :
       /\ evidence.id = operation.id
       /\ evidence.supply = operation.supply /\ evidence.trust = operation.trust
       /\ operation.trust >= draft.expires
       /\ evidence.permission = "allow" => ~evidence.challenged
       /\ evidence.permission = "confirm" => evidence.challenged
       /\ evidence.permission # "deny"

\* parsePlan
PlanAccepted(draft) ==
  /\ draft.operations # <<>>
  /\ \A operation \in ToSet(draft.operations) : OperationAccepted(operation)
  /\ GraphIsValid(draft.operations)

\* freezeViraTransactionPlan
Freeze(draft, revision) ==
  /\ PlanAccepted(draft)
  /\ EvidenceIsValid(draft)
  /\ frozen' = frozen \cup {[plan |-> draft, revision |-> revision]}
  /\ UNCHANGED <<approvals, signing, grants, verifying, nonces, accepted>>

-----------------------------------------------------------------------------
\* Mutant: the review that a person saw need not be of what is approved.
DecideOnAnother(f, reviewed, user, decision, issued, expires) ==
  /\ Cardinality(approvals) < MaxApprovals
  /\ user.kind = "user"
  /\ user.organization = Organization
  /\ issued < expires /\ expires <= f.plan.expires
  /\ approvals' = approvals \cup
       {[frozen |-> f, reviewed |-> reviewed, user |-> user.id, decision |-> decision,
         issued |-> issued, expires |-> expires]}
  /\ UNCHANGED <<frozen, signing, grants, verifying, nonces, accepted>>

(* Approval.  A review is a projection of a frozen plan, made when the inbox   *)
(* item was; the coordinates it carries are the plan's digest and revision.    *)
Decide(f, reviewed, user, decision, issued, expires) ==
  /\ Cardinality(approvals) < MaxApprovals
  /\ reviewed = f
  /\ user.kind = "user"
  /\ user.organization = Organization
  /\ issued < expires /\ expires <= f.plan.expires
  /\ approvals' = approvals \cup
       {[frozen |-> f, reviewed |-> reviewed, user |-> user.id, decision |-> decision,
         issued |-> issued, expires |-> expires]}
  /\ UNCHANGED <<frozen, signing, grants, verifying, nonces, accepted>>

\* Mutant: an approval counts for every revision of its transaction.
ApprovalOfAny(f, approval, now) ==
  approval.decision = "approved" /\ approval.issued <= now /\ now < approval.expires

\* validateApproval and the bounds of issueViraTransactionExecutionGrant, at
\* the instant that the caller gives.
ApprovalHolds(f, approval, now) ==
  /\ approval.frozen = f
  /\ approval.decision = "approved"
  /\ approval.issued <= now /\ now < approval.expires

Operation(f, id) == CHOOSE o \in ToSet(f.plan.operations) : o.id = id

LatestExpiry(f, approval, id, now) ==
  LET bounds == {f.plan.expires, approval.expires, Operation(f, id).trust, now + Lifetime}
  IN  CHOOSE b \in bounds : \A c \in bounds : b <= c

\* No call asks whether the operation was granted before.
IssueGrant(f, approval, id, nonce, issued, expires) ==
  /\ ApprovalHolds(f, approval, issued)
  /\ id \in Ids(f.plan.operations)
  /\ issued < expires /\ expires <= LatestExpiry(f, approval, id, issued)
  /\ Cardinality(signing \cup grants) < MaxGrants
  /\ signing' = signing \cup
       {[nonce |-> nonce, frozen |-> f, operation |-> id, issued |-> issued, expires |-> expires]}
  /\ UNCHANGED <<frozen, approvals, grants, verifying, nonces, accepted>>

\* The signer answers, or fails closed.
Signed(grant) ==
  /\ grant \in signing
  /\ signing' = signing \ {grant}
  /\ grants' \in {grants, grants \cup {grant}}
  /\ UNCHANGED <<frozen, approvals, verifying, nonces, accepted>>

-----------------------------------------------------------------------------
\* verifyViraTransactionExecutionGrant, up to the verifier of the signature.
BeginVerify(v, f, grant, id, now) ==
  /\ verifying[v] = NoCall
  /\ grant.frozen = f /\ grant.operation = id
  /\ grant.issued <= now /\ now < grant.expires
  /\ verifying' = [verifying EXCEPT ![v] = [step |-> "verifier", grant |-> grant]]
  /\ UNCHANGED <<frozen, approvals, signing, grants, nonces, accepted>>

\* The verifier says yes, and the replay guard is asked; or it says no.
SignatureVerified(v) ==
  /\ verifying[v].step = "verifier"
  /\ \/ verifying' = [verifying EXCEPT ![v].step = "guard"]
     \/ verifying' = [verifying EXCEPT ![v] = NoCall]
  /\ UNCHANGED <<frozen, approvals, signing, grants, nonces, accepted>>

\* Mutant: a grant whose nonce was accepted before is accepted again.
AcceptBeforeRecord(v) ==
  /\ verifying[v].step = "guard"
  /\ verifying' = [verifying EXCEPT ![v] = NoCall]
  /\ nonces' = nonces \cup {verifying[v].grant.nonce}
  /\ accepted' \in {accepted, Append(accepted, verifying[v].grant)}
  /\ UNCHANGED <<frozen, approvals, signing, grants>>

\* The replay guard accepts a nonce once; its answer may be lost.
Accept(v) ==
  /\ verifying[v].step = "guard"
  /\ verifying' = [verifying EXCEPT ![v] = NoCall]
  /\ LET grant == verifying[v].grant
     IN  /\ nonces' = nonces \cup {grant.nonce}
         /\ accepted' \in IF grant.nonce \in nonces THEN {accepted}
                          ELSE {accepted, Append(accepted, grant)}
  /\ UNCHANGED <<frozen, approvals, signing, grants>>

Init ==
  /\ frozen = {} /\ approvals = {} /\ signing = {} /\ grants = {}
  /\ verifying = [v \in Verifier |-> NoCall]
  /\ nonces = {} /\ accepted = <<>>

Next ==
  \/ \E draft \in Draft, revision \in 1..MaxRevision : Freeze(draft, revision)
  \/ \E f, reviewed \in frozen, user \in User, issued, expires \in 1..MaxTime :
       \E decision \in {"approved", "rejected"} :
         Decide(f, reviewed, user, decision, issued, expires)
  \/ \E f \in frozen, approval \in approvals, issued, expires \in 1..MaxTime :
       \E id \in Ids(f.plan.operations), nonce \in Nonce :
         IssueGrant(f, approval, id, nonce, issued, expires)
  \/ \E grant \in signing : Signed(grant)
  \/ \E v \in Verifier, f \in frozen, grant \in grants, now \in 1..MaxTime :
       \E id \in Ids(f.plan.operations) : BeginVerify(v, f, grant, id, now)
  \/ \E v \in Verifier : SignatureVerified(v) \/ Accept(v)

Spec == Init /\ [][Next]_vars

-----------------------------------------------------------------------------
\* Plans, approvals and grants name one another.
TypeOK ==
  /\ frozen \subseteq [plan : Draft, revision : 1..MaxRevision]
  /\ \A a \in approvals : a.frozen \in frozen /\ a.decision \in {"approved", "rejected"}
  /\ \A g \in signing \cup grants \cup ToSet(accepted) : g.frozen \in frozen
  /\ nonces \subseteq Nonce

\* The operations of a frozen plan can be carried out in some order, each after
\* those it depends on.
PlansCanBeCarriedOut ==
  \A f \in frozen :
    \E order \in SetToSeqs(Ids(f.plan.operations)) :
      \A n \in DOMAIN order : \A next \in ToSet(Depends(f.plan.operations, order[n])) :
        \E m \in 1..n-1 : order[m] = next

\* What is accepted is an operation of exactly the plan that a person of its
\* organization reviewed and approved, within the time that person gave, the
\* plan has, and the provider is trusted for.
AuthorityIsApproved ==
  \A grant \in ToSet(accepted) :
    \E a \in approvals :
      /\ a.decision = "approved"
      /\ a.reviewed = grant.frozen
      /\ \E user \in User : user.id = a.user /\ user.kind = "user" /\ user.organization = Organization
      /\ grant.operation \in Ids(a.reviewed.plan.operations)
      /\ a.issued <= grant.issued /\ grant.expires <= a.expires
      /\ a.expires <= a.reviewed.plan.expires
      /\ \A o \in ToSet(a.reviewed.plan.operations) : a.reviewed.plan.expires <= o.trust

\* A nonce gives authority once, whoever verifies it and whatever answer is
\* lost; not an operation, which may be granted under several nonces.
AcceptedOnce ==
  \A m, n \in DOMAIN accepted : accepted[m].nonce = accepted[n].nonce => m = n
=============================================================================

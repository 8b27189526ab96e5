------------------------- MODULE CommercialBilling -------------------------
(***************************************************************************)
(* What is billed of an application, and what is paid for it.              *)
(*                                                                         *)
(* Billable usage: an action whose effect was verified becomes a source    *)
(* event, under the billing binding that is resolved at the moment, and    *)
(* the event and its usage record are appended in one transaction.  Whoever *)
(* bills reads the history and saves revisions of an invoice export.       *)
(* Ingestion is retried and runs in several processes, sources arrive late, *)
(* and the binding may change between one attempt and the next.            *)
(*                                                                         *)
(* Settlement of a gross amount and reconciliation with what moved: a      *)
(* share of a schedule is in basis points; every party but the platform    *)
(* gets its share rounded down, and the platform the rest.  The reconciler *)
(* is fed with signed funds events by webhooks that may repeat, reorder    *)
(* and mix up what they deliver.                                           *)
(***************************************************************************)
EXTENDS Naturals, Sequences, FiniteSetsExt

CONSTANTS
  Nil,
  Ingester, Biller,       \* processes
  Action,                 \* actions of one application and one actor
  Binding,                \* entitlement, meter and location that are billed
  ExportId, MaxRevision,  \* identities of invoice exports
  MaxLines,               \* how many usage records an export, or a history, may hold
  MaxTime,                \* bound: time stops here
  Denominator,  \* VIRA_SETTLEMENT_BPS_DENOMINATOR
  Party,        \* the parties, "platform" and "publisher" among them
  Gross,        \* the amounts that are settled
  Schedule,     \* the shares of the parties
  FundsEvent,   \* the signed events that exist
  MaxRecords    \* bound: the reconciler is fed no further

VARIABLES
  clock,
  verifiedAt,  \* when the verification of an action got its final update
  events,      \* the source events, each with its usage record
  call,        \* what each ingester is about to append
  bill,        \* the export each biller is about to save
  exports,     \* the saved exports
  allocation,  \* the allocation evidence that events are held against
  seen,        \* ids of the events that were reconciled
  sequence,    \* the last sequence number of each transaction
  records      \* the reconciliation records, in order

usageVars == <<clock, verifiedAt, events, call, bill, exports>>

Instant == 0..MaxTime

Event == [action : Action, binding : Binding, at : Instant]

Export == [id : ExportId, revision : 1..MaxRevision, start : Instant, end : Instant,
           lines : SUBSET Event]

\* Time starts at 0, and what is not verified is verified at no instant.
BillingConstants == MaxTime \in Nat /\ Nil \notin Instant

\* What is settled is shared out in whole units of the denominator.
SettlementConstants ==
  /\ Denominator \in Nat \ {0} /\ IsFiniteSet(Party) /\ "platform" \in Party
  /\ Gross \subseteq Nat /\ Schedule \subseteq [Party -> Nat]

UsageTypeOK ==
  /\ clock \in Instant
  /\ verifiedAt \in [Action -> Instant \cup {Nil}]
  /\ events \subseteq Event
  /\ call \in [Ingester -> Event \cup {Nil}]
  /\ bill \in [Biller -> Export \cup {Nil}]
  /\ exports \subseteq Export

UsageInit ==
  /\ clock = 0
  /\ verifiedAt = [a \in Action |-> Nil]
  /\ events = {}
  /\ call = [p \in Ingester |-> Nil]
  /\ bill = [b \in Biller |-> Nil]
  /\ exports = {}

-----------------------------------------------------------------------------
(* Ingestion *)

\* The verification of an action is final; it is dated by the worker's clock.
Verify(a) ==
  /\ verifiedAt[a] = Nil
  /\ verifiedAt' = [verifiedAt EXCEPT ![a] = clock]
  /\ UNCHANGED <<clock, events, call, bill, exports>>

\* normalizeViraVerifiedActionUsageSource: verification and authority do not
\* change any more, the binding is the one resolved now.
Normalize(p, a, binding) ==
  /\ call[p] = Nil
  /\ verifiedAt[a] # Nil
  /\ call' = [call EXCEPT ![p] = [action |-> a, binding |-> binding, at |-> verifiedAt[a]]]
  /\ UNCHANGED <<clock, verifiedAt, events, bill, exports>>

\* sourceIdentityInput: what the identity of a source event commits to.
SourceEventId(e) == <<e.action, e.binding.entitlement, e.binding.meter>>

\* Mutant: the identity alone decides.
CollidesById(e, f) == SourceEventId(e) = SourceEventId(f)

\* The unique indexes: the identity, and the action under the meter.
Collides(e, f) ==
  \/ SourceEventId(e) = SourceEventId(f)
  \/ e.action = f.action /\ e.binding.meter = f.binding.meter

\* append: a new event; a duplicate or a conflict changes nothing.
AppendUsage(p) ==
  /\ call[p] # Nil
  /\ events' = IF \E f \in events : Collides(call[p], f) THEN events
               ELSE events \cup {call[p]}
  /\ call' = [call EXCEPT ![p] = Nil]
  /\ UNCHANGED <<clock, verifiedAt, bill, exports>>

\* The ingester fails before its transaction commits.
FailIngest(p) ==
  /\ call[p] # Nil
  /\ call' = [call EXCEPT ![p] = Nil]
  /\ UNCHANGED <<clock, verifiedAt, events, bill, exports>>

-----------------------------------------------------------------------------
(* Invoice exports *)

\* The history as of an instant.
History(asOf) == {e \in events : e.at <= asOf}

\* Mutant: the end of the period belongs to it.
InClosedPeriod(e, start, end) == start <= e.at /\ e.at <= end

InPeriod(e, start, end) == start <= e.at /\ e.at < end

\* createViraCommercialInvoiceExport, of the usage the biller has read.
Draft(b, id, revision, start, end) ==
  /\ bill[b] = Nil
  /\ start < end
  /\ Cardinality(History(end)) <= MaxLines
  /\ bill' = [bill EXCEPT ![b] =
       [id |-> id, revision |-> revision, start |-> start, end |-> end,
        lines |-> {e \in History(end) : InPeriod(e, start, end)}]]
  /\ UNCHANGED <<clock, verifiedAt, events, call, exports>>

\* Mutant: a later save of the same revision replaces the earlier one.
SaveOver(b) ==
  /\ bill[b] # Nil
  /\ exports' = {x \in exports : <<x.id, x.revision>> # <<bill[b].id, bill[b].revision>>}
                  \cup {bill[b]}
  /\ bill' = [bill EXCEPT ![b] = Nil]
  /\ UNCHANGED <<clock, verifiedAt, events, call>>

\* save: a new revision; a duplicate or a conflict changes nothing.
Save(b) ==
  /\ bill[b] # Nil
  /\ exports' = IF \E x \in exports : x.id = bill[b].id /\ x.revision = bill[b].revision
                THEN exports ELSE exports \cup {bill[b]}
  /\ bill' = [bill EXCEPT ![b] = Nil]
  /\ UNCHANGED <<clock, verifiedAt, events, call>>

Tick ==
  /\ clock < MaxTime
  /\ clock' = clock + 1
  /\ UNCHANGED <<verifiedAt, events, call, bill, exports>>

UsageNext ==
  \/ Tick
  \/ \E a \in Action : Verify(a)
  \/ \E p \in Ingester :
       \/ \E a \in Action, binding \in Binding : Normalize(p, a, binding)
       \/ AppendUsage(p)
       \/ FailIngest(p)
  \/ \E b \in Biller :
       \/ \E id \in ExportId, revision \in 1..MaxRevision, start, end \in Instant :
            Draft(b, id, revision, start, end)
       \/ Save(b)

-----------------------------------------------------------------------------
(* Settlement *)

fundsVars == <<allocation, seen, sequence, records>>

Transaction == {e.transaction : e \in FundsEvent}

\* splitCommercialSettlementAmount: the publisher's part, computed from the
\* quotient and the remainder so that no product exceeds the safe integers.
PublisherAmount(gross, share) ==
  LET quotient == gross \div Denominator remainder == gross % Denominator IN
  quotient * share + (remainder * share) \div Denominator

PlatformAmount(gross, share) == gross - PublisherAmount(gross, share)

\* Mutant: the parts are rounded up.
PartUp(gross, share) == (gross * share + Denominator - 1) \div Denominator

\* The part of a party but the platform, with unbounded integers.
Part(gross, share) == (gross * share) \div Denominator

Shares(schedule) == MapThenSumSet(LAMBDA p : schedule[p], Party)

\* allocateViraMultiPartySettlement
Allocate(gross, schedule) ==
  LET distributed == MapThenSumSet(LAMBDA p : Part(gross, schedule[p]), Party \ {"platform"}) IN
  [p \in Party |-> IF p = "platform" THEN gross - distributed ELSE Part(gross, schedule[p])]

-----------------------------------------------------------------------------
(* Reconciliation *)

FundsTypeOK ==
  /\ allocation.gross \in Gross /\ allocation.schedule \in Schedule
  /\ seen \subseteq {e.id : e \in FundsEvent}
  /\ sequence \in [Transaction -> Nat]
  /\ Len(records) <= MaxRecords
  /\ \A i \in 1..Len(records) : records[i].event \in FundsEvent

FundsInit ==
  /\ \E gross \in Gross, schedule \in Schedule :
       /\ Shares(schedule) = Denominator
       /\ allocation = [gross |-> gross, schedule |-> schedule, currency |-> "EUR",
                        parts |-> Allocate(gross, schedule)]
  /\ seen = {}
  /\ sequence = [t \in Transaction |-> 0]
  /\ records = <<>>

\* Mutant: any later event of the transaction will do.
InSequenceLoose(e) == e.sequence > sequence[e.transaction]

InSequence(e) == e.sequence = sequence[e.transaction] + 1

\* What the event ought to have moved.
ExpectedAmount(e) == IF e.type = "payout" THEN allocation.parts["publisher"] ELSE allocation.gross

\* Everything is checked before the event is taken in.
Reconcile(e) ==
  /\ Len(records) < MaxRecords
  /\ e.id \notin seen
  /\ InSequence(e)
  /\ e.currency = allocation.currency
  /\ seen' = seen \cup {e.id}
  /\ sequence' = [sequence EXCEPT ![e.transaction] = e.sequence]
  /\ records' = Append(records,
       [event |-> e, expected |-> ExpectedAmount(e),
        outcome |-> IF ExpectedAmount(e) = e.amount THEN "matched" ELSE "mismatch"])
  /\ UNCHANGED allocation

FundsNext == \E e \in FundsEvent : Reconcile(e)

-----------------------------------------------------------------------------
Init == UsageInit /\ FundsInit

Next ==
  \/ UsageNext /\ UNCHANGED fundsVars
  \/ FundsNext /\ UNCHANGED usageVars

Spec == Init /\ [][Next]_<<usageVars, fundsVars>>

-----------------------------------------------------------------------------
(* Properties *)

\* "duplicate exact source: zero extra billable effect": however often and in
\* however many processes an action is ingested, and under whatever bindings, no
\* meter counts it twice.
BilledOncePerMeter == \A e, f \in events :
  e.action = f.action /\ e.binding.meter = f.binding.meter => e = f

\* What is saved under an identity and a revision stays; late usage needs a new
\* revision, whoever saves it.
ExportsAreImmutable == [][exports \subseteq exports']_usageVars

\* Two exports of periods that do not overlap have no usage in common, and every
\* line of an export has been billed.
InvoicedOnce == \A x, y \in exports :
  /\ x.lines \subseteq events
  /\ x.end <= y.start => x.lines \cap y.lines = {}

\* "fractional nano remainder with platform": nothing of the gross amount is lost
\* or invented, nobody but the platform gets more than its share, nobody gets a
\* nano less than its share rounded down, and the two ways to compute a share
\* agree, although one of them never multiplies the gross amount.
AllocationIsWhole ==
  LET gross == allocation.gross parts == allocation.parts shares == allocation.schedule IN
  /\ MapThenSumSet(LAMBDA p : parts[p], Party) = gross
  /\ \A p \in Party \ {"platform"} : parts[p] * Denominator <= gross * shares[p]
  /\ \A p \in Party : (parts[p] + 1) * Denominator > gross * shares[p]
  /\ \A p \in Party :
       PublisherAmount(gross, shares[p]) = Part(gross, shares[p])

\* What the books have of a transaction when they have n records.
RecordsOf(t, n) == {i \in 1..n : records[i].event.transaction = t}

\* An event moves funds in the books once, and the records of a transaction are
\* its events 1, 2, ... in their order, whatever was delivered again, late or
\* under a number or an identity that another event has.
RecordsFollowTheTransaction ==
  /\ \A i \in 1..Len(records) :
       records[i].event.sequence = Cardinality(RecordsOf(records[i].event.transaction, i))
  /\ \A t \in Transaction : sequence[t] = Cardinality(RecordsOf(t, Len(records)))
  /\ \A i, j \in 1..Len(records) : records[i].event.id = records[j].event.id => i = j
=============================================================================

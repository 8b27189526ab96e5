---------------------------- MODULE TriggerInbox ----------------------------
(***************************************************************************)
(* The trigger inbox: at-least-once deliveries of events from webhooks,    *)
(* schedules and calls become one durable record per source and event,     *)
(* which workers claim under a lease, release, and complete with a run.    *)
(* Each sender and each worker reads the clock of its own process, and     *)
(* these clocks need not agree.                                            *)
(***************************************************************************)
EXTENDS Integers, FiniteSets, RevisionStore

CONSTANTS
  Sender,        \* processes that deliver events
  Worker,        \* processes that consume them; also their processingRef
  Event,         \* sourceRef and eventId
  Scope,         \* the enterprise scope of the requests
  Binding,       \* what a delivery carries: resolution, trigger type,
                 \*   entrypoint, resolution artifact and payload
  BindingScope,  \* BindingScope[b]: scope of that resolution and its artifacts
  Declared,      \* bindings whose resolution declares the trigger and entrypoint
  Pinned,        \* bindings whose artifact has the digest of the resolution
  RunId,         \* runs that a completion names
  ReplayWindow, AllowedSkew, Lease,   \* the configuration of the service
  MaxSkew,       \* bound: how far a clock is ahead of the slowest at most
  MaxRevision,   \* bound: a record is not replaced beyond this revision
  MaxTime        \* bound: time stops here, on the slowest clock

VARIABLES
  clock,      \* the slowest of the processes' clocks
  ahead,      \* how far the clock of each process is ahead of it
  inbox,      \* vira.trigger_inbox_state
  call,       \* what each process is about to write to it
  receipts,   \* history: what senders were told, [event, binding, duplicate]
  held,       \* history: the claim each worker was granted and has not ended
  done        \* history: completions that were acknowledged

vars == <<clock, ahead, inbox, call, receipts, held, done>>

Party == Sender \cup Worker

Record == [revision : Nat \ {0}, status : {"pending", "processing", "processed"},
           binding : Binding, occurredAt : Nat, receivedAt : Nat,
           worker : Worker \cup {Nil}, leaseUntil : Nat \cup {Nil}, run : RunId \cup {Nil},
           updatedAt : Nat]

Write == [event : Event, next : Record]

TypeOK ==
  /\ clock \in 0..MaxTime
  /\ ahead \in [Party -> 0..MaxSkew]
  /\ inbox \in [Event -> Record \cup {Nil}]
  /\ call \in [Party -> Write \cup {Nil}]
  /\ receipts \in SUBSET [event : Event, binding : Binding, occurredAt : Nat, duplicate : BOOLEAN]
  /\ held \in [Worker -> [event : Event, revision : Nat, until : Nat] \cup {Nil}]
  /\ done \in SUBSET (Event \X RunId)

Init ==
  /\ clock = 0
  /\ ahead \in [Party -> 0..MaxSkew]
  /\ inbox = [e \in Event |-> Nil]
  /\ call = [p \in Party |-> Nil]
  /\ receipts = {}
  /\ held = [w \in Worker |-> Nil]
  /\ done = {}

\* readNow in the process of p.
Now(p) == clock + ahead[p]

-----------------------------------------------------------------------------
(* The record *)

\* parseResolutionBinding and the checks of the artifacts' metadata.
Admissible(b) == BindingScope[b] = Scope /\ b \in Declared /\ b \in Pinned

\* The owner, the lease and the run are those of the status.
StatusFits(r) ==
  /\ r.status = "processing" <=> r.worker # Nil
  /\ r.status = "processing" <=> r.leaseUntil # Nil
  /\ r.status = "processed" <=> r.run # Nil

\* What canonicalStoredRecord accepts.
Canonical(r) == StatusFits(r) /\ r.receivedAt <= r.updatedAt

Readable(e) == inbox[e] # Nil /\ Canonical(inbox[e])

SameDelivery(r, s) == r.binding = s.binding /\ r.occurredAt = s.occurredAt

Hold(p, e, next) ==
  /\ next.revision <= MaxRevision
  /\ call' = [call EXCEPT ![p] = [event |-> e, next |-> next]]
  /\ UNCHANGED <<clock, ahead, inbox, receipts, held, done>>

-----------------------------------------------------------------------------
(* The operations *)

Receive(p, e, b, occurredAt) ==
  /\ call[p] = Nil
  /\ occurredAt <= Now(p) + AllowedSkew
  /\ Now(p) - occurredAt <= ReplayWindow
  /\ Admissible(b)
  /\ Hold(p, e, [revision |-> 1, status |-> "pending", binding |-> b, occurredAt |-> occurredAt,
                 receivedAt |-> Now(p), worker |-> Nil, leaseUntil |-> Nil, run |-> Nil,
                 updatedAt |-> Now(p)])

\* (mutant) Every delivery of a known event is a duplicate.
CommitAnyReceive(p) ==
  /\ call[p] # Nil /\ call[p].next.revision = 1
  /\ LET e == call[p].event new == call[p].next IN
       /\ inbox' = Stored(inbox, e, new)
       /\ receipts' = receipts \cup
            {[event |-> e, binding |-> new.binding, occurredAt |-> new.occurredAt,
              duplicate |-> inbox[e] # Nil]}
  /\ call' = [call EXCEPT ![p] = Nil]
  /\ UNCHANGED <<clock, ahead, held, done>>

\* The INSERT, and for an event that exists the read and the comparison: a
\* conflicting replay is refused.  Neither binding nor time of an event ever
\* change, so that the read is part of the step.
CommitReceive(p) ==
  /\ call[p] # Nil /\ call[p].next.revision = 1
  /\ LET e == call[p].event new == call[p].next
         receipt == [event |-> e, binding |-> new.binding, occurredAt |-> new.occurredAt,
                     duplicate |-> inbox[e] # Nil]
     IN /\ inbox' = Stored(inbox, e, new)
        /\ receipts' = IF inbox[e] = Nil \/ (Readable(e) /\ SameDelivery(inbox[e], new))
                       THEN receipts \cup {receipt} ELSE receipts
  /\ call' = [call EXCEPT ![p] = Nil]
  /\ UNCHANGED <<clock, ahead, held, done>>

Advanced(w, e) == [inbox[e] EXCEPT !.revision = @ + 1, !.updatedAt = Now(w)]

\* (mutant) A claim does not look at the lease of another worker.
ClaimLeased(w, e) ==
  /\ call[w] = Nil /\ Readable(e)
  /\ inbox[e].status # "processed"
  /\ Hold(w, e, [Advanced(w, e) EXCEPT !.status = "processing", !.worker = w,
                                       !.leaseUntil = Now(w) + Lease, !.run = Nil])

\* (mutant) An event that was processed is claimed again.
ClaimProcessed(w, e) ==
  /\ call[w] = Nil /\ Readable(e)
  /\ inbox[e].status = "processing" => Now(w) >= inbox[e].leaseUntil
  /\ Hold(w, e, [Advanced(w, e) EXCEPT !.status = "processing", !.worker = w,
                                       !.leaseUntil = Now(w) + Lease, !.run = Nil])

Claim(w, e) ==
  /\ call[w] = Nil /\ Readable(e)
  /\ inbox[e].status # "processed"
  /\ inbox[e].status = "processing" => Now(w) >= inbox[e].leaseUntil
  /\ Hold(w, e, [Advanced(w, e) EXCEPT !.status = "processing", !.worker = w,
                                       !.leaseUntil = Now(w) + Lease, !.run = Nil])

ProcessedBy(w, e) == inbox[e].status = "processing" /\ inbox[e].worker = w

\* (mutant) A release leaves the lease in the record.
ReleaseLeased(w, e) ==
  /\ call[w] = Nil /\ Readable(e) /\ ProcessedBy(w, e)
  /\ Hold(w, e, [Advanced(w, e) EXCEPT !.status = "pending", !.worker = Nil])

Release(w, e) ==
  /\ call[w] = Nil /\ Readable(e) /\ ProcessedBy(w, e)
  /\ Hold(w, e, [Advanced(w, e) EXCEPT !.status = "pending", !.worker = Nil, !.leaseUntil = Nil])

Complete(w, e, r) ==
  /\ call[w] = Nil /\ Readable(e) /\ ProcessedBy(w, e)
  /\ Now(w) < inbox[e].leaseUntil
  /\ Hold(w, e, [Advanced(w, e) EXCEPT !.status = "processed", !.worker = Nil,
                                       !.leaseUntil = Nil, !.run = r])

\* The compare-and-swap of a worker's operation, and what its answer tells
\* the worker about its lease.
CommitWork(w) ==
  /\ call[w] # Nil /\ call[w].next.revision > 1
  /\ LET e == call[w].event new == call[w].next
         ok == Accepts(inbox, e, new)
     IN /\ inbox' = Stored(inbox, e, new)
        /\ held' = IF ok
                   THEN [held EXCEPT ![w] = IF new.status = "processing"
                          THEN [event |-> e, revision |-> new.revision, until |-> new.leaseUntil]
                          ELSE Nil]
                   ELSE held
        /\ done' = IF ok /\ new.status = "processed" THEN done \cup {<<e, new.run>>} ELSE done
  /\ call' = [call EXCEPT ![w] = Nil]
  /\ UNCHANGED <<clock, ahead, receipts>>

Tick ==
  /\ clock < MaxTime
  /\ clock' = clock + 1
  /\ UNCHANGED <<ahead, inbox, call, receipts, held, done>>

Next ==
  \/ \E p \in Sender, e \in Event, b \in Binding, t \in 0..MaxTime : Receive(p, e, b, t)
  \/ \E p \in Sender : CommitReceive(p)
  \/ \E w \in Worker, e \in Event : Claim(w, e)
  \/ \E w \in Worker, e \in Event : Release(w, e)
  \/ \E w \in Worker, e \in Event, r \in RunId : Complete(w, e, r)
  \/ \E w \in Worker : CommitWork(w)
  \/ Tick

Spec == Init /\ [][Next]_vars

-----------------------------------------------------------------------------
(* Properties *)

\* Senders are told one story: all receipts of an event are for the same
\* delivery, and exactly the first is not a duplicate.
ReceiptsAgree ==
  \A x, y \in receipts : x.event = y.event =>
    /\ SameDelivery(x, y)
    /\ [x EXCEPT !.duplicate = FALSE] \in receipts

\* The lease has run out on the clock of some worker, who may take the event.
RunOut(until) == \E w \in Worker : until <= Now(w)

\* A claim is only ever taken over once it has run out on some worker's clock, however
\* far the clocks are apart: of two claims of one event one has run out.  (A worker
\* whose own clock is behind may still count on the lease it has lost.)
LeaseIsExclusive ==
  \A w, v \in Worker : w # v /\ held[w] # Nil /\ held[v] # Nil /\ held[w].event = held[v].event
    => RunOut(held[w].until) \/ RunOut(held[v].until)

\* An event is consumed once: the only completion ever acknowledged is the one
\* the record names, and no claim takes the event back.
ConsumedOnce ==
  \A e \in Event, r \in RunId : <<e, r>> \in done =>
    inbox[e] # Nil /\ inbox[e].status = "processed" /\ inbox[e].run = r

\* No worker's clock is behind a sender's.
NobodyLags == \A s \in Sender, w \in Worker : ahead[s] <= ahead[w]

\* What the service has written it can read back, unless a worker's clock lags: that
\* worker dates the record before its receipt, and no process reads it ever after.  Owner,
\* lease and run fit the status whatever the clocks are.
EventIsReadable ==
  \A e \in Event : inbox[e] # Nil =>
    StatusFits(inbox[e]) /\ (NobodyLags => Canonical(inbox[e]))

\* What sources that deliver again and workers that take over may do to one event.
EventsAreSound == ReceiptsAgree /\ LeaseIsExclusive /\ ConsumedOnce /\ EventIsReadable

-----------------------------------------------------------------------------
(* The inductive invariant behind the properties.                            *)

\* The configuration is in whole units of time, and null is no value.
InboxConstants ==
  /\ Lease \in Nat /\ ReplayWindow \in Nat /\ AllowedSkew \in Nat /\ MaxTime \in Nat
  /\ MaxSkew \in Nat
  /\ Nil \notin Record \cup Worker \cup RunId \cup Nat

\* The record r may be replaced by what p computed from it: it is not processed,
\* and the claim on it, if there is one, is p's own or has run out.
Replaceable(p, r) ==
  /\ r.status # "processed"
  /\ r.status = "processing" => r.worker = p \/ RunOut(r.leaseUntil)

\* A record of an event that a sender has received by now, and that is readable where
\* no worker's clock lags.
Sound(r) ==
  /\ StatusFits(r)
  /\ \E s \in Sender : r.receivedAt <= Now(s)
  /\ NobodyLags => r.receivedAt <= r.updatedAt

\* What p is about to write is sound, and the successor of the row while that is at
\* the revision that p has read.
WriteHolds(p) ==
  call[p] # Nil =>
    LET new == call[p].next row == inbox[call[p].event] IN
      /\ Sound(new)
      /\ new.status = "processing" => new.worker = p
      /\ new.revision = 1 => new.status = "pending"
      /\ new.revision > 1 =>
           /\ row # Nil /\ SameDelivery(row, new) /\ new.revision - 1 <= row.revision
           /\ row.revision = new.revision - 1 => Replaceable(p, row)

FirstReceipt(e) == [event |-> e, binding |-> inbox[e].binding,
                    occurredAt |-> inbox[e].occurredAt, duplicate |-> FALSE]

\* Every receipt is for the delivery that is on record, and its first one is kept.
ReceiptsTellTheRow ==
  /\ \A x \in receipts : inbox[x.event] # Nil /\ SameDelivery(inbox[x.event], x)
  /\ \A e \in Event : inbox[e] # Nil => FirstReceipt(e) \in receipts

\* A claim that has not run out is the one on record.
ClaimIsOnRecord ==
  \A w \in Worker : held[w] # Nil /\ ~RunOut(held[w].until) =>
    LET row == inbox[held[w].event] IN
      /\ row # Nil
      /\ row.status = "processing" /\ row.worker = w /\ row.leaseUntil = held[w].until

InboxHolds ==
  /\ TypeOK
  /\ \A e \in Event : inbox[e] # Nil => Sound(inbox[e])
  /\ \A p \in Party : WriteHolds(p)
  /\ ReceiptsTellTheRow /\ ClaimIsOnRecord /\ ConsumedOnce
=============================================================================

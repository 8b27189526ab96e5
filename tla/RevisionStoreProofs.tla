------------------------- MODULE RevisionStoreProofs -------------------------
(***************************************************************************)
(* The proofs about two services that read a row, compute its successor    *)
(* and replace it where it still has the revision they read                *)
(* (RevisionStore): TriggerInbox, for any number of senders and workers,   *)
(* any window and lease, and HostedCapabilityJob, for any callers, jobs,   *)
(* authorities and answers of providers; in both for clocks that differ by *)
(* any amount.  A worker or a caller may sleep between its read and its    *)
(* write, and another may have replaced the row in the meantime.           *)
(***************************************************************************)
EXTENDS TriggerInbox, TLAPS

CONSTANTS
  Caller, JobId, Connection, Authority, Mode, Answer   \* of a job

VARIABLES
  jobClock, jobAhead, jobs, requests, acked            \* of a job

Jobs == INSTANCE HostedCapabilityJob WITH
          clock <- jobClock, ahead <- jobAhead, call <- requests


(***************************************************************************)
(* Records.                                                                *)
(***************************************************************************)

\* The successor of r at instant n, as the operations of a worker write it.
Worked(r, n, status, worker, leaseUntil, run) ==
  [revision |-> r.revision + 1, status |-> status, binding |-> r.binding,
   occurredAt |-> r.occurredAt, receivedAt |-> r.receivedAt, worker |-> worker,
   leaseUntil |-> leaseUntil, run |-> run, updatedAt |-> n]

LEMMA WorkedFacts ==
  ASSUME NEW r \in Record, NEW n, NEW status, NEW worker, NEW leaseUntil, NEW run,
         n \in Nat, status \in {"pending", "processing", "processed"},
         worker \in Worker \cup {Nil}, leaseUntil \in Nat \cup {Nil}, run \in RunId \cup {Nil}
  PROVE  LET x == Worked(r, n, status, worker, leaseUntil, run) IN
           /\ x \in Record
           /\ x.revision = r.revision + 1 /\ x.status = status /\ x.worker = worker
           /\ x.leaseUntil = leaseUntil /\ x.run = run /\ x.updatedAt = n
           /\ x.receivedAt = r.receivedAt /\ SameDelivery(r, x)
  BY DEF Worked, Record, SameDelivery

ClaimedRecord(r, n, worker, leaseUntil) ==
  [[r EXCEPT !.revision = @ + 1, !.updatedAt = n]
     EXCEPT !.status = "processing", !.worker = worker, !.leaseUntil = leaseUntil, !.run = Nil]

LEMMA ClaimedWorked ==
  ASSUME NEW r \in Record, NEW n, NEW worker, NEW leaseUntil, NEW x,
         x = ClaimedRecord(r, n, worker, leaseUntil)
  PROVE  x = Worked(r, n, "processing", worker, leaseUntil, Nil)
  BY Zenon DEF ClaimedRecord, Worked, Record

ReleasedRecord(r, n) ==
  [[r EXCEPT !.revision = @ + 1, !.updatedAt = n]
     EXCEPT !.status = "pending", !.worker = Nil, !.leaseUntil = Nil]

LEMMA ReleasedWorked ==
  ASSUME NEW r \in Record, NEW n, NEW x, x = ReleasedRecord(r, n)
  PROVE  x = Worked(r, n, "pending", Nil, Nil, r.run)
  BY Zenon DEF ReleasedRecord, Worked, Record

CompletedRecord(r, n, run) ==
  [[r EXCEPT !.revision = @ + 1, !.updatedAt = n]
     EXCEPT !.status = "processed", !.worker = Nil, !.leaseUntil = Nil, !.run = run]

LEMMA CompletedWorked ==
  ASSUME NEW r \in Record, NEW n, NEW run, NEW x, x = CompletedRecord(r, n, run)
  PROVE  x = Worked(r, n, "processed", Nil, Nil, run)
  BY Zenon DEF CompletedRecord, Worked, Record

(***************************************************************************)
(* What a process holds.                                                   *)
(***************************************************************************)

LEMMA InitHolds ==
  ASSUME InboxConstants, Init
  PROVE  InboxHolds
  BY DEF InboxConstants, Init, InboxHolds, TypeOK, WriteHolds, ReceiptsTellTheRow,
         ClaimIsOnRecord, ConsumedOnce

\* A process that reads and holds the record it will write.
LEMMA HoldHolds ==
  ASSUME InboxHolds, NEW p \in Party, NEW e \in Event, NEW next \in Record, Hold(p, e, next),
         Sound(next),
         next.status = "processing" => next.worker = p,
         next.revision = 1 => next.status = "pending",
         next.revision > 1 =>
           /\ inbox[e] # Nil /\ SameDelivery(inbox[e], next)
           /\ inbox[e].revision = next.revision - 1 /\ Replaceable(p, inbox[e])
  PROVE  InboxHolds'
<1> DEFINE w == [event |-> e, next |-> next]
<1>1. w \in Write /\ w.event = e /\ w.next = next
  BY DEF Write
<1>2. /\ call' = [call EXCEPT ![p] = w]
      /\ clock' = clock /\ ahead' = ahead /\ inbox' = inbox /\ receipts' = receipts /\ held' = held /\ done' = done
  BY DEF Hold
<1> HIDE DEF w
<1>3. TypeOK'
  BY <1>1, <1>2 DEF InboxHolds, TypeOK
<1>4. ASSUME NEW q \in Party PROVE WriteHolds(q)'
  <2>1. CASE q = p
    <3>1. call'[q] = w
      BY <1>2, <2>1 DEF InboxHolds, TypeOK
    <3>2. next.revision > 1 => inbox[e].revision \in Nat
      BY DEF InboxHolds, TypeOK, Record
    <3>3. next.revision > 1 => next.revision - 1 <= inbox[e].revision
      BY <3>2
    <3>4. QED
      BY <1>1, <1>2, <2>1, <3>1, <3>3 DEF WriteHolds, Replaceable, SameDelivery,
        Sound, StatusFits, RunOut, Now, NobodyLags
  <2>2. CASE q # p
    <3>1. call'[q] = call[q] /\ WriteHolds(q)
      BY <1>2, <2>2 DEF InboxHolds, TypeOK
    <3>2. QED
      BY <1>2, <3>1 DEF WriteHolds, Replaceable, SameDelivery,
        Sound, StatusFits, RunOut, Now, NobodyLags
  <2>3. QED
    BY <2>1, <2>2
<1>5. (\A i \in Event : inbox[i] # Nil => Sound(inbox[i]))'
  BY <1>2 DEF InboxHolds, Sound, StatusFits, RunOut, Now, NobodyLags
<1>6. ReceiptsTellTheRow' /\ ClaimIsOnRecord' /\ ConsumedOnce'
  BY <1>2 DEF InboxHolds, ReceiptsTellTheRow, SameDelivery, FirstReceipt, ClaimIsOnRecord,
              ConsumedOnce, RunOut, Now
<1>7. QED
  BY <1>3, <1>4, <1>5, <1>6 DEF InboxHolds

LEMMA ReceiveHolds ==
  ASSUME InboxConstants, InboxHolds, NEW p \in Sender, NEW e \in Event, NEW b \in Binding,
         NEW t \in 0..MaxTime, Receive(p, e, b, t)
  PROVE  InboxHolds'
<1> DEFINE next == [revision |-> 1, status |-> "pending", binding |-> b, occurredAt |-> t,
                    receivedAt |-> Now(p), worker |-> Nil, leaseUntil |-> Nil, run |-> Nil,
                    updatedAt |-> Now(p)]
<1>1. Now(p) \in Nat /\ t \in Nat /\ p \in Party
  BY DEF InboxConstants, InboxHolds, TypeOK, Party, Now
<1>2. next \in Record
  BY <1>1 DEF Record
<1>3. Hold(p, e, next)
  BY DEF Receive
<1>4. next.revision = 1 /\ next.status = "pending" /\ Sound(next)
  BY <1>1 DEF Sound, StatusFits
<1> HIDE DEF next
<1>5. QED
  BY <1>1, <1>2, <1>3, <1>4, HoldHolds

\* The operations of a worker on the record that it reads.
LEMMA WorkHolds ==
  ASSUME InboxConstants, InboxHolds, NEW w \in Worker, NEW e \in Event, Readable(e),
         NEW status, NEW worker, NEW leaseUntil, NEW run,
         status \in {"pending", "processing", "processed"}, run \in RunId \cup {Nil},
         Hold(w, e, Worked(inbox[e], Now(w), status, worker, leaseUntil, run)),
         Replaceable(w, inbox[e]),
         IF status = "processing" THEN worker = w /\ leaseUntil \in Nat
                                  ELSE worker = Nil /\ leaseUntil = Nil,
         status = "processed" <=> run # Nil
  PROVE  InboxHolds'
<1> DEFINE next == Worked(inbox[e], Now(w), status, worker, leaseUntil, run)
<1>1. /\ inbox[e] # Nil /\ inbox[e] \in Record /\ Now(w) \in Nat /\ w \in Party
      /\ Nil \notin Worker /\ Nil \notin Nat
      /\ Sound(inbox[e])
  BY DEF InboxConstants, InboxHolds, TypeOK, Readable, Party, Now
<1>2. /\ next \in Record
      /\ next.revision = inbox[e].revision + 1 /\ next.status = status /\ next.worker = worker
      /\ next.leaseUntil = leaseUntil /\ next.run = run /\ next.updatedAt = Now(w)
      /\ next.receivedAt = inbox[e].receivedAt /\ SameDelivery(inbox[e], next)
  BY <1>1, WorkedFacts
<1> HIDE DEF next
<1>3. /\ inbox[e].revision \in Nat /\ inbox[e].revision > 0
      /\ inbox[e].receivedAt \in Nat /\ inbox[e].updatedAt \in Nat
  BY <1>1 DEF Record
<1>4. next.revision > 1 /\ inbox[e].revision = next.revision - 1
  BY <1>2, <1>3
<1>5. NobodyLags => next.receivedAt <= next.updatedAt
  <2> SUFFICES ASSUME NobodyLags PROVE inbox[e].receivedAt <= Now(w)
    BY <1>2
  <2>1. PICK s \in Sender : inbox[e].receivedAt <= Now(s)
    BY <1>1 DEF Sound
  <2>2. Now(s) <= Now(w) /\ Now(s) \in Nat
    BY DEF NobodyLags, Now, Party, InboxHolds, TypeOK, InboxConstants
  <2>3. QED
    BY <1>1, <1>3, <2>1, <2>2
<1>6. StatusFits(next)
  BY <1>1, <1>2 DEF StatusFits
<1>7. Sound(next)
  BY <1>1, <1>2, <1>5, <1>6 DEF Sound
<1>8. next.revision # 1 /\ (next.status = "processing" => next.worker = w)
  BY <1>2, <1>3
<1>9. Hold(w, e, next)
  BY DEF next
<1>10. QED
  BY <1>1, <1>2, <1>4, <1>7, <1>8, <1>9, HoldHolds

(***************************************************************************)
(* The transactions.                                                       *)
(***************************************************************************)

\* The row of e stays, or a later one of the same delivery takes its place.
RowGrows(e) ==
  \/ inbox'[e] = inbox[e]
  \/ /\ inbox'[e] # Nil
     /\ inbox[e] # Nil => /\ SameDelivery(inbox[e], inbox'[e])
                          /\ inbox'[e].revision > inbox[e].revision

\* What another process holds is not hurt by it.
LEMMA OthersHold ==
  ASSUME InboxHolds, TypeOK', clock' = clock /\ ahead' = ahead, NEW q \in Party, call'[q] = call[q],
         \A e \in Event : RowGrows(e)
  PROVE  WriteHolds(q)'
<1>1. CASE call[q] = Nil
  BY <1>1 DEF WriteHolds
<1>2. CASE call[q] # Nil
  <2> DEFINE e == call[q].event
             new == call[q].next
  <2>1. e \in Event /\ new \in Record
    BY <1>2 DEF InboxHolds, TypeOK, Write
  <2>2. /\ Sound(new)
        /\ new.status = "processing" => new.worker = q
        /\ new.revision = 1 => new.status = "pending"
        /\ new.revision > 1 =>
             /\ inbox[e] # Nil /\ SameDelivery(inbox[e], new) /\ new.revision - 1 <= inbox[e].revision
             /\ inbox[e].revision = new.revision - 1 => Replaceable(q, inbox[e])
    BY <1>2 DEF InboxHolds, WriteHolds
  <2> HIDE DEF e, new
  <2>3. RowGrows(e) /\ (inbox[e] # Nil => inbox[e] \in Record) /\ (inbox'[e] # Nil
          => inbox'[e] \in Record)
    BY <2>1 DEF InboxHolds, TypeOK
  <2>4. new.revision > 1 =>
          /\ inbox'[e] # Nil /\ SameDelivery(inbox'[e], new) /\ new.revision - 1 <= inbox'[e].revision
          /\ inbox'[e].revision = new.revision - 1 => inbox'[e] = inbox[e]
    BY <2>1, <2>2, <2>3 DEF RowGrows, SameDelivery, Record
  <2>5. QED
    BY <1>2, <2>2, <2>4 DEF WriteHolds, Replaceable, SameDelivery,
        Sound, StatusFits, RunOut, Now, NobodyLags, e, new
<1>3. QED
  BY <1>1, <1>2

LEMMA CommitReceiveHolds ==
  ASSUME InboxConstants, InboxHolds, NEW p \in Sender, CommitReceive(p)
  PROVE  InboxHolds'
<1> DEFINE e == call[p].event
           new == call[p].next
           told(d) == [event |-> e, binding |-> new.binding, occurredAt |-> new.occurredAt,
                       duplicate |-> d]
<1>1. /\ p \in Party /\ call[p] # Nil /\ new.revision = 1 /\ WriteHolds(p) /\ TypeOK
      /\ call' = [call EXCEPT ![p] = Nil] /\ clock' = clock /\ ahead' = ahead /\ held' = held /\ done' = done
  BY DEF CommitReceive, InboxHolds, Party
<1>2. e \in Event /\ new \in Record /\ new # Nil /\ Sound(new)
  BY <1>1 DEF TypeOK, Write, WriteHolds, InboxConstants
<1>3. \/ /\ inbox[e] = Nil /\ inbox' = [inbox EXCEPT ![e] = new]
         /\ receipts' = receipts \cup {told(FALSE)}
      \/ /\ inbox[e] # Nil /\ inbox' = inbox
         /\ \/ receipts' = receipts
            \/ SameDelivery(inbox[e], new) /\ receipts' = receipts \cup {told(TRUE)}
  BY <1>1 DEF CommitReceive, Stored, Inserted
<1>4. \A d \in BOOLEAN :
        /\ told(d) \in [event : Event, binding : Binding, occurredAt : Nat, duplicate : BOOLEAN]
        /\ told(d).event = e /\ SameDelivery(new, told(d))
  BY <1>2 DEF Record, SameDelivery
<1>5. new.binding = told(FALSE).binding /\ told(FALSE) =
        [event |-> e, binding |-> new.binding, occurredAt |-> new.occurredAt, duplicate |-> FALSE]
  OBVIOUS
<1> HIDE DEF e, new
<1>6. TypeOK'
  <2>1. call' \in [Party -> Write \cup {Nil}] /\ inbox' \in [Event -> Record \cup {Nil}]
    BY <1>1, <1>2, <1>3 DEF TypeOK
  <2>2. receipts' \in SUBSET [event : Event, binding : Binding, occurredAt : Nat, duplicate : BOOLEAN]
    BY <1>1, <1>3, <1>4 DEF TypeOK
  <2>3. QED
    BY <1>1, <2>1, <2>2 DEF TypeOK
<1>7. \A i \in Event : RowGrows(i)
  BY <1>1, <1>2, <1>3 DEF RowGrows, TypeOK
<1>8. ASSUME NEW q \in Party PROVE WriteHolds(q)'
  <2>1. CASE q = p
    BY <1>1, <2>1 DEF WriteHolds, TypeOK
  <2>2. CASE q # p
    BY <1>1, <1>6, <1>7, <2>2, OthersHold DEF TypeOK
  <2>3. QED
    BY <2>1, <2>2
<1>9. (\A i \in Event : inbox[i] # Nil => Sound(inbox[i]))'
  <2>1. \A i \in Event : inbox'[i] # Nil => Sound(inbox'[i])
    BY <1>1, <1>2, <1>3 DEF InboxHolds, TypeOK
  <2>2. QED
    BY <1>1, <2>1 DEF Sound, StatusFits, RunOut, Now, NobodyLags
<1>10. ReceiptsTellTheRow'
  <2>1. ASSUME NEW x \in receipts'
        PROVE  inbox'[x.event] # Nil /\ SameDelivery(inbox'[x.event], x)
    <3>1. CASE x \in receipts
      <4>1. inbox[x.event] # Nil /\ SameDelivery(inbox[x.event], x) /\ x.event \in Event
        BY <1>1, <3>1 DEF InboxHolds, ReceiptsTellTheRow, TypeOK
      <4>2. QED
        BY <1>1, <1>2, <1>3, <4>1 DEF TypeOK
    <3>2. CASE x \notin receipts
      BY <1>1, <1>2, <1>3, <1>4, <2>1, <3>2 DEF TypeOK, SameDelivery
    <3>3. QED
      BY <3>1, <3>2
  <2>2. ASSUME NEW i \in Event, inbox'[i] # Nil
        PROVE  [event |-> i, binding |-> inbox'[i].binding, occurredAt |-> inbox'[i].occurredAt,
                duplicate |-> FALSE] \in receipts'
    <3>1. CASE inbox[i] # Nil
      <4>1. inbox'[i] = inbox[i] /\ FirstReceipt(i) \in receipts
        BY <1>1, <1>2, <1>3, <3>1 DEF TypeOK, InboxHolds, ReceiptsTellTheRow
      <4>2. QED
        BY <1>3, <4>1 DEF FirstReceipt
    <3>2. CASE inbox[i] = Nil
      <4>1. i = e /\ inbox'[i] = new /\ told(FALSE) \in receipts'
        BY <1>1, <1>2, <1>3, <2>2, <3>2 DEF TypeOK
      <4>2. QED
        BY <4>1
    <3>3. QED
      BY <3>1, <3>2
  <2>3. QED
    BY <2>1, <2>2 DEF ReceiptsTellTheRow, FirstReceipt, SameDelivery
<1>11. \A i \in Event : inbox[i] # Nil => inbox'[i] = inbox[i]
  BY <1>1, <1>2, <1>3 DEF TypeOK
<1>12. ClaimIsOnRecord'
  BY <1>1, <1>11 DEF InboxHolds, ClaimIsOnRecord, TypeOK, RunOut, Now
<1>13. ConsumedOnce'
  BY <1>1, <1>11 DEF InboxHolds, ConsumedOnce
<1>14. QED
  BY <1>6, <1>8, <1>9, <1>10, <1>12, <1>13 DEF InboxHolds

LEMMA CommitWorkHolds ==
  ASSUME InboxConstants, InboxHolds, NEW w \in Worker, CommitWork(w)
  PROVE  InboxHolds'
<1> DEFINE e == call[w].event
           new == call[w].next
           claim == [event |-> e, revision |-> new.revision, until |-> new.leaseUntil]
<1>1. /\ w \in Party /\ call[w] # Nil /\ new.revision > 1 /\ WriteHolds(w) /\ TypeOK
      /\ call' = [call EXCEPT ![w] = Nil] /\ clock' = clock /\ ahead' = ahead /\ receipts' = receipts
  BY DEF CommitWork, InboxHolds, Party
<1>2. /\ e \in Event /\ new \in Record /\ new # Nil /\ Sound(new)
      /\ new.status = "processing" => new.worker = w
      /\ inbox[e] # Nil /\ SameDelivery(inbox[e], new)
      /\ inbox[e].revision = new.revision - 1 => Replaceable(w, inbox[e])
  BY <1>1 DEF TypeOK, Write, WriteHolds, InboxConstants
<1>3. new.revision # 1
  BY <1>1, <1>2 DEF Record
<1>4. \/ inbox' = inbox /\ held' = held /\ done' = done
      \/ /\ inbox[e].revision = new.revision - 1 /\ inbox' = [inbox EXCEPT ![e] = new]
         /\ held' = [held EXCEPT ![w] = IF new.status = "processing" THEN claim ELSE Nil]
         /\ done' = IF new.status = "processed" THEN done \cup {<<e, new.run>>} ELSE done
  BY <1>2, <1>3 DEF CommitWork, Stored, Updated, Accepts, Matches
<1>5. /\ new.status = "processing" => claim \in [event : Event, revision : Nat, until : Nat]
      /\ claim.event = e /\ claim.until = new.leaseUntil
  BY <1>2 DEF Record, Sound, StatusFits
<1>6. new.status = "processed" => new.run \in RunId
  BY <1>2 DEF Record, Sound, StatusFits
<1> HIDE DEF e, new, claim
<1>7. TypeOK'
  <2>1. call' \in [Party -> Write \cup {Nil}] /\ inbox' \in [Event -> Record \cup {Nil}]
    BY <1>1, <1>2, <1>4 DEF TypeOK
  <2>2. held' \in [Worker -> [event : Event, revision : Nat, until : Nat] \cup {Nil}]
    BY <1>1, <1>4, <1>5 DEF TypeOK
  <2>3. done' \in SUBSET (Event \X RunId)
    BY <1>1, <1>2, <1>4, <1>6 DEF TypeOK
  <2>4. QED
    BY <1>1, <2>1, <2>2, <2>3 DEF TypeOK
<1>8. \A i \in Event : RowGrows(i)
  <2>1. inbox' # inbox => new.revision > inbox[e].revision
    BY <1>1, <1>2, <1>4 DEF TypeOK, Record
  <2>2. QED
    BY <1>1, <1>2, <1>4, <2>1 DEF RowGrows, TypeOK
<1>9. ASSUME NEW q \in Party PROVE WriteHolds(q)'
  <2>1. CASE q = w
    BY <1>1, <2>1 DEF WriteHolds, TypeOK
  <2>2. CASE q # w
    BY <1>1, <1>7, <1>8, <2>2, OthersHold DEF TypeOK
  <2>3. QED
    BY <2>1, <2>2
<1>10. (\A i \in Event : inbox[i] # Nil => Sound(inbox[i]))'
  <2>1. \A i \in Event : inbox'[i] # Nil => Sound(inbox'[i])
    BY <1>1, <1>2, <1>4 DEF InboxHolds, TypeOK
  <2>2. QED
    BY <1>1, <2>1 DEF Sound, StatusFits, RunOut, Now, NobodyLags
<1>11. \A i \in Event : inbox[i] # Nil => inbox'[i] # Nil /\ SameDelivery(inbox[i], inbox'[i])
  BY <1>8 DEF RowGrows, SameDelivery
<1>12. ReceiptsTellTheRow'
  <2>1. ASSUME NEW x \in receipts'
        PROVE  inbox'[x.event] # Nil /\ SameDelivery(inbox'[x.event], x)
    <3>1. inbox[x.event] # Nil /\ SameDelivery(inbox[x.event], x) /\ x.event \in Event
      BY <1>1 DEF InboxHolds, ReceiptsTellTheRow, TypeOK
    <3>2. QED
      BY <1>11, <3>1 DEF SameDelivery
  <2>2. ASSUME NEW i \in Event, inbox'[i] # Nil
        PROVE  [event |-> i, binding |-> inbox'[i].binding, occurredAt |-> inbox'[i].occurredAt,
                duplicate |-> FALSE] \in receipts'
    <3>1. inbox[i] # Nil
      BY <1>1, <1>2, <1>4, <2>2 DEF TypeOK
    <3>2. FirstReceipt(i) \in receipts /\ SameDelivery(inbox[i], inbox'[i])
      BY <1>11, <3>1 DEF InboxHolds, ReceiptsTellTheRow
    <3>3. QED
      BY <1>1, <3>2 DEF FirstReceipt, SameDelivery
  <2>3. QED
    BY <2>1, <2>2 DEF ReceiptsTellTheRow, FirstReceipt, SameDelivery
<1>13. ClaimIsOnRecord'
  <2>1. ASSUME NEW v \in Worker, held'[v] # Nil, ~RunOut(held'[v].until)
        PROVE  /\ inbox'[held'[v].event] # Nil
               /\ inbox'[held'[v].event].status = "processing"
               /\ inbox'[held'[v].event].worker = v
               /\ inbox'[held'[v].event].leaseUntil = held'[v].until
    <3>1. CASE held'[v] = held[v] /\ inbox'[held[v].event] = inbox[held[v].event]
      BY <2>1, <3>1 DEF InboxHolds, ClaimIsOnRecord
    <3>2. CASE v = w /\ held'[v] = claim /\ inbox' = [inbox EXCEPT ![e] = new]
               /\ new.status = "processing"
      BY <1>1, <1>2, <1>5, <3>2 DEF TypeOK
    <3>3. CASE /\ held'[v] = held[v] /\ held[v].event = e /\ v # w
               /\ inbox[e].revision = new.revision - 1
      <4>1. /\ inbox[e].status = "processing" /\ inbox[e].worker = v
            /\ ~RunOut(inbox[e].leaseUntil)
        BY <2>1, <3>3 DEF InboxHolds, ClaimIsOnRecord
      <4>2. RunOut(inbox[e].leaseUntil)
        BY <1>2, <3>3, <4>1 DEF Replaceable
      <4>3. QED
        BY <4>1, <4>2
    <3>4. QED
      BY <1>1, <1>2, <1>4, <2>1, <3>1, <3>2, <3>3 DEF TypeOK
  <2>2. QED
    BY <1>1, <2>1 DEF ClaimIsOnRecord, RunOut, Now
<1>14. ConsumedOnce'
  <2>1. ASSUME NEW i \in Event, NEW r \in RunId, <<i, r>> \in done'
        PROVE  inbox'[i] # Nil /\ inbox'[i].status = "processed" /\ inbox'[i].run = r
    <3>1. CASE <<i, r>> \in done
      <4>1. inbox[i] # Nil /\ inbox[i].status = "processed" /\ inbox[i].run = r
        BY <3>1 DEF InboxHolds, ConsumedOnce
      <4>2. inbox'[i] = inbox[i]
        BY <1>1, <1>2, <1>4, <4>1 DEF Replaceable, TypeOK
      <4>3. QED
        BY <4>1, <4>2
    <3>2. CASE <<i, r>> \notin done
      BY <1>1, <1>2, <1>4, <2>1, <3>2 DEF TypeOK
    <3>3. QED
      BY <3>1, <3>2
  <2>2. QED
    BY <2>1 DEF ConsumedOnce
<1>15. QED
  BY <1>7, <1>9, <1>10, <1>12, <1>13, <1>14 DEF InboxHolds

\* Time only takes claims away.
LEMMA TickHolds ==
  ASSUME InboxConstants, InboxHolds, Tick
  PROVE  InboxHolds'
<1>1. /\ TypeOK /\ clock' = clock + 1 /\ clock < MaxTime /\ ahead' = ahead
      /\ inbox' = inbox /\ call' = call /\ receipts' = receipts /\ held' = held /\ done' = done
  BY DEF InboxHolds, Tick
<1>2. /\ clock \in Nat /\ clock' \in 0..MaxTime
      /\ \A p \in Party : ahead[p] \in Nat
  BY <1>1 DEF TypeOK, InboxConstants
<1>3. TypeOK'
  BY <1>1, <1>2 DEF TypeOK
<1>4. ASSUME NEW t \in Nat, NEW P \in SUBSET Party, \E p \in P : t <= clock + ahead[p]
      PROVE  \E p \in P : t <= clock' + ahead'[p]
  <2>1. PICK p \in P : t <= clock + ahead[p]
    BY <1>4
  <2>2. t <= clock' + ahead'[p]
    BY <1>1, <1>2, <2>1
  <2>3. QED
    BY <2>2
<1>5. ASSUME NEW r \in Record, Sound(r)
      PROVE  /\ StatusFits(r)
             /\ \E s \in Sender : r.receivedAt <= clock' + ahead'[s]
             /\ NobodyLags => r.receivedAt <= r.updatedAt
             /\ \A q \in Party : Replaceable(q, r) =>
                  /\ r.status # "processed"
                  /\ r.status = "processing" =>
                       r.worker = q \/ \E w \in Worker : r.leaseUntil <= clock' + ahead'[w]
  <2>1. r.receivedAt \in Nat /\ (r.status = "processing" => r.leaseUntil \in Nat)
    BY <1>5 DEF Sound, StatusFits, Record
  <2>2. Sender \in SUBSET Party /\ Worker \in SUBSET Party
    BY DEF Party
  <2>3. \E s \in Sender : r.receivedAt <= clock' + ahead'[s]
    BY <1>4, <1>5, <2>1, <2>2 DEF Sound, Now
  <2>4. ASSUME r.status = "processing", RunOut(r.leaseUntil)
        PROVE  \E w \in Worker : r.leaseUntil <= clock' + ahead'[w]
    BY <1>4, <2>1, <2>2, <2>4 DEF RunOut, Now
  <2>5. QED
    BY <1>5, <2>3, <2>4 DEF Sound, Replaceable
<1>6. ASSUME NEW q \in Party PROVE WriteHolds(q)'
  <2>1. CASE call[q] = Nil
    BY <1>1, <2>1 DEF WriteHolds
  <2>2. CASE call[q] # Nil
    <3> DEFINE e == call[q].event
               new == call[q].next
    <3>1. e \in Event /\ new \in Record
      BY <1>1, <2>2 DEF TypeOK, Write
    <3>2. /\ Sound(new)
          /\ new.status = "processing" => new.worker = q
          /\ new.revision = 1 => new.status = "pending"
          /\ new.revision > 1 =>
               /\ inbox[e] # Nil /\ SameDelivery(inbox[e], new)
                    /\ new.revision - 1 <= inbox[e].revision
               /\ inbox[e].revision = new.revision - 1 => Replaceable(q, inbox[e])
      BY <2>2 DEF InboxHolds, WriteHolds
    <3> HIDE DEF e, new
    <3>3. inbox[e] # Nil => inbox[e] \in Record /\ Sound(inbox[e])
      BY <1>1, <3>1 DEF TypeOK, InboxHolds
    <3>4. /\ StatusFits(new) /\ (\E s \in Sender : new.receivedAt <= clock' + ahead'[s])
          /\ NobodyLags => new.receivedAt <= new.updatedAt
          /\ new.revision > 1 =>
               /\ inbox[e] # Nil /\ SameDelivery(inbox[e], new)
                    /\ new.revision - 1 <= inbox[e].revision
               /\ inbox[e].revision = new.revision - 1 =>
                    /\ inbox[e].status # "processed"
                    /\ inbox[e].status = "processing" =>
                         inbox[e].worker = q \/ \E w \in Worker : inbox[e].leaseUntil <= clock' + ahead'[w]
      BY <1>5, <3>1, <3>2, <3>3
    <3>5. QED
      BY <1>1, <3>2, <3>4 DEF WriteHolds, Replaceable, SameDelivery,
        Sound, StatusFits, RunOut, Now, NobodyLags, e, new
  <2>3. QED
    BY <2>1, <2>2
<1>7. (\A i \in Event : inbox[i] # Nil => Sound(inbox[i]))'
  BY <1>1, <1>5 DEF InboxHolds, TypeOK, Sound, StatusFits, RunOut, Now, NobodyLags
<1>8. ClaimIsOnRecord'
  <2>1. ASSUME NEW v \in Worker, held[v] # Nil, RunOut(held[v].until)
        PROVE  \E w \in Worker : held[v].until <= clock' + ahead'[w]
    BY <1>1, <1>4, <2>1 DEF TypeOK, RunOut, Now, Party
  <2>2. QED
    BY <1>1, <2>1 DEF InboxHolds, ClaimIsOnRecord, RunOut, Now
<1>9. ReceiptsTellTheRow' /\ ConsumedOnce'
  BY <1>1 DEF InboxHolds, ReceiptsTellTheRow, SameDelivery, FirstReceipt, ConsumedOnce
<1>10. QED
  BY <1>3, <1>6, <1>7, <1>8, <1>9 DEF InboxHolds

(***************************************************************************)
(* The theorems.                                                           *)
(***************************************************************************)

LEMMA NextHolds ==
  ASSUME InboxConstants, InboxHolds, [Next]_vars
  PROVE  InboxHolds'
<1>1. CASE UNCHANGED vars
  BY <1>1 DEF vars, InboxHolds, TypeOK, WriteHolds, Replaceable, SameDelivery, ReceiptsTellTheRow,
              FirstReceipt, ClaimIsOnRecord, ConsumedOnce, Sound, StatusFits, RunOut, Now, NobodyLags
<1>2. ASSUME NEW w \in Worker, NEW e \in Event, Claim(w, e) PROVE InboxHolds'
  <2>1. inbox[e] \in Record /\ Now(w) + Lease \in Nat
    BY <1>2 DEF Claim, Readable, InboxHolds, TypeOK, InboxConstants, Party, Now
  <2>2. Hold(w, e, Worked(inbox[e], Now(w), "processing", w, Now(w) + Lease, Nil))
    <3>1. Hold(w, e, ClaimedRecord(inbox[e], Now(w), w, Now(w) + Lease))
      BY <1>2 DEF Claim, Advanced, ClaimedRecord
    <3>2. ClaimedRecord(inbox[e], Now(w), w, Now(w) + Lease) = Worked(inbox[e], Now(w),
            "processing", w, Now(w) + Lease, Nil)
      BY <2>1, ClaimedWorked
    <3>3. QED
      BY <3>1, <3>2
  <2>3. Readable(e) /\ Replaceable(w, inbox[e])
    <3>1. inbox[e].status = "processing" => inbox[e].leaseUntil \in Nat
      BY <1>2, <2>1 DEF Claim, Readable, Canonical, StatusFits, Record
    <3>2. Now(w) \in Nat
      BY DEF Now, Party, InboxHolds, TypeOK, InboxConstants
    <3>3. QED
      BY <1>2, <3>1, <3>2 DEF Claim, Replaceable, RunOut
  <2>4. \E run \in RunId \cup {Nil} : run = Nil
    OBVIOUS
  <2>5. PICK run \in RunId \cup {Nil} : run = Nil
    BY <2>4
  <2>6. Hold(w, e, Worked(inbox[e], Now(w), "processing", w, Now(w) + Lease, run))
    BY <2>2, <2>5
  <2>7. QED
    BY <2>1, <2>3, <2>5, <2>6, WorkHolds
<1>3. ASSUME NEW w \in Worker, NEW e \in Event, Release(w, e) PROVE InboxHolds'
  <2>1. inbox[e] \in Record /\ Readable(e) /\ Replaceable(w, inbox[e])
    BY <1>3 DEF Release, Readable, InboxHolds, TypeOK, ProcessedBy, Replaceable
  <2>2. inbox[e].run = Nil
    BY <1>3 DEF Release, Readable, ProcessedBy, Canonical, StatusFits
  <2>3. Hold(w, e, Worked(inbox[e], Now(w), "pending", Nil, Nil, Nil))
    <3>1. Hold(w, e, ReleasedRecord(inbox[e], Now(w)))
      BY <1>3 DEF Release, Advanced, ReleasedRecord
    <3>2. ReleasedRecord(inbox[e], Now(w)) = Worked(inbox[e], Now(w), "pending", Nil, Nil, Nil)
      BY <2>1, <2>2, ReleasedWorked
    <3>3. QED
      BY <3>1, <3>2
  <2>4. \E none \in RunId \cup {Nil} : none = Nil
    OBVIOUS
  <2>5. PICK none \in RunId \cup {Nil} : none = Nil
    BY <2>4
  <2>6. Hold(w, e, Worked(inbox[e], Now(w), "pending", Nil, Nil, none))
    BY <2>3, <2>5
  <2>7. ("pending" = "processed" <=> none # Nil)
    BY <2>5
  <2>8. IF "pending" = "processing" THEN Nil = w /\ Nil \in Nat ELSE Nil = Nil /\ Nil = Nil
    OBVIOUS
  <2>9. "pending" \in {"pending", "processing", "processed"}
    OBVIOUS
  <2>10. QED
    BY <2>1, <2>5, <2>6, <2>7, <2>8, <2>9, WorkHolds
<1>4. ASSUME NEW w \in Worker, NEW e \in Event, NEW r \in RunId, Complete(w, e, r)
      PROVE  InboxHolds'
  <2>1. inbox[e] \in Record /\ Readable(e) /\ Replaceable(w, inbox[e]) /\ r # Nil
    BY <1>4 DEF Complete, Readable, InboxHolds, TypeOK, ProcessedBy, Replaceable, InboxConstants
  <2>2. Hold(w, e, Worked(inbox[e], Now(w), "processed", Nil, Nil, r))
    <3>1. Hold(w, e, CompletedRecord(inbox[e], Now(w), r))
      BY <1>4 DEF Complete, Advanced, CompletedRecord
    <3>2. CompletedRecord(inbox[e], Now(w), r) = Worked(inbox[e], Now(w), "processed", Nil, Nil, r)
      BY <2>1, CompletedWorked
    <3>3. QED
      BY <3>1, <3>2
  <2>3. QED
    BY <2>1, <2>2, WorkHolds
<1>5. QED
  BY <1>1, <1>2, <1>3, <1>4, ReceiveHolds, CommitReceiveHolds, CommitWorkHolds, TickHolds DEF Next

\* What a process is about to write is the successor of a row that nobody else
\* holds, or comes too late to be written.
THEOREM InboxHoldsAlways ==
  ASSUME InboxConstants
  PROVE  Spec => []InboxHolds
<1>1. Init => InboxHolds
  BY InitHolds
<1>2. InboxHolds /\ [Next]_vars => InboxHolds'
  BY NextHolds
<1>3. QED
  BY <1>1, <1>2, PTL DEF Spec

\* Records, receipts and claims keep their types.
THEOREM TypeCorrect ==
  ASSUME InboxConstants
  PROVE  Spec => []TypeOK
<1>1. InboxHolds => TypeOK
  BY DEF InboxHolds
<1>2. QED
  BY <1>1, InboxHoldsAlways, PTL

\* Every sender of an event is told the same delivery, and one of them that it
\* was the first, however many send it at once.
THEOREM SendersAreToldOneStory ==
  ASSUME InboxConstants
  PROVE  Spec => []ReceiptsAgree
<1>1. InboxHolds => ReceiptsAgree
  <2> SUFFICES ASSUME InboxHolds, NEW x \in receipts, NEW y \in receipts, x.event = y.event
               PROVE  SameDelivery(x, y) /\ [x EXCEPT !.duplicate = FALSE] \in receipts
    BY DEF ReceiptsAgree
  <2>1. x \in [event : Event, binding : Binding, occurredAt : Nat, duplicate : BOOLEAN]
    BY DEF InboxHolds, TypeOK
  <2>2. /\ inbox[x.event] # Nil /\ SameDelivery(inbox[x.event], x) /\ SameDelivery(inbox[x.event], y)
        /\ FirstReceipt(x.event) \in receipts
    BY <2>1 DEF InboxHolds, ReceiptsTellTheRow
  <2>3. ASSUME NEW z, z = [x EXCEPT !.duplicate = FALSE]
        PROVE  z = [event |-> x.event, binding |-> x.binding, occurredAt |-> x.occurredAt,
                    duplicate |-> FALSE]
    BY <2>1, <2>3, Zenon
  <2>4. QED
    BY <2>2, <2>3 DEF SameDelivery, FirstReceipt
<1>2. QED
  BY <1>1, InboxHoldsAlways, PTL

\* At no time two workers hold a claim of one event that has not run out on any worker's
\* clock, though a release or a completion of either may be on its way.
THEOREM ClaimsAreExclusive ==
  ASSUME InboxConstants
  PROVE  Spec => []LeaseIsExclusive
<1>1. InboxHolds => LeaseIsExclusive
  <2> SUFFICES ASSUME InboxHolds, NEW w \in Worker, NEW v \in Worker, w # v, held[w] # Nil,
                      held[v] # Nil, held[w].event = held[v].event,
                      ~RunOut(held[w].until), ~RunOut(held[v].until)
               PROVE  FALSE
    BY DEF LeaseIsExclusive
  <2>1. QED
    BY DEF InboxHolds, ClaimIsOnRecord
<1>2. QED
  BY <1>1, InboxHoldsAlways, PTL

\* One completion of an event is acknowledged at most, and no claim takes an event
\* back that was completed: it is consumed once although it is delivered many times.
\* Its record stays readable if no worker's clock is behind a sender's.
THEOREM EventsAreConsumedOnce ==
  ASSUME InboxConstants
  PROVE  Spec => [](ConsumedOnce /\ EventIsReadable)
<1>1. InboxHolds => ConsumedOnce /\ EventIsReadable
  <2> SUFFICES ASSUME InboxHolds, NEW e \in Event, inbox[e] # Nil
               PROVE  StatusFits(inbox[e]) /\ (NobodyLags => Canonical(inbox[e]))
    BY DEF InboxHolds, EventIsReadable
  <2>1. QED
    BY DEF InboxHolds, Sound, Canonical
<1>2. QED
  BY <1>1, InboxHoldsAlways, PTL

\* All of it together, as the run of the application runtime checks it: what is told,
\* claimed and consumed of an event that is delivered again and taken over, by any
\* processes with any clocks.
THEOREM EventsAreSoundAlways ==
  ASSUME InboxConstants
  PROVE  Spec => []EventsAreSound
<1>1. ReceiptsAgree /\ LeaseIsExclusive /\ ConsumedOnce /\ EventIsReadable => EventsAreSound
  BY DEF EventsAreSound
<1>2. QED
  BY <1>1, SendersAreToldOneStory, ClaimsAreExclusive, EventsAreConsumedOnce, PTL

-----------------------------------------------------------------------------
(* The records.                                                               *)

\* A row that may still end.
Active(j) == j \in Jobs!Job /\ Jobs!Valid(j) /\ j.status \notin Jobs!Terminal

\* The row that replaces j at instant t.
Stepped(j, status, t, requested, cancelled, timedOut, completion) ==
  [revision |-> j.revision + 1, status |-> status, connection |-> j.connection,
   mode |-> j.mode, deadline |-> j.deadline, startedAt |-> j.startedAt, updatedAt |-> t,
   cancelRequestedAt |-> requested, cancelledAt |-> cancelled, timedOutAt |-> timedOut,
   completion |-> completion]

\* An active row has neither ended nor been answered.
LEMMA ActiveFields ==
  ASSUME Jobs!JobConstants, NEW j, Active(j)
  PROVE  /\ j.revision \in Nat \ {0} /\ j.status \in {"running", "cancel-requested"}
         /\ j.connection \in Connection /\ j.mode \in Mode
         /\ j.deadline \in Nat /\ j.startedAt \in Nat /\ j.updatedAt \in Nat
         /\ j.cancelRequestedAt \in Jobs!Instant
         /\ j.status = "running" <=> j.cancelRequestedAt = Nil
         /\ j.cancelledAt = Nil /\ j.timedOutAt = Nil /\ j.completion = Nil
         /\ j.startedAt < j.deadline /\ j.startedAt <= j.updatedAt
         /\ j.cancelRequestedAt # Nil =>
              j.startedAt <= j.cancelRequestedAt /\ j.cancelRequestedAt <= j.updatedAt
<1>1. j \in Jobs!Job /\ Jobs!InOrder(j) /\ Jobs!TellsItsStatus(j) /\ j.status \notin Jobs!Terminal
  BY DEF Active, Jobs!Valid
<1>2. /\ j.revision \in Nat \ {0} /\ j.status \in {"running", "cancel-requested"}
      /\ j.connection \in Connection /\ j.mode \in Mode
      /\ j.deadline \in Nat /\ j.startedAt \in Nat /\ j.updatedAt \in Nat
      /\ j.cancelRequestedAt \in Jobs!Instant
  BY <1>1 DEF Jobs!Job, Jobs!Terminal
<1>3. /\ j.status = "running" <=> j.cancelRequestedAt = Nil
      /\ j.cancelledAt = Nil /\ j.timedOutAt = Nil /\ j.completion = Nil
  BY <1>1, <1>2 DEF Jobs!TellsItsStatus
<1>4. /\ j.startedAt < j.deadline /\ j.startedAt <= j.updatedAt
      /\ j.cancelRequestedAt # Nil =>
           j.startedAt <= j.cancelRequestedAt /\ j.cancelRequestedAt <= j.updatedAt
  BY <1>1, <1>2 DEF Jobs!InOrder, Jobs!NotAfter, Jobs!JobConstants
<1>5. QED
  BY <1>2, <1>3, <1>4

LEMMA SteppedFields ==
  ASSUME NEW j, NEW s, NEW t, NEW r, NEW c, NEW o, NEW m, NEW n, n = Stepped(j, s, t, r, c, o, m)
  PROVE  /\ n.revision = j.revision + 1 /\ n.status = s /\ n.connection = j.connection
         /\ n.mode = j.mode /\ n.deadline = j.deadline /\ n.startedAt = j.startedAt
         /\ n.updatedAt = t /\ n.cancelRequestedAt = r /\ n.cancelledAt = c
         /\ n.timedOutAt = o /\ n.completion = m
  BY DEF Stepped

LEMMA SteppedIsJob ==
  ASSUME Jobs!JobConstants, NEW j, Active(j), NEW s \in {"running",
         "cancel-requested"} \cup Jobs!Terminal,
         NEW t \in Nat, NEW r \in Jobs!Instant, NEW c \in Jobs!Instant, NEW o \in Jobs!Instant,
         NEW m \in Jobs!Completion \cup {Nil}
  PROVE  Stepped(j, s, t, r, c, o, m) \in Jobs!Job
  BY ActiveFields DEF Stepped, Jobs!Job

LEMMA SuccessorIsStepped ==
  ASSUME NEW q, jobs[q.job] \in Jobs!Job, NEW s
  PROVE  LET j == jobs[q.job]
         IN  Jobs!Successor(q, s)
               = Stepped(j, s, q.now, j.cancelRequestedAt, j.cancelledAt, j.timedOutAt, j.completion)
<1>1. ASSUME NEW j \in Jobs!Job, NEW t, NEW n, n = [j EXCEPT !.revision = @ + 1, !.status = s,
               !.updatedAt = t]
      PROVE  n = Stepped(j, s, t, j.cancelRequestedAt, j.cancelledAt, j.timedOutAt, j.completion)
  BY <1>1 DEF Stepped, Jobs!Job
<1>2. QED
  BY <1>1 DEF Jobs!Successor

\* The store would read back what each of the four operations writes.
LEMMA CancelRequestIsValid ==
  ASSUME Jobs!JobConstants, NEW j, Active(j), j.status = "running", NEW t \in Nat,
         NEW n, n = Stepped(j, "cancel-requested", t, t, Nil, Nil, Nil)
  PROVE  n \in Jobs!Job /\ (j.updatedAt <= t => Jobs!Valid(n))
<1>1. n \in Jobs!Job
  BY SteppedIsJob DEF Jobs!Instant
<1>2. j.updatedAt <= t => Jobs!InOrder(n)
  BY ActiveFields, SteppedFields DEF Jobs!InOrder, Jobs!NotAfter, Jobs!JobConstants
<1>3. Jobs!TellsItsStatus(n)
  BY ActiveFields, SteppedFields DEF Jobs!TellsItsStatus, Jobs!JobConstants
<1>4. QED
  BY <1>1, <1>2, <1>3 DEF Jobs!Valid

LEMMA CancellationIsValid ==
  ASSUME Jobs!JobConstants, NEW j, Active(j), j.status = "cancel-requested", NEW t \in Nat,
         NEW n, n = Stepped(j, "cancelled", t, j.cancelRequestedAt, t, Nil, Nil)
  PROVE  n \in Jobs!Job /\ (j.updatedAt <= t => Jobs!Valid(n))
<1>0. j.cancelRequestedAt \in Nat
  BY ActiveFields DEF Jobs!Instant
<1>1. n \in Jobs!Job
  BY <1>0, SteppedIsJob DEF Jobs!Instant, Jobs!Terminal
<1>2. j.updatedAt <= t => Jobs!InOrder(n)
  BY <1>0, ActiveFields, SteppedFields DEF Jobs!InOrder, Jobs!NotAfter, Jobs!JobConstants
<1>3. Jobs!TellsItsStatus(n)
  BY <1>0, ActiveFields, SteppedFields DEF Jobs!TellsItsStatus, Jobs!JobConstants
<1>4. QED
  BY <1>1, <1>2, <1>3 DEF Jobs!Valid

LEMMA TimeoutIsValid ==
  ASSUME Jobs!JobConstants, NEW j, Active(j), NEW t \in Nat, j.deadline <= t,
         NEW n, n = Stepped(j, "timed-out", t, j.cancelRequestedAt, Nil, t, Nil)
  PROVE  n \in Jobs!Job /\ (j.updatedAt <= t => Jobs!Valid(n))
<1>1. n \in Jobs!Job
  BY ActiveFields, SteppedIsJob DEF Jobs!Instant, Jobs!Terminal
<1>2. j.updatedAt <= t => Jobs!InOrder(n)
  BY ActiveFields, SteppedFields DEF Jobs!InOrder, Jobs!NotAfter, Jobs!JobConstants, Jobs!Instant
<1>3. Jobs!TellsItsStatus(n)
  BY ActiveFields, SteppedFields DEF Jobs!TellsItsStatus, Jobs!JobConstants
<1>4. QED
  BY <1>1, <1>2, <1>3 DEF Jobs!Valid

LEMMA CompletionIsValid ==
  ASSUME Jobs!JobConstants, NEW j, Active(j), NEW t \in Nat,
         NEW m \in Jobs!Completion,
         m.at >= j.startedAt, m.at < j.deadline, m.at <= t,
         NEW s, s = IF m.answer.outcome = "error" THEN "failed" ELSE "completed",
         NEW n, n = Stepped(j, s, t, j.cancelRequestedAt, Nil, Nil, m)
  PROVE  n \in Jobs!Job /\ (j.updatedAt <= t => Jobs!Valid(n))
<1>0. m # Nil /\ m.at \in Nat
  BY DEF Jobs!JobConstants, Jobs!Completion
<1>1. n \in Jobs!Job
  BY ActiveFields, SteppedIsJob DEF Jobs!Instant, Jobs!Terminal
<1>2. j.updatedAt <= t => Jobs!InOrder(n)
  BY <1>0, ActiveFields, SteppedFields DEF Jobs!InOrder, Jobs!NotAfter, Jobs!JobConstants, Jobs!Instant
<1>3. Jobs!TellsItsStatus(n)
  BY <1>0, ActiveFields, SteppedFields DEF Jobs!TellsItsStatus, Jobs!JobConstants
<1>4. QED
  BY <1>1, <1>2, <1>3 DEF Jobs!Valid

-----------------------------------------------------------------------------
(* The invariant.                                                             *)

\* An instant that no caller's clock has still before it, if they agree.
Dated(n) == Jobs!ClocksAgree => \A p \in Caller : n <= Jobs!Now(p)

\* Every row can be read back, and is no younger than the clocks.
RowsAreValid == \A id \in JobId : jobs[id] # Nil => Jobs!Valid(jobs[id])
  /\ Dated(jobs[id].updatedAt)

\* Whoever asked about the row as it is did so after it was written, if the
\* clocks agree.
Follows(q) ==
  /\ Dated(q.now)
  /\ jobs[q.job] # Nil /\ q.expected <= jobs[q.job].revision
  /\ q.expected = jobs[q.job].revision /\ Jobs!ClocksAgree => jobs[q.job].updatedAt <= q.now
  /\ q.op = "complete" => q.completion # Nil

\* A write that would be accepted replaces an active row by its successor.
Replaces(w) ==
  /\ (Jobs!ClocksAgree => Jobs!Valid(w.next)) /\ Dated(w.next.updatedAt)
  /\ w.next.revision # 1 =>
       /\ jobs[w.job] # Nil /\ w.next.revision <= jobs[w.job].revision + 1
       /\ w.next.revision = jobs[w.job].revision + 1 => jobs[w.job].status \notin Jobs!Terminal

CallsFollow == \A p \in Caller :
  /\ requests[p] \in Jobs!Asked => Follows(requests[p])
  /\ requests[p] \in Jobs!Holding => Replaces(requests[p])

\* A result that was answered with ok is on record.
OnRecord == \A id \in JobId, a \in Answer : <<id, a>> \in acked =>
  /\ jobs[id] # Nil
  /\ jobs[id].completion # Nil
  /\ jobs[id].completion.answer.id = a.id /\ jobs[id].completion.answer.digest = a.digest

JobsHold == Jobs!TypeOK /\ RowsAreValid /\ CallsFollow /\ OnRecord

LEMMA Apart ==
  ASSUME Jobs!JobConstants, NEW p \in Caller, Jobs!TypeOK, requests[p] # Nil
  PROVE  /\ requests[p].step = "asked" => requests[p] \in Jobs!Asked /\ requests[p] \notin Jobs!Holding
         /\ requests[p].step = "holding" => requests[p] \in Jobs!Holding
              /\ requests[p] \notin Jobs!Asked
  BY DEF Jobs!TypeOK, Jobs!Asked, Jobs!Holding

LEMMA JobInitHolds == ASSUME Jobs!JobConstants, Jobs!Init PROVE JobsHold
<1>1. jobClock \in 1..MaxTime
  BY DEF Jobs!Init, Jobs!JobConstants
<1>2. Jobs!TypeOK
  BY <1>1 DEF Jobs!Init, Jobs!TypeOK
<1>3. Nil \notin Jobs!Asked /\ Nil \notin Jobs!Holding
  BY DEF Jobs!JobConstants
<1>4. CallsFollow
  BY <1>3 DEF Jobs!Init, CallsFollow
<1>5. QED
  BY <1>2, <1>4 DEF Jobs!Init, JobsHold, RowsAreValid, OnRecord

-----------------------------------------------------------------------------
(* One caller's call changes, and no row does.                                *)

LEMMA JobCallSetHolds ==
  ASSUME Jobs!JobConstants, JobsHold, NEW p \in Caller,
         NEW what \in Jobs!Asked \cup Jobs!Holding \cup {Nil},
         Jobs!Set(p, what), UNCHANGED <<jobClock, jobAhead, jobs>>,
         acked' \in SUBSET (JobId \X Answer), OnRecord',
         what \in Jobs!Asked => Follows(what),
         what \in Jobs!Holding => Replaces(what)
  PROVE  JobsHold'
<1>1. requests' = [requests EXCEPT ![p] = what] /\ Jobs!TypeOK
  BY DEF Jobs!Set, JobsHold
<1>2. Jobs!TypeOK'
  BY <1>1 DEF Jobs!TypeOK
<1>3. RowsAreValid'
  BY DEF JobsHold, RowsAreValid, Dated, Jobs!ClocksAgree, Jobs!Now
<1>4. CallsFollow'
  <2> SUFFICES ASSUME NEW z \in Caller
               PROVE  /\ requests'[z] \in Jobs!Asked => Follows(requests[z])'
                      /\ requests'[z] \in Jobs!Holding => Replaces(requests[z])'
    BY DEF CallsFollow
  <2>1. CASE z = p
    <3>1. requests'[z] = what
      BY <1>1, <2>1 DEF Jobs!TypeOK
    <3>2. QED
      BY <3>1 DEF Follows, Replaces, Dated, Jobs!ClocksAgree, Jobs!Now
  <2>2. CASE z # p
    <3>1. requests'[z] = requests[z]
      BY <1>1, <2>2 DEF Jobs!TypeOK
    <3>2. QED
      BY <3>1 DEF Follows, Replaces, JobsHold, CallsFollow, Dated, Jobs!ClocksAgree, Jobs!Now
  <2>3. QED
    BY <2>1, <2>2
<1>5. QED
  BY <1>2, <1>3, <1>4 DEF JobsHold

LEMMA AcksStay ==
  ASSUME JobsHold, UNCHANGED <<jobs, acked>>
  PROVE  OnRecord' /\ acked' \in SUBSET (JobId \X Answer)
  BY DEF JobsHold, OnRecord, Jobs!TypeOK

\* A caller's clock tells an instant that no clock has before it, if they agree.
LEMMA NowIsDated ==
  ASSUME Jobs!JobConstants, Jobs!TypeOK, NEW p \in Caller
  PROVE  Jobs!Now(p) \in Nat /\ Dated(Jobs!Now(p))
<1>1. jobClock \in Nat /\ \A z \in Caller : jobAhead[z] \in Nat
  BY DEF Jobs!TypeOK, Jobs!JobConstants
<1>2. QED
  BY <1>1 DEF Dated, Jobs!ClocksAgree, Jobs!Now

LEMMA JobTickHolds == ASSUME Jobs!JobConstants, JobsHold, Jobs!Tick PROVE JobsHold'
<1>1. Jobs!TypeOK /\ jobClock \in Nat /\ jobClock' = jobClock + 1 /\ UNCHANGED <<jobAhead, jobs,
        requests, acked>>
  BY DEF JobsHold, Jobs!TypeOK, Jobs!Tick
<1>0. ASSUME NEW n \in Nat, Dated(n)
      PROVE  Jobs!ClocksAgree => \A z \in Caller : n <= jobClock' + jobAhead[z]
  <2>1. \A z \in Caller : jobAhead[z] \in Nat
    BY <1>1 DEF Jobs!TypeOK, Jobs!JobConstants
  <2>2. QED
    BY <1>0, <1>1, <2>1 DEF Dated, Jobs!Now
<1>2. Jobs!TypeOK'
  BY <1>1 DEF Jobs!TypeOK, Jobs!Tick, Jobs!JobConstants
<1>3. RowsAreValid'
  <2> SUFFICES ASSUME NEW id \in JobId, jobs[id] # Nil
               PROVE  Jobs!Valid(jobs[id]) /\ Dated(jobs[id].updatedAt)'
    BY <1>1 DEF RowsAreValid
  <2>1. jobs[id].updatedAt \in Nat
    BY <1>1 DEF Jobs!TypeOK, Jobs!Job
  <2>2. QED
    BY <1>0, <1>1, <2>1 DEF JobsHold, RowsAreValid, Dated, Jobs!ClocksAgree, Jobs!Now
<1>4. CallsFollow'
  <2> SUFFICES ASSUME NEW z \in Caller
               PROVE  /\ requests[z] \in Jobs!Asked => Follows(requests[z])'
                      /\ requests[z] \in Jobs!Holding => Replaces(requests[z])'
    BY <1>1 DEF CallsFollow
  <2>1. ASSUME requests[z] \in Jobs!Asked PROVE Follows(requests[z])'
    <3>1. requests[z].now \in Nat
      BY <2>1 DEF Jobs!Asked
    <3>2. Follows(requests[z])
      BY <2>1 DEF JobsHold, CallsFollow
    <3>3. QED
      BY <1>0, <1>1, <3>1, <3>2 DEF Follows, Dated, Jobs!ClocksAgree, Jobs!Now
  <2>2. ASSUME requests[z] \in Jobs!Holding PROVE Replaces(requests[z])'
    <3>1. requests[z].next.updatedAt \in Nat
      BY <2>2 DEF Jobs!Holding, Jobs!Job
    <3>2. Replaces(requests[z])
      BY <2>2 DEF JobsHold, CallsFollow
    <3>3. QED
      BY <1>0, <1>1, <3>1, <3>2 DEF Replaces, Dated, Jobs!ClocksAgree, Jobs!Now
  <2>3. QED
    BY <2>1, <2>2
<1>5. QED
  BY <1>1, <1>2, <1>3, <1>4 DEF JobsHold, OnRecord

LEMMA StartHolds ==
  ASSUME Jobs!JobConstants, JobsHold, NEW p \in Caller, NEW id \in JobId, NEW c \in Authority,
         NEW m \in Mode, NEW d \in 1..MaxTime, Jobs!Start(p, id, c, m, d)
  PROVE  JobsHold'
<1> DEFINE next == [revision |-> 1, status |-> "running", connection |-> c.connection, mode |-> m,
                    deadline |-> d, startedAt |-> Jobs!Now(p), updatedAt |-> Jobs!Now(p),
                    cancelRequestedAt |-> Nil, cancelledAt |-> Nil, timedOutAt |-> Nil,
                    completion |-> Nil]
           w == [step |-> "holding", job |-> id, next |-> next]
<1>1. Jobs!Now(p) \in Nat /\ d \in Nat /\ Jobs!Now(p) < d /\ c.connection \in Connection
  BY NowIsDated DEF Jobs!JobConstants, JobsHold, Jobs!Start
<1>2. next \in Jobs!Job
  BY <1>1 DEF Jobs!Job, Jobs!Instant, Jobs!Terminal
<1>3. /\ next.revision = 1 /\ next.status = "running" /\ next.deadline = d
      /\ next.startedAt = Jobs!Now(p) /\ next.updatedAt = Jobs!Now(p) /\ next.cancelRequestedAt = Nil
      /\ next.cancelledAt = Nil /\ next.timedOutAt = Nil /\ next.completion = Nil
  OBVIOUS
<1>4. Jobs!Set(p, w) /\ UNCHANGED <<jobClock, jobAhead, jobs, acked>>
  BY DEF Jobs!Start
<1> HIDE DEF next
<1>5. Jobs!Valid(next)
  <2>1. Jobs!InOrder(next)
    BY <1>1, <1>3 DEF Jobs!InOrder, Jobs!NotAfter
  <2>2. Jobs!TellsItsStatus(next)
    BY <1>3 DEF Jobs!TellsItsStatus
  <2>3. QED
    BY <2>1, <2>2 DEF Jobs!Valid
<1>6. w \in Jobs!Holding /\ w.next = next /\ w \notin Jobs!Asked
  BY <1>2 DEF Jobs!Holding, Jobs!Asked
<1> HIDE DEF w
<1>7. Replaces(w)
  BY <1>1, <1>3, <1>5, <1>6, NowIsDated DEF Replaces, JobsHold
<1>8. QED
  BY <1>4, <1>6, <1>7, JobCallSetHolds, AcksStay

LEMMA AskHolds ==
  ASSUME Jobs!JobConstants, JobsHold, NEW p \in Caller, NEW id \in JobId, NEW op \in Jobs!Operation,
         NEW e \in Nat, NEW c \in Authority \cup {Nil}, NEW m \in Jobs!Completion \cup {Nil},
         op = "complete" => m # Nil, Jobs!Ask(p, id, op, e, c, m)
  PROVE  JobsHold'
<1> DEFINE q == [step |-> "asked", op |-> op, job |-> id, now |-> Jobs!Now(p), expected |-> e,
                 authority |-> c, completion |-> m]
<1>1. Jobs!Now(p) \in Nat /\ jobs[id] # Nil /\ e <= jobs[id].revision
      /\ Dated(jobs[id].updatedAt) /\ Dated(Jobs!Now(p))
  BY NowIsDated DEF JobsHold, Jobs!Ask, RowsAreValid
<1>2. Jobs!Set(p, q) /\ UNCHANGED <<jobClock, jobAhead, jobs, acked>>
  BY DEF Jobs!Ask
<1>3. q \in Jobs!Asked /\ q \notin Jobs!Holding
  BY <1>1 DEF Jobs!Asked, Jobs!Holding
<1>4. q.now = Jobs!Now(p) /\ q.job = id /\ q.expected = e /\ q.op = op /\ q.completion = m
  OBVIOUS
<1> HIDE DEF q
<1>5. Follows(q)
  BY <1>1, <1>4 DEF Follows, Dated
<1>6. QED
  BY <1>2, <1>3, <1>5, JobCallSetHolds, AcksStay

LEMMA RequestHolds ==
  ASSUME Jobs!JobConstants, JobsHold, NEW p \in Caller, NEW id \in JobId, NEW e \in 1..MaxRevision,
         Jobs!Request(p, id, e)
  PROVE  JobsHold'
<1>1. CASE \E c \in Authority : Jobs!Ask(p, id, "requestCancel", e, c, Nil)
  BY <1>1, AskHolds DEF Jobs!Operation
<1>2. CASE Jobs!Ask(p, id, "confirmCancelled", e, Nil, Nil)
  BY <1>2, AskHolds DEF Jobs!Operation
<1>3. CASE Jobs!Ask(p, id, "timeout", e, Nil, Nil)
  BY <1>3, AskHolds DEF Jobs!Operation
<1>4. CASE \E a \in Answer, t \in 1..MaxTime :
             Jobs!Ask(p, id, "complete", e, Nil, [answer |-> a, at |-> t])
  <2>1. PICK a \in Answer, t \in 1..MaxTime :
               Jobs!Ask(p, id, "complete", e, Nil, [answer |-> a, at |-> t])
    BY <1>4
  <2> DEFINE m == [answer |-> a, at |-> t]
  <2>2. m \in Jobs!Completion /\ m # Nil
    BY DEF Jobs!Completion, Jobs!JobConstants
  <2> HIDE DEF m
  <2>3. QED
    BY <2>1, <2>2, AskHolds DEF Jobs!Operation, m
<1>5. QED
  BY <1>1, <1>2, <1>3, <1>4 DEF Jobs!Request

-----------------------------------------------------------------------------
(* A caller that has asked reads the row.                                     *)

\* The row it acts on is the one it asked about, written no later than it asked
\* if the clocks agree.
LEMMA AskedFacts ==
  ASSUME Jobs!JobConstants, JobsHold, NEW p \in Caller, requests[p] # Nil, requests[p].step = "asked",
         Jobs!Expected(requests[p]), jobs[requests[p].job].status \notin Jobs!Terminal
  PROVE  /\ Active(jobs[requests[p].job])
         /\ Jobs!ClocksAgree => jobs[requests[p].job].updatedAt <= requests[p].now
         /\ requests[p].now \in Nat /\ Dated(requests[p].now) /\ requests[p].job \in JobId
         /\ requests[p].op = "complete" => requests[p].completion \in Jobs!Completion
<1>1. requests[p] \in Jobs!Asked
  BY Apart DEF JobsHold
<1>2. Follows(requests[p]) /\ requests[p].now \in Nat /\ requests[p].job \in JobId
      /\ requests[p].completion \in Jobs!Completion \cup {Nil}
  BY <1>1 DEF JobsHold, CallsFollow, Jobs!Asked
<1>3. jobs[requests[p].job] \in Jobs!Job /\ Jobs!Valid(jobs[requests[p].job])
  BY <1>2 DEF JobsHold, Jobs!TypeOK, RowsAreValid, Follows
<1>4. QED
  BY <1>2, <1>3 DEF Active, Follows, Jobs!Expected

\* The successor of an active row, at the instant of the request, and valid if
\* the clocks agree, is held.
LEMMA JobHoldHolds ==
  ASSUME Jobs!JobConstants, JobsHold, NEW p \in Caller, requests[p] # Nil, requests[p].step = "asked",
         Jobs!Expected(requests[p]), jobs[requests[p].job].status \notin Jobs!Terminal,
         NEW next \in Jobs!Job, Jobs!ClocksAgree => Jobs!Valid(next), next.updatedAt = requests[p].now,
         next.revision = jobs[requests[p].job].revision + 1, Jobs!Hold(p, next)
  PROVE  JobsHold'
<1> DEFINE w == [step |-> "holding", job |-> requests[p].job, next |-> next]
<1>1. /\ Active(jobs[requests[p].job]) /\ requests[p].now \in Nat /\ Dated(requests[p].now)
      /\ requests[p].job \in JobId
  BY AskedFacts
<1>2. Jobs!Set(p, w) /\ UNCHANGED <<jobClock, jobAhead, jobs, acked>>
  BY DEF Jobs!Hold
<1>3. w \in Jobs!Holding /\ w \notin Jobs!Asked /\ w.next = next /\ w.job = requests[p].job
  BY <1>1 DEF Jobs!Holding, Jobs!Asked
<1> HIDE DEF w
<1>4. jobs[requests[p].job] # Nil /\ jobs[requests[p].job].revision \in Nat
  BY <1>1, ActiveFields DEF Active, Jobs!JobConstants
<1>5. Replaces(w)
  BY <1>1, <1>3, <1>4 DEF Replaces
<1>6. QED
  BY <1>2, <1>3, <1>5, JobCallSetHolds, AcksStay

LEMMA RequestCancelHolds ==
  ASSUME Jobs!JobConstants, JobsHold, NEW p \in Caller, Jobs!RequestCancel(p)
  PROVE  JobsHold'
<1> DEFINE q == requests[p]
           j == jobs[q.job]
           n == Stepped(j, "cancel-requested", q.now, q.now, Nil, Nil, Nil)
<1>1. /\ q # Nil /\ q.step = "asked" /\ Jobs!Expected(q) /\ j.status = "running"
      /\ Jobs!Hold(p, [Jobs!Successor(q, "cancel-requested") EXCEPT !.cancelRequestedAt = q.now])
  BY DEF Jobs!RequestCancel, Jobs!Asks
<1>2. Active(j) /\ (Jobs!ClocksAgree => j.updatedAt <= q.now) /\ q.now \in Nat
  BY <1>1, AskedFacts DEF Jobs!Terminal
<1>3. [Jobs!Successor(q, "cancel-requested") EXCEPT !.cancelRequestedAt = q.now] = n
  <2>1. Jobs!Successor(q, "cancel-requested") = Stepped(j, "cancel-requested", q.now,
          j.cancelRequestedAt, Nil, Nil, Nil)
    BY <1>2, ActiveFields, SuccessorIsStepped DEF Active
  <2> HIDE DEF q, j
  <2>2. QED
    BY <2>1 DEF Stepped
<1>4. /\ n \in Jobs!Job /\ (Jobs!ClocksAgree => Jobs!Valid(n))
      /\ n.updatedAt = q.now /\ n.revision = j.revision + 1
  BY <1>1, <1>2, CancelRequestIsValid, SteppedFields
<1> HIDE DEF n
<1>5. QED
  BY <1>1, <1>3, <1>4, JobHoldHolds DEF Jobs!Terminal

LEMMA ConfirmCancelledHolds ==
  ASSUME Jobs!JobConstants, JobsHold, NEW p \in Caller, Jobs!ConfirmCancelled(p)
  PROVE  JobsHold'
<1> DEFINE q == requests[p]
           j == jobs[q.job]
           n == Stepped(j, "cancelled", q.now, j.cancelRequestedAt, q.now, Nil, Nil)
<1>1. /\ q # Nil /\ q.step = "asked" /\ Jobs!Expected(q) /\ j.status = "cancel-requested"
      /\ Jobs!Hold(p, [Jobs!Successor(q, "cancelled") EXCEPT !.cancelledAt = q.now])
  BY DEF Jobs!ConfirmCancelled, Jobs!Asks
<1>2. Active(j) /\ (Jobs!ClocksAgree => j.updatedAt <= q.now) /\ q.now \in Nat
  BY <1>1, AskedFacts DEF Jobs!Terminal
<1>3. [Jobs!Successor(q, "cancelled") EXCEPT !.cancelledAt = q.now] = n
  <2>1. Jobs!Successor(q, "cancelled") = Stepped(j, "cancelled", q.now, j.cancelRequestedAt, Nil,
          Nil, Nil)
    BY <1>2, ActiveFields, SuccessorIsStepped DEF Active
  <2> HIDE DEF q, j
  <2>2. QED
    BY <2>1 DEF Stepped
<1>4. /\ n \in Jobs!Job /\ (Jobs!ClocksAgree => Jobs!Valid(n))
      /\ n.updatedAt = q.now /\ n.revision = j.revision + 1
  BY <1>1, <1>2, CancellationIsValid, SteppedFields
<1> HIDE DEF n
<1>5. QED
  BY <1>1, <1>3, <1>4, JobHoldHolds DEF Jobs!Terminal

LEMMA TimeOutHolds ==
  ASSUME Jobs!JobConstants, JobsHold, NEW p \in Caller, Jobs!TimeOut(p)
  PROVE  JobsHold'
<1> DEFINE q == requests[p]
           j == jobs[q.job]
           n == Stepped(j, "timed-out", q.now, j.cancelRequestedAt, Nil, q.now, Nil)
<1>1. /\ q # Nil /\ q.step = "asked" /\ Jobs!Expected(q) /\ j.status \notin Jobs!Terminal
      /\ q.now >= j.deadline
      /\ Jobs!Hold(p, [Jobs!Successor(q, "timed-out") EXCEPT !.timedOutAt = q.now])
  BY DEF Jobs!TimeOut, Jobs!Asks
<1>2. Active(j) /\ (Jobs!ClocksAgree => j.updatedAt <= q.now) /\ q.now \in Nat
  BY <1>1, AskedFacts
<1>3. [Jobs!Successor(q, "timed-out") EXCEPT !.timedOutAt = q.now] = n
  <2>1. Jobs!Successor(q, "timed-out") = Stepped(j, "timed-out", q.now, j.cancelRequestedAt, Nil,
          Nil, Nil)
    BY <1>2, ActiveFields, SuccessorIsStepped DEF Active
  <2> HIDE DEF q, j
  <2>2. QED
    BY <2>1 DEF Stepped
<1>4. /\ n \in Jobs!Job /\ (Jobs!ClocksAgree => Jobs!Valid(n))
      /\ n.updatedAt = q.now /\ n.revision = j.revision + 1
  <2>1. j.deadline <= q.now
    BY <1>1, <1>2, ActiveFields
  <2>2. QED
    BY <1>2, <2>1, TimeoutIsValid, SteppedFields
<1> HIDE DEF n
<1>5. QED
  BY <1>1, <1>3, <1>4, JobHoldHolds

LEMMA CompleteHolds ==
  ASSUME Jobs!JobConstants, JobsHold, NEW p \in Caller, Jobs!Complete(p)
  PROVE  JobsHold'
<1> DEFINE q == requests[p]
           j == jobs[q.job]
           m == q.completion
           s == IF m.answer.outcome = "error" THEN "failed" ELSE "completed"
           n == Stepped(j, s, q.now, j.cancelRequestedAt, Nil, Nil, m)
<1>1. /\ q # Nil /\ q.step = "asked" /\ q.op = "complete" /\ Jobs!Expected(q)
           /\ j.status \notin Jobs!Terminal
      /\ m.at >= j.startedAt /\ m.at <= q.now /\ m.at < j.deadline
      /\ Jobs!Hold(p, [Jobs!Successor(q, s) EXCEPT !.completion = m])
  BY DEF Jobs!Complete, Jobs!Asks
<1>2. Active(j) /\ (Jobs!ClocksAgree => j.updatedAt <= q.now) /\ q.now \in Nat /\ m \in Jobs!Completion
  BY <1>1, AskedFacts
<1>3. [Jobs!Successor(q, s) EXCEPT !.completion = m] = n
  <2>1. Jobs!Successor(q, s) = Stepped(j, s, q.now, j.cancelRequestedAt, Nil, Nil, Nil)
    BY <1>2, ActiveFields, SuccessorIsStepped DEF Active
  <2> HIDE DEF q, j, s, m
  <2>2. QED
    BY <2>1 DEF Stepped
<1>4. /\ n \in Jobs!Job /\ (Jobs!ClocksAgree => Jobs!Valid(n))
      /\ n.updatedAt = q.now /\ n.revision = j.revision + 1
  BY <1>1, <1>2, CompletionIsValid, SteppedFields
<1> HIDE DEF n, s
<1>5. QED
  BY <1>1, <1>3, <1>4, JobHoldHolds

-----------------------------------------------------------------------------
(* A request is answered without a write, or the write takes place.           *)

LEMMA ReplayHolds ==
  ASSUME Jobs!JobConstants, JobsHold, NEW p \in Caller, Jobs!AcknowledgeReplay(p)
  PROVE  JobsHold'
<1> DEFINE q == requests[p]
           a == q.completion.answer
<1>1. /\ q # Nil /\ q.step = "asked" /\ q.op = "complete" /\ Jobs!IsReplay(q)
      /\ acked' = acked \cup {<<q.job, a>>} /\ Jobs!Set(p, Nil) /\ UNCHANGED <<jobClock, jobAhead, jobs>>
  BY DEF Jobs!AcknowledgeReplay, Jobs!Asks
<1>2. q \in Jobs!Asked
  BY <1>1, Apart DEF JobsHold
<1>3. Follows(q)
  BY <1>2 DEF JobsHold, CallsFollow
<1>4. jobs[q.job] # Nil /\ q.job \in JobId /\ a \in Answer
  BY <1>1, <1>2, <1>3 DEF Follows, Jobs!Asked, Jobs!Completion
<1>5. /\ jobs[q.job].completion # Nil
      /\ jobs[q.job].completion.answer.id = a.id /\ jobs[q.job].completion.answer.digest = a.digest
  BY <1>1 DEF Jobs!IsReplay
<1> HIDE DEF q, a
<1>6. acked' \in SUBSET (JobId \X Answer)
  BY <1>1, <1>4 DEF JobsHold, Jobs!TypeOK
<1>7. OnRecord'
  <2> SUFFICES ASSUME NEW id \in JobId, NEW b \in Answer, <<id, b>> \in acked'
               PROVE  /\ jobs[id] # Nil /\ jobs[id].completion # Nil
                      /\ jobs[id].completion.answer.id = b.id
                      /\ jobs[id].completion.answer.digest = b.digest
    BY <1>1 DEF OnRecord
  <2>1. CASE <<id, b>> \in acked
    BY <2>1 DEF JobsHold, OnRecord
  <2>2. CASE id = q.job /\ b = a
    BY <1>4, <1>5, <2>2
  <2>3. QED
    BY <1>1, <2>1, <2>2
<1>8. Nil \notin Jobs!Asked /\ Nil \notin Jobs!Holding
  BY DEF Jobs!JobConstants
<1>9. QED
  BY <1>1, <1>6, <1>7, <1>8, JobCallSetHolds

LEMMA RefuseHolds ==
  ASSUME Jobs!JobConstants, JobsHold, NEW p \in Caller, Jobs!Refuse(p)
  PROVE  JobsHold'
<1>1. Jobs!Set(p, Nil) /\ UNCHANGED <<jobClock, jobAhead, jobs, acked>>
  BY DEF Jobs!Refuse
<1>2. Nil \notin Jobs!Asked /\ Nil \notin Jobs!Holding
  BY DEF Jobs!JobConstants
<1>3. QED
  BY <1>1, <1>2, JobCallSetHolds, AcksStay

\* What an accepted write finds, and what it leaves.
LEMMA CommitFacts ==
  ASSUME Jobs!JobConstants, JobsHold, NEW p \in Caller, Jobs!Commit(p)
  PROVE  /\ requests[p] \in Jobs!Holding /\ Replaces(requests[p])
         /\ requests[p].job \in JobId /\ requests[p].next \in Jobs!Job
         /\ Jobs!Accepts(jobs, requests[p].job, requests[p].next) =>
              \/ jobs[requests[p].job] = Nil /\ requests[p].next.revision = 1
              \/ /\ jobs[requests[p].job] \in Jobs!Job
                      /\ jobs[requests[p].job].status \notin Jobs!Terminal
                 /\ jobs[requests[p].job].completion = Nil
                 /\ requests[p].next.revision = jobs[requests[p].job].revision + 1
<1> DEFINE w == requests[p]
           j == jobs[w.job]
<1>1. w \in Jobs!Holding
  BY Apart DEF Jobs!Commit, JobsHold
<1>2. Replaces(w) /\ w.job \in JobId /\ w.next \in Jobs!Job
  BY <1>1 DEF JobsHold, CallsFollow, Jobs!Holding
<1>3. j \in Jobs!Job \cup {Nil} /\ w.next.revision \in Nat \ {0}
  BY <1>2 DEF JobsHold, Jobs!TypeOK, Jobs!Job
<1>4. CASE w.next.revision = 1
  BY <1>1, <1>2, <1>4 DEF Jobs!Accepts
<1>5. CASE w.next.revision # 1
  <2>1. SUFFICES ASSUME Jobs!Accepts(jobs, w.job, w.next)
                 PROVE  /\ j \in Jobs!Job /\ j.status \notin Jobs!Terminal /\ j.completion = Nil
                        /\ w.next.revision = j.revision + 1
    BY <1>1, <1>2
  <2>2. j # Nil /\ j.revision = w.next.revision - 1
    BY <1>5, <2>1 DEF Jobs!Accepts, Jobs!Matches
  <2>3. j \in Jobs!Job /\ Jobs!Valid(j) /\ j.revision \in Nat
    BY <1>2, <1>3, <2>2 DEF JobsHold, RowsAreValid, Jobs!Job
  <2>4. w.next.revision = j.revision + 1
    BY <1>3, <2>2, <2>3
  <2>5. j.status \notin Jobs!Terminal
    BY <1>2, <1>5, <2>4 DEF Replaces
  <2>6. j.completion = Nil
    BY <2>3, <2>5 DEF Jobs!Valid, Jobs!TellsItsStatus, Jobs!Terminal
  <2>7. QED
    BY <2>3, <2>4, <2>5, <2>6
<1>6. QED
  BY <1>4, <1>5

LEMMA CommitHolds ==
  ASSUME Jobs!JobConstants, JobsHold, NEW p \in Caller, Jobs!Commit(p)
  PROVE  JobsHold'
<1> DEFINE w == requests[p]
           next == w.next
           finished == Jobs!Valid(next) /\ Jobs!Accepts(jobs, w.job, next)
<1>1. /\ jobs' = IF finished THEN [jobs EXCEPT ![w.job] = next] ELSE jobs
      /\ acked' = IF finished /\ next.completion # Nil
                  THEN acked \cup {<<w.job, next.completion.answer>>} ELSE acked
      /\ Jobs!Set(p, Nil) /\ UNCHANGED <<jobClock, jobAhead>>
  BY DEF Jobs!Commit
<1>2. /\ w \in Jobs!Holding /\ Replaces(w) /\ w.job \in JobId /\ next \in Jobs!Job
      /\ Jobs!Accepts(jobs, w.job, next) =>
           \/ jobs[w.job] = Nil /\ next.revision = 1
           \/ /\ jobs[w.job] \in Jobs!Job /\ jobs[w.job].status \notin Jobs!Terminal
              /\ jobs[w.job].completion = Nil
              /\ next.revision = jobs[w.job].revision + 1
  BY CommitFacts
<1>3. Jobs!TypeOK /\ Nil \notin Jobs!Asked /\ Nil \notin Jobs!Holding /\ Nil \notin Jobs!Job
  BY DEF JobsHold, Jobs!JobConstants
<1> HIDE DEF w
<1>4. CASE ~finished
  <2>1. UNCHANGED <<jobs, acked>>
    BY <1>1, <1>4
  <2>2. QED
    BY <1>1, <1>3, <2>1, JobCallSetHolds, AcksStay
<1>5. CASE finished
  <2>1. jobs' = [jobs EXCEPT ![w.job] = next] /\ jobs \in [JobId -> Jobs!Job \cup {Nil}]
    BY <1>1, <1>3, <1>5 DEF Jobs!TypeOK
  <2>2. jobs'[w.job] = next /\ \A id \in JobId : id # w.job => jobs'[id] = jobs[id]
    BY <1>2, <2>1
  <2>3. next # Nil /\ next.revision \in Nat /\ Jobs!Valid(next) /\ Dated(next.updatedAt)
    BY <1>2, <1>3, <1>5 DEF Replaces, Jobs!Job
  <2>4. next.completion # Nil => next.completion.answer \in Answer
    BY <1>2 DEF Jobs!Job, Jobs!Completion
  <2> HIDE DEF next
  <2>5. Jobs!TypeOK'
    <3>1. acked' \in SUBSET (JobId \X Answer)
      BY <1>1, <1>2, <1>3, <2>4 DEF Jobs!TypeOK
    <3>2. jobs' \in [JobId -> Jobs!Job \cup {Nil}]
      BY <1>2, <2>1
    <3>3. requests' \in [Caller -> Jobs!Asked \cup Jobs!Holding \cup {Nil}]
      BY <1>1, <1>3 DEF Jobs!Set, Jobs!TypeOK
    <3>4. QED
      BY <1>1, <1>3, <3>1, <3>2, <3>3 DEF Jobs!TypeOK
  <2>6. RowsAreValid'
    BY <1>1, <2>2, <2>3 DEF JobsHold, RowsAreValid, Dated, Jobs!ClocksAgree, Jobs!Now
  <2>7. OnRecord'
    <3> SUFFICES ASSUME NEW id \in JobId, NEW a \in Answer, <<id, a>> \in acked'
                 PROVE  /\ jobs'[id] # Nil /\ jobs'[id].completion # Nil
                        /\ jobs'[id].completion.answer.id = a.id
                        /\ jobs'[id].completion.answer.digest = a.digest
      BY DEF OnRecord
    <3>1. CASE <<id, a>> \in acked
      <4>1. jobs[id] # Nil /\ jobs[id].completion # Nil
        BY <3>1 DEF JobsHold, OnRecord
      <4>2. id # w.job
        BY <1>2, <1>5, <4>1
      <4>3. QED
        BY <2>2, <3>1, <4>2 DEF JobsHold, OnRecord
    <3>2. CASE id = w.job /\ next.completion # Nil /\ a = next.completion.answer
      BY <2>2, <2>3, <3>2
    <3>3. QED
      BY <1>1, <3>1, <3>2
  <2>8. CallsFollow'
    <3> SUFFICES ASSUME NEW z \in Caller, requests'[z] = requests[z]
                 PROVE  /\ requests[z] \in Jobs!Asked => Follows(requests[z])'
                        /\ requests[z] \in Jobs!Holding => Replaces(requests[z])'
      BY <1>1, <1>3 DEF CallsFollow, Jobs!Set, Jobs!TypeOK
    <3>1. ASSUME requests[z] \in Jobs!Asked PROVE Follows(requests[z])'
      <4>1. Follows(requests[z]) /\ requests[z].job \in JobId /\ requests[z].expected \in Nat
        BY <3>1 DEF JobsHold, CallsFollow, Jobs!Asked
      <4>2. CASE requests[z].job # w.job
        BY <1>1, <2>2, <4>1, <4>2 DEF Follows,
             Dated, Jobs!ClocksAgree, Jobs!Now
      <4>3. CASE requests[z].job = w.job
        <5>1. jobs[w.job] \in Jobs!Job /\ next.revision = jobs[w.job].revision + 1
          BY <1>2, <1>5, <4>1, <4>3 DEF Follows
        <5>2. jobs[w.job].revision \in Nat
          BY <5>1 DEF Jobs!Job
        <5>3. requests[z].expected < next.revision
          BY <4>1, <4>3, <5>1, <5>2 DEF Follows
        <5>4. QED
          BY <1>1, <2>2, <2>3, <4>1, <4>3, <5>3 DEF Follows,
             Dated, Jobs!ClocksAgree, Jobs!Now
      <4>4. QED
        BY <4>2, <4>3
    <3>2. ASSUME requests[z] \in Jobs!Holding PROVE Replaces(requests[z])'
      <4>1. /\ Replaces(requests[z]) /\ requests[z].job \in JobId
                 /\ requests[z].next.revision \in Nat \ {0}
        BY <3>2 DEF JobsHold, CallsFollow, Jobs!Holding, Jobs!Job
      <4>2. CASE requests[z].job # w.job
        BY <1>1, <2>2, <4>1, <4>2 DEF Replaces,
             Dated, Jobs!ClocksAgree, Jobs!Now
      <4>3. CASE requests[z].job = w.job /\ requests[z].next.revision = 1
        BY <1>1, <4>1, <4>3 DEF Replaces,
             Dated, Jobs!ClocksAgree, Jobs!Now
      <4>4. CASE requests[z].job = w.job /\ requests[z].next.revision # 1
        <5>1. jobs[w.job] \in Jobs!Job /\ next.revision = jobs[w.job].revision + 1
          BY <1>2, <1>5, <4>1, <4>4 DEF Replaces
        <5>2. jobs[w.job].revision \in Nat
          BY <5>1 DEF Jobs!Job
        <5>3. requests[z].next.revision <= next.revision
          BY <4>1, <4>4, <5>1, <5>2 DEF Replaces
        <5>4. QED
          BY <1>1, <2>2, <2>3, <4>1, <4>4, <5>3 DEF Replaces,
             Dated, Jobs!ClocksAgree, Jobs!Now
      <4>5. QED
        BY <4>2, <4>3, <4>4
    <3>3. QED
      BY <3>1, <3>2
  <2>9. QED
    BY <2>5, <2>6, <2>7, <2>8 DEF JobsHold
<1>6. QED
  BY <1>4, <1>5

LEMMA JobNextHolds == ASSUME Jobs!JobConstants, JobsHold, [Jobs!Next]_(Jobs!vars) PROVE JobsHold'
<1>1. CASE UNCHANGED Jobs!vars
  BY <1>1 DEF Jobs!vars, JobsHold, Jobs!TypeOK, RowsAreValid, CallsFollow, Follows, Replaces, OnRecord,
            Dated, Jobs!ClocksAgree, Jobs!Now
<1>2. CASE \E p \in Caller, id \in JobId, c \in Authority, m \in Mode, d \in 1..MaxTime :
             Jobs!Start(p, id, c, m, d)
  BY <1>2, StartHolds
<1>3. CASE \E p \in Caller, id \in JobId, e \in 1..MaxRevision : Jobs!Request(p, id, e)
  BY <1>3, RequestHolds
<1>4. CASE \E p \in Caller : Jobs!Serve(p)
  BY <1>4, RequestCancelHolds, ConfirmCancelledHolds, TimeOutHolds, CompleteHolds, ReplayHolds,
     RefuseHolds, CommitHolds DEF Jobs!Serve
<1>5. CASE Jobs!Tick
  BY <1>5, JobTickHolds
<1>6. QED
  BY <1>1, <1>2, <1>3, <1>4, <1>5 DEF Jobs!Next

LEMMA OnlyCommitWrites ==
  ASSUME [Jobs!Next]_(Jobs!vars), jobs' # jobs
  PROVE  \E p \in Caller : Jobs!Commit(p)
<1>1. ASSUME NEW p \in Caller, NEW id \in JobId, NEW c \in Authority, NEW m \in Mode,
             NEW d \in 1..MaxTime, Jobs!Start(p, id, c, m, d)
      PROVE  FALSE
  BY <1>1 DEF Jobs!Start
<1>2. ASSUME NEW p \in Caller, NEW id \in JobId, NEW e \in 1..MaxRevision, Jobs!Request(p, id, e)
      PROVE  FALSE
  BY <1>2 DEF Jobs!Request, Jobs!Ask
<1>3. ASSUME NEW p \in Caller, Jobs!Serve(p), ~Jobs!Commit(p) PROVE FALSE
  <2>1. CASE Jobs!RequestCancel(p) \/ Jobs!ConfirmCancelled(p)
    BY <2>1 DEF Jobs!RequestCancel, Jobs!ConfirmCancelled, Jobs!Hold
  <2>2. CASE Jobs!TimeOut(p) \/ Jobs!Complete(p)
    BY <2>2 DEF Jobs!TimeOut, Jobs!Complete, Jobs!Hold
  <2>3. CASE Jobs!AcknowledgeReplay(p) \/ Jobs!Refuse(p)
    BY <2>3 DEF Jobs!AcknowledgeReplay, Jobs!Refuse
  <2>4. QED
    BY <1>3, <2>1, <2>2, <2>3 DEF Jobs!Serve
<1>4. ~Jobs!Tick /\ ~UNCHANGED Jobs!vars
  BY DEF Jobs!Tick, Jobs!vars
<1>5. QED
  BY <1>1, <1>2, <1>3, <1>4 DEF Jobs!Next

-----------------------------------------------------------------------------
(* The theorems.                                                              *)

\* However callers race and their clocks differ, a row stays readable, what is
\* held of it would replace it only while it is active, and what was answered is
\* on record.
THEOREM JobsHoldAlways ==
  ASSUME Jobs!JobConstants
  PROVE  Jobs!Spec => []JobsHold
<1>1. Jobs!Init => JobsHold
  BY JobInitHolds
<1>2. JobsHold /\ [Jobs!Next]_(Jobs!vars) => JobsHold'
  BY JobNextHolds
<1>3. QED
  BY <1>1, <1>2, PTL DEF Jobs!Spec

\* Rows, calls and acknowledgements keep their types.
THEOREM JobTypeCorrect ==
  ASSUME Jobs!JobConstants
  PROVE  Jobs!Spec => []Jobs!TypeOK
<1>1. JobsHold => Jobs!TypeOK
  BY DEF JobsHold
<1>2. QED
  BY <1>1, JobsHoldAlways, PTL

\* Whatever is delivered again, late or by a rival, a provider is told ok for
\* the one result on record.
THEOREM OneResultAlways ==
  ASSUME Jobs!JobConstants
  PROVE  Jobs!Spec => []Jobs!OneResult
<1>1. JobsHold => Jobs!OneResult
  BY DEF JobsHold, OnRecord, Jobs!OneResult
<1>2. QED
  BY <1>1, JobsHoldAlways, PTL

\* Though a caller's instant may be older than the row it reads, no record is
\* made that the store's parser throws for, if the callers' clocks agree.
THEOREM NoWriteEverThrows ==
  ASSUME Jobs!JobConstants
  PROVE  Jobs!Spec => []Jobs!NoWriteThrows
<1>1. JobsHold => Jobs!NoWriteThrows
  BY Apart DEF JobsHold, CallsFollow, Replaces, Jobs!NoWriteThrows
<1>2. QED
  BY <1>1, JobsHoldAlways, PTL

\* Both together, as the run of the application runtime checks them: what
\* completions, cancellations and timeouts may do to one job.
THEOREM JobsAreSoundAlways ==
  ASSUME Jobs!JobConstants
  PROVE  Jobs!Spec => []Jobs!JobsAreSound
<1>1. Jobs!OneResult /\ Jobs!NoWriteThrows => Jobs!JobsAreSound
  BY DEF Jobs!JobsAreSound
<1>2. QED
  BY <1>1, OneResultAlways, NoWriteEverThrows, PTL

\* A job that was completed, cancelled or timed out stays as it ended.
THEOREM EndedStays ==
  ASSUME Jobs!JobConstants
  PROVE  Jobs!Spec => Jobs!EndedIsFinal
<1> DEFINE Kept == \A id \in JobId : jobs[id] # Nil /\ jobs[id].status \in Jobs!Terminal
                     => jobs'[id] = jobs[id]
<1>1. JobsHold /\ [Jobs!Next]_(Jobs!vars) => [Kept]_jobs
  <2> SUFFICES ASSUME JobsHold, [Jobs!Next]_(Jobs!vars), jobs' # jobs PROVE Kept
    OBVIOUS
  <2>1. PICK p \in Caller : Jobs!Commit(p)
    BY OnlyCommitWrites
  <2>2. jobs' = [jobs EXCEPT ![requests[p].job] = requests[p].next] /\ Jobs!Accepts(jobs,
          requests[p].job, requests[p].next)
    BY <2>1 DEF Jobs!Commit
  <2>3. requests[p].job \in JobId /\ (jobs[requests[p].job] = Nil
          \/ jobs[requests[p].job].status \notin Jobs!Terminal)
    BY <2>1, <2>2, CommitFacts
  <2>4. QED
    BY <2>2, <2>3 DEF JobsHold, Jobs!TypeOK
<1>2. QED
  BY <1>1, JobsHoldAlways, PTL DEF Jobs!Spec, Jobs!EndedIsFinal
=============================================================================

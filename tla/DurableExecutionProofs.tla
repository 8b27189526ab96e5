----------------------- MODULE DurableExecutionProofs -----------------------
(* Proofs about DurableExecution for any number of executions and workers,  *)
(* any clocks, any lease length and any sharing of operations, keys and     *)
(* nonces.                                                                  *)
EXTENDS DurableExecution, TLAPS

(***************************************************************************)
(* What each pure transition does to a record.                             *)
(***************************************************************************)

LEMMA QueuedRowType == ASSUME TypeOK PROVE QueuedRow \in Row
  BY DEF TypeOK, QueuedRow, Row, Status

\* claimViraDurableExecution: the next epoch, leased to the claimer.
LEMMA ClaimedRowFacts ==
  ASSUME NEW r \in Row, NEW w \in Worker, NEW until \in Int
  PROVE  /\ ClaimedRow(r, w, until) \in Row
         /\ ClaimedRow(r, w, until).status = "executing"
         /\ ClaimedRow(r, w, until).revision = r.revision + 1
         /\ ClaimedRow(r, w, until).epoch = r.epoch + 1
         /\ ClaimedRow(r, w, until).holder = w
         /\ ClaimedRow(r, w, until).dispatch = r.dispatch
<1>1. ASSUME NEW x1, x1 = ClaimedRow(r, w, until)
      PROVE  x1 =
        [status |-> "executing", revision |-> r.revision + 1, epoch |-> r.epoch + 1,
         holder |-> w, expires |-> until, dispatch |-> r.dispatch,
         inserted |-> r.inserted, dated |-> r.dated]
  BY <1>1, Zenon DEF Row, ClaimedRow
<1>2. QED
  BY <1>1 DEF Row, Status

\* renewViraDurableExecutionLease: only the expiry moves.
LEMMA RenewedRowFacts ==
  ASSUME NEW r \in Row, NEW until \in Int, NEW t
  PROVE  /\ RenewedRow(r, until, t) \in Row
         /\ RenewedRow(r, until, t).status = r.status
         /\ RenewedRow(r, until, t).revision = r.revision + 1
         /\ RenewedRow(r, until, t).epoch = r.epoch
         /\ RenewedRow(r, until, t).holder = r.holder
         /\ RenewedRow(r, until, t).dispatch = r.dispatch
<1>1. ASSUME NEW x1, x1 = RenewedRow(r, until, t)
      PROVE  x1 =
        [status |-> r.status, revision |-> r.revision + 1, epoch |-> r.epoch,
         holder |-> r.holder, expires |-> until, dispatch |-> r.dispatch,
         inserted |-> r.inserted, dated |-> DatedAt(r, t)]
  BY <1>1, Zenon DEF Row, RenewedRow
<1>2. DatedAt(r, t) \in BOOLEAN
  BY DEF DatedAt
<1>3. QED
  BY <1>1, <1>2 DEF Row

\* Stage B: only the revision (and the date) moves.
LEMMA ReservedRowFacts ==
  ASSUME NEW r \in Row, NEW t
  PROVE  /\ ReservedRow(r, t) \in Row
         /\ ReservedRow(r, t).status = r.status
         /\ ReservedRow(r, t).revision = r.revision + 1
         /\ ReservedRow(r, t).epoch = r.epoch
         /\ ReservedRow(r, t).holder = r.holder
         /\ ReservedRow(r, t).dispatch = r.dispatch
<1>1. ASSUME NEW x1, x1 = ReservedRow(r, t)
      PROVE  x1 =
        [status |-> r.status, revision |-> r.revision + 1, epoch |-> r.epoch,
         holder |-> r.holder, expires |-> r.expires, dispatch |-> r.dispatch,
         inserted |-> r.inserted, dated |-> DatedAt(r, t)]
  BY <1>1, Zenon DEF Row, ReservedRow
<1>2. DatedAt(r, t) \in BOOLEAN
  BY DEF DatedAt
<1>3. QED
  BY <1>1, <1>2 DEF Row

\* markViraDurableExecutionDispatchStarted: only the dispatch state moves.
LEMMA StartedRowFacts ==
  ASSUME NEW r \in Row
  PROVE  /\ StartedRow(r) \in Row
         /\ StartedRow(r).status = r.status
         /\ StartedRow(r).revision = r.revision + 1
         /\ StartedRow(r).epoch = r.epoch
         /\ StartedRow(r).holder = r.holder
         /\ StartedRow(r).dispatch = "started"
<1>1. ASSUME NEW x1, x1 = StartedRow(r)
      PROVE  x1 =
        [status |-> r.status, revision |-> r.revision + 1, epoch |-> r.epoch,
         holder |-> r.holder, expires |-> r.expires, dispatch |-> "started",
         inserted |-> r.inserted, dated |-> r.dated]
  BY <1>1, Zenon DEF Row, StartedRow
<1>2. QED
  BY <1>1 DEF Row

\* Recovery and outcome: the lease is dropped, the epoch stays.
LEMMA ReleasedRowFacts ==
  ASSUME NEW r \in Row, NEW next \in Status, NEW t
  PROVE  /\ ReleasedRow(r, next, t) \in Row
         /\ ReleasedRow(r, next, t).status = next
         /\ ReleasedRow(r, next, t).revision = r.revision + 1
         /\ ReleasedRow(r, next, t).epoch = r.epoch
         /\ ReleasedRow(r, next, t).dispatch = r.dispatch
<1>1. ASSUME NEW x1, x1 = ReleasedRow(r, next, t)
      PROVE  x1 =
        [status |-> next, revision |-> r.revision + 1, epoch |-> r.epoch,
         holder |-> NoWorker, expires |-> 0, dispatch |-> r.dispatch,
         inserted |-> r.inserted, dated |-> DatedAt(r, t)]
  BY <1>1, Zenon DEF Row, ReleasedRow
<1>2. DatedAt(r, t) \in BOOLEAN
  BY DEF DatedAt
<1>3. QED
  BY <1>1, <1>2 DEF Row

LEMMA StatusAfterExpiryFacts ==
  ASSUME NEW r \in Row
  PROVE  /\ StatusAfterExpiry(r) \in {"uncertain", "recovery"}
         /\ StatusAfterExpiry(r) = "uncertain" <=> r.dispatch = "started"
  BY DEF StatusAfterExpiry, Row

LEMMA StatusOfFacts ==
  ASSUME NEW a
  PROVE  /\ StatusOf(a) \in Settled
         /\ StatusOf(a) = "verifying" => a = "accepted"
         /\ StatusOf(a) = "manual" => a = "rejected"
  BY DEF StatusOf, Settled

(***************************************************************************)
(* The type invariant.                                                     *)
(***************************************************************************)

LEMMA TypeInit == Init => TypeOK
  BY ConstantsAssumption
  DEF Init, TypeOK, AbsentRow, Row, Status, Settled, NoJob, Job, Outcome, Stage, Nonce, Key, Op

\* A worker that goes to a stage with a well-formed job keeps the types.
LEMMA GotoType ==
  ASSUME TypeOK, NEW w \in Worker, NEW stage \in Stage, NEW j \in Job,
         stage \notin {"scan", "claim"} => j.exec \in Execution,
         Goto(w, stage, j)
  PROVE  /\ pc' \in [Worker -> Stage]
         /\ job' \in [Worker -> Job]
         /\ \A v \in Worker : pc'[v] \notin {"scan", "claim"} => job'[v].exec \in Execution
  BY DEF TypeOK, Goto

LEMMA NoJobType == NoJob \in Job
  BY DEF NoJob, Job, Outcome

\* Memory of a worker that found, or was leased, an execution.
LEMMA JobType ==
  ASSUME TypeOK, NEW e \in Execution, NEW until \in Int
  PROVE  /\ FoundJob(e) \in Job
         /\ LeasedJob(e, until) \in Job
<1>1. row[e].revision \in Nat /\ row[e].epoch \in Nat /\ now \in Int
  BY DEF TypeOK, Row
<1>2. QED
  BY <1>1 DEF FoundJob, LeasedJob, Job

\* Memory of a worker one revision further.
LEMMA NextJobType ==
  ASSUME NEW j \in Job
  PROVE  /\ [j EXCEPT !.revision = @ + 1] \in Job
         /\ [j EXCEPT !.revision = @ + 1].exec = j.exec
         /\ [j EXCEPT !.revision = @ + 1].epoch = j.epoch
         /\ [j EXCEPT !.revision = @ + 1].revision = j.revision + 1
<1>1. ASSUME NEW x, x = [j EXCEPT !.revision = @ + 1]
      PROVE  x = [exec |-> j.exec, revision |-> j.revision + 1, epoch |-> j.epoch,
                  expires |-> j.expires, seen |-> j.seen, outcome |-> j.outcome]
  BY <1>1, Zenon DEF Job
<1>2. QED
  BY <1>1 DEF Job

\* Memory of a worker after its renewal.
LEMMA RenewedJobType ==
  ASSUME NEW j \in Job, NEW until \in Int
  PROVE  /\ [j EXCEPT !.revision = @ + 1, !.expires = until] \in Job
         /\ [j EXCEPT !.revision = @ + 1, !.expires = until].exec = j.exec
         /\ [j EXCEPT !.revision = @ + 1, !.expires = until].epoch = j.epoch
         /\ [j EXCEPT !.revision = @ + 1, !.expires = until].revision = j.revision + 1
<1>1. ASSUME NEW x, x = [j EXCEPT !.revision = @ + 1, !.expires = until]
      PROVE  x = [exec |-> j.exec, revision |-> j.revision + 1, epoch |-> j.epoch,
                  expires |-> until, seen |-> j.seen, outcome |-> j.outcome]
  BY <1>1, Zenon DEF Job
<1>2. QED
  BY <1>1 DEF Job

\* Memory of a worker after the adapter's answer.
LEMMA AnsweredJobType ==
  ASSUME NEW j \in Job, NEW a \in Outcome
  PROVE  /\ [j EXCEPT !.outcome = a] \in Job
         /\ [j EXCEPT !.outcome = a].exec = j.exec
         /\ [j EXCEPT !.outcome = a].epoch = j.epoch
         /\ [j EXCEPT !.outcome = a].revision = j.revision
         /\ [j EXCEPT !.outcome = a].outcome = a
<1>1. ASSUME NEW x, x = [j EXCEPT !.outcome = a]
      PROVE  x = [exec |-> j.exec, revision |-> j.revision, epoch |-> j.epoch,
                  expires |-> j.expires, seen |-> j.seen, outcome |-> a]
  BY <1>1, Zenon DEF Job
<1>2. QED
  BY <1>1 DEF Job

LEMMA WriteType ==
  ASSUME TypeOK, NEW e \in Execution, NEW r \in Row, Write(e, r)
  PROVE  row' \in [Execution -> Row]
  BY DEF TypeOK, Write

LEMMA EmitType ==
  ASSUME TypeOK, NEW e \in Execution, NEW n \in Nat, NEW s \in Status \cup {"unstated"},
         NEW type \in {"execution.queued", "execution.claimed",
                       "execution.dispatch-started", "execution.state-changed"},
         Emit(e, n, type, s)
  PROVE  outbox' \subseteq Event
  BY DEF TypeOK, Emit, Event
\* A worker that stops, or moves on without a store call, keeps the types.
LEMMA QuietType ==
  ASSUME TypeOK, NEW w \in Worker, NEW stage \in Stage, NEW j \in Job,
         stage \notin {"scan", "claim"} => j.exec \in Execution,
         Goto(w, stage, j), UNCHANGED <<now, store, ghost>>
  PROVE  TypeOK'
BY GotoType DEF TypeOK, store, ghost

LEMMA TypeNext == ASSUME TypeOK, [Next]_vars PROVE TypeOK'
<1> USE DEF grants, ghost
<1>1. ASSUME Tick PROVE TypeOK'
  BY <1>1 DEF Tick, TypeOK, store
<1>2. ASSUME NEW e \in Execution, EnqueueWithAuthority(e) \/ Create(e) PROVE TypeOK'
  <2>1. row' \in [Execution -> Row]
    BY <1>2, WriteType, QueuedRowType DEF EnqueueWithAuthority, Create, Insert
  <2>2. outbox' \subseteq Event
    BY <1>2, EmitType DEF EnqueueWithAuthority, Create, Insert, Status
  <2>3. QED
    BY <1>2, <2>1, <2>2 DEF EnqueueWithAuthority, Create, Insert, TypeOK
<1>3. ASSUME NEW w \in Worker, Round(w) \/ Abandon(w) PROVE TypeOK'
  <2> DEFINE e == job[w].exec
             r == row[e]
  <2>0. /\ job[w] \in Job
        /\ job[w].revision \in Nat /\ job[w].epoch \in Nat
        /\ job[w].seen \in Int
        /\ pc[w] \notin {"scan", "claim"} => e \in Execution /\ r \in Row
    BY DEF TypeOK, Job
  <2>a. Clock(w) \in Int /\ Clock(w) + LeaseMs \in Int
    BY ConstantsAssumption DEF Clock, TypeOK
  <2>b. ASSUME Return(w), UNCHANGED <<now, store, ghost>> PROVE TypeOK'
    BY <2>b, QuietType, NoJobType DEF Return, Stage
  <2>1. CASE FindNextExpired(w)
    <3>1. PICK x \in Execution : Goto(w, "recover", FoundJob(x))
      BY <2>1 DEF FindNextExpired, ScanChoice, Expired
    <3>2. FoundJob(x) \in Job /\ FoundJob(x).exec = x
      BY JobType, <2>a DEF FoundJob
    <3>3. QED
      BY <2>1, <3>1, <3>2, QuietType DEF FindNextExpired, Stage
  <2>2. CASE FindNoneExpired(w) \/ RecoverConflict(w)
    BY <2>2, QuietType, NoJobType DEF FindNoneExpired, RecoverConflict, Stage
  <2>3. CASE RecoverFails(w) \/ ClaimFails(w) \/ ClaimIdle(w) \/ Refused(w) \/ Abandon(w)
    BY <2>3, <2>b DEF RecoverFails, ClaimFails, ClaimIdle, Refused, Abandon
  <2>4. CASE RecoverExpired(w)
    <3>1. e \in Execution /\ r \in Row /\ r.revision + 1 \in Nat
      BY <2>4, <2>0 DEF RecoverExpired, Row
    <3>2. StatusAfterExpiry(r) \in Status
      BY <3>1, StatusAfterExpiryFacts DEF Status, Settled
    <3>3. row' \in [Execution -> Row]
      BY <2>4, <3>1, <3>2, ReleasedRowFacts, WriteType DEF RecoverExpired
    <3>4. outbox' \subseteq Event
      BY <2>4, <3>1, <3>2, EmitType DEF RecoverExpired
    <3>5. QED
      BY <2>4, <3>3, <3>4, GotoType, NoJobType DEF RecoverExpired, TypeOK, Stage
  <2>5. CASE ClaimNext(w)
    <3>1. PICK x \in Execution :
            /\ Write(x, ClaimedRow(row[x], w, Clock(w) + LeaseMs))
            /\ Emit(x, row[x].revision + 1, "execution.claimed", "executing")
            /\ Goto(w, "authority", LeasedJob(x, Clock(w) + LeaseMs))
      BY <2>5 DEF ClaimNext, ClaimChoice, Claimable
    <3>2. row[x] \in Row /\ row[x].revision + 1 \in Nat
      BY DEF TypeOK, Row
    <3>3. row' \in [Execution -> Row]
      BY <3>1, <3>2, <2>a, ClaimedRowFacts, WriteType
    <3>4. outbox' \subseteq Event
      BY <3>1, <3>2, EmitType DEF Status
    <3>5. LeasedJob(x, Clock(w) + LeaseMs) \in Job /\ LeasedJob(x, Clock(w) + LeaseMs).exec = x
      BY JobType, <2>a DEF LeasedJob
    <3>6. QED
      BY <2>5, <3>1, <3>3, <3>4, <3>5, GotoType DEF ClaimNext, TypeOK, Stage
  <2>6. CASE ReadAuthority(w)
    BY <2>6, <2>0, <2>b, QuietType DEF ReadAuthority, Stage
  <2>7. CASE RenewLease(w)
    <3>1. e \in Execution /\ r \in Row /\ r.revision + 1 \in Nat
      BY <2>7, <2>0 DEF RenewLease, Row
    <3>2. row' \in [Execution -> Row]
      BY <2>7, <2>a, <3>1, RenewedRowFacts, WriteType DEF RenewLease
    <3>3. outbox' \subseteq Event
      BY <2>7, <3>1, EmitType DEF RenewLease, Status
    <3>4. /\ pc' \in [Worker -> Stage]
          /\ job' \in [Worker -> Job]
          /\ \A v \in Worker : pc'[v] \notin {"scan", "claim"} => job'[v].exec \in Execution
      <4> DEFINE j == [job[w] EXCEPT !.revision = @ + 1, !.expires = Clock(w) + LeaseMs]
      <4>1. j \in Job /\ j.exec = e
        BY <2>0, <2>a, RenewedJobType
      <4>2. Goto(w, "reserve", j)
        BY <2>7 DEF RenewLease
      <4>3. QED
        BY <3>1, <4>1, <4>2, GotoType DEF Stage
    <3>5. QED
      BY <2>7, <3>2, <3>3, <3>4 DEF RenewLease, TypeOK
  <2>8. CASE ConsumeGrantAndReserveEffect(w)
    <3>1. e \in Execution /\ r \in Row
      BY <2>8, <2>0 DEF ConsumeGrantAndReserveEffect
    <3>2. row' \in [Execution -> Row]
      BY <2>8, <3>1, ReservedRowFacts, WriteType DEF ConsumeGrantAndReserveEffect
    <3>3. /\ nonceOwner' \in [Nonce -> Execution \cup {NoExecution}]
          /\ keyOwner' \in [Key -> Execution \cup {NoExecution}]
          /\ effect' \in [Op -> [exec : Execution \cup {NoExecution}, epoch : Nat]]
      BY <2>8, <2>0, <3>1 DEF ConsumeGrantAndReserveEffect, TypeOK
    <3>4. QED
      BY <2>8, <2>0, <3>1, <3>2, <3>3, NextJobType, GotoType
      DEF ConsumeGrantAndReserveEffect, TypeOK, Stage
  <2>9. CASE ResolveSecret(w)
    BY <2>9, <2>0, QuietType DEF ResolveSecret, Stage
  <2>10. CASE MarkDispatchStarted(w)
    <3>1. e \in Execution /\ r \in Row /\ r.revision + 1 \in Nat
      BY <2>10, <2>0 DEF MarkDispatchStarted, Row
    <3>2. row' \in [Execution -> Row]
      BY <2>10, <3>1, StartedRowFacts, WriteType DEF MarkDispatchStarted
    <3>3. outbox' \subseteq Event
      BY <2>10, <3>1, EmitType DEF MarkDispatchStarted, Status
    <3>4. QED
      BY <2>10, <2>0, <3>1, <3>2, <3>3, NextJobType, GotoType
      DEF MarkDispatchStarted, TypeOK, Stage
  <2>11. CASE Invoke(w)
    <3>1. e \in Execution
      BY <2>11, <2>0 DEF Invoke
    <3>2. PICK a \in Outcome : /\ answer' = [answer EXCEPT ![e] = a]
                              /\ Goto(w, "record", [job[w] EXCEPT !.outcome = a])
      BY <2>11 DEF Invoke
    <3>3. [job[w] EXCEPT !.outcome = a] \in Job /\ [job[w] EXCEPT !.outcome = a].exec = e
      BY <2>0, AnsweredJobType
    <3>4. calls' \in [Execution -> Nat] /\ answer' \in [Execution -> Outcome \cup {"none"}]
      BY <2>11, <3>1, <3>2 DEF Invoke, TypeOK
    <3>5. QED
      BY <2>11, <3>1, <3>2, <3>3, <3>4, GotoType DEF Invoke, TypeOK, Stage, store
  <2>12. CASE RecordOutcome(w)
    <3>1. e \in Execution /\ r \in Row /\ r.revision + 1 \in Nat
      BY <2>12, <2>0 DEF RecordOutcome, Row
    <3>2. StatusOf(job[w].outcome) \in Status
      BY StatusOfFacts DEF Status
    <3>3. row' \in [Execution -> Row]
      BY <2>12, <3>1, <3>2, ReleasedRowFacts, WriteType DEF RecordOutcome
    <3>4. outbox' \subseteq Event
      BY <2>12, <3>1, <3>2, EmitType DEF RecordOutcome
    <3>5. QED
      BY <2>12, <3>3, <3>4, GotoType, NoJobType DEF RecordOutcome, Return, TypeOK, Stage
  <2>13. QED
    BY <1>3, <2>1, <2>2, <2>3, <2>4, <2>5, <2>6, <2>7, <2>8, <2>9, <2>10, <2>11, <2>12 DEF Round
<1>4. ASSUME UNCHANGED vars PROVE TypeOK'
  BY <1>4 DEF vars, TypeOK
<1>5. QED
  BY <1>1, <1>2, <1>3, <1>4 DEF Next

\* Every table, every worker's memory and both histories keep their types.
THEOREM TypeCorrect == Spec => []TypeOK
<1>1. Init => TypeOK
  BY TypeInit
<1>2. TypeOK /\ [Next]_vars => TypeOK'
  BY TypeNext
<1>3. QED
  BY <1>1, <1>2, PTL DEF Spec

(***************************************************************************)
(* The inductive invariant Fenced.  First what a step leaves alone.        *)
(***************************************************************************)

LEMMA GotoFacts ==
  ASSUME TypeOK, NEW w \in Worker, NEW stage, NEW j, Goto(w, stage, j)
  PROVE  /\ pc'[w] = stage /\ job'[w] = j
         /\ \A v \in Worker : v # w => pc'[v] = pc[v] /\ job'[v] = job[v]
  BY DEF TypeOK, Goto

LEMMA WriteFacts ==
  ASSUME TypeOK, NEW e \in Execution, NEW n, Write(e, n)
  PROVE  /\ row'[e] = n
         /\ \A f \in Execution : f # e => row'[f] = row[f]
  BY DEF TypeOK, Write

LEMMA FencedInit == Init => Fenced
<1> SUFFICES ASSUME Init PROVE Fenced
  OBVIOUS
<1>1. TypeOK
  BY TypeInit
<1>2. RowShape /\ DispatchHoldsReservations /\ CallsAreFenced
  BY DEF Init, AbsentRow, RowShape, DispatchHoldsReservations, CallsAreFenced, Settled
<1>3. JobShape /\ EpochIsUnique /\ FenceIsBacked /\ CallerIsAlone
  BY DEF Init, JobShape, EpochIsUnique, FenceIsBacked, CallerIsAlone, Holding
<1>4. QED
  BY <1>1, <1>2, <1>3 DEF Fenced

\* A worker that stops, finds or starts over touches nothing that is fenced.
LEMMA StopFenced ==
  ASSUME Fenced, TypeOK', NEW w \in Worker, NEW stage \in {"scan", "recover", "claim"}, NEW j,
         Goto(w, stage, j), UNCHANGED <<store, ghost>>
  PROVE  Fenced'
<1> USE DEF store, ghost
<1>1. TypeOK
  BY DEF Fenced
<1>2. /\ pc'[w] = stage
      /\ \A v \in Worker : v # w => pc'[v] = pc[v] /\ job'[v] = job[v]
  BY <1>1, GotoFacts
<1>3. RowShape' /\ DispatchHoldsReservations' /\ CallsAreFenced'
  BY DEF Fenced, RowShape, DispatchHoldsReservations, CallsAreFenced
<1>4. JobShape'
  BY <1>2 DEF Fenced, JobShape, Holding, Owns
<1>5. EpochIsUnique'
  BY <1>2 DEF Fenced, EpochIsUnique, Holding
<1>6. FenceIsBacked'
  BY <1>2 DEF Fenced, FenceIsBacked, Holds
<1>7. CallerIsAlone'
  BY <1>2 DEF Fenced, CallerIsAlone
<1>8. QED
  BY <1>3, <1>4, <1>5, <1>6, <1>7 DEF Fenced

\* So does one that moves on without a store call.
LEMMA AdvanceFenced ==
  ASSUME Fenced, TypeOK', NEW w \in Worker, NEW stage \in Stage,
         <<pc[w], stage>> \in {<<"authority", "renew">>, <<"resolve", "fence">>},
         Goto(w, stage, job[w]), UNCHANGED <<store, ghost>>
  PROVE  Fenced'
<1> USE DEF store, ghost
<1>1. TypeOK
  BY DEF Fenced
<1>2. /\ pc'[w] = stage /\ job'[w] = job[w]
      /\ \A v \in Worker : v # w => pc'[v] = pc[v] /\ job'[v] = job[v]
  BY <1>1, GotoFacts
<1>3. RowShape' /\ DispatchHoldsReservations' /\ CallsAreFenced'
  BY DEF Fenced, RowShape, DispatchHoldsReservations, CallsAreFenced
<1>4. JobShape'
  BY <1>2 DEF Fenced, JobShape, Holding, Stage, Owns
<1>5. EpochIsUnique'
  BY <1>2 DEF Fenced, EpochIsUnique, Holding, Stage
<1>6. FenceIsBacked'
  BY <1>2 DEF Fenced, FenceIsBacked, Holds
<1>7. CallerIsAlone'
  BY <1>2 DEF Fenced, CallerIsAlone
<1>8. QED
  BY <1>3, <1>4, <1>5, <1>6, <1>7 DEF Fenced

LEMMA InsertFenced ==
  ASSUME Fenced, TypeOK', NEW e \in Execution, Insert(e)
  PROVE  Fenced'
<1> USE DEF ghost
<1>1. TypeOK
  BY DEF Fenced
<1>2. /\ row'[e] = QueuedRow /\ row[e].status = "absent"
      /\ \A f \in Execution : f # e => row'[f] = row[f]
      /\ UNCHANGED <<nonceOwner, keyOwner, effect, pc, job, calls, answer>>
  BY <1>1, WriteFacts DEF Insert
<1>3. row[e].dispatch = "not-started" /\ row[e] \in Row
  BY <1>1, <1>2 DEF Fenced, RowShape, TypeOK, Row, Settled
<1>4. RowShape'
  BY <1>2 DEF Fenced, RowShape, QueuedRow, Settled
<1>5. DispatchHoldsReservations'
  BY <1>2 DEF Fenced, DispatchHoldsReservations, QueuedRow
<1>6. CallsAreFenced'
  BY <1>2, <1>3 DEF Fenced, CallsAreFenced, QueuedRow
<1>7. \A w \in Worker : pc[w] \in Holding => job[w].exec \in Execution /\ job[w].exec # e
  <2> SUFFICES ASSUME NEW w \in Worker, pc[w] \in Holding
               PROVE  job[w].exec \in Execution /\ job[w].exec # e
    OBVIOUS
  <2>1. job[w].exec \in Execution /\ job[w].revision \in Nat
    BY <1>1 DEF TypeOK, Holding, Job
  <2>2. CASE job[w].exec = e
    <3>1. job[w].revision <= row[e].revision /\ row[e].revision = 0
      BY <1>2, <2>2 DEF Fenced, JobShape, RowShape
    <3>2. Owns(w, row[e])
      BY <2>1, <2>2, <3>1 DEF Fenced, JobShape
    <3>3. QED
      BY <1>2, <3>2 DEF Owns
  <2>3. QED
    BY <2>1, <2>2
<1>8. JobShape'
  BY <1>2, <1>7 DEF Fenced, JobShape, Owns
<1>9. EpochIsUnique'
  BY <1>2 DEF Fenced, EpochIsUnique
<1>10. FenceIsBacked'
  BY <1>2, <1>7 DEF Fenced, FenceIsBacked, Holds, Holding, Stage
<1>11. CallerIsAlone'
  BY <1>2, <1>7 DEF Fenced, CallerIsAlone, Holding, Stage
<1>12. QED
  BY <1>4, <1>5, <1>6, <1>8, <1>9, <1>10, <1>11 DEF Fenced

(***************************************************************************)
(* Steps that write a row.                                                 *)
(***************************************************************************)

\* A worker that owns its row writes it and stays the owner.
LEMMA OwnerStep ==
  ASSUME Fenced, TypeOK', NEW w \in Worker, pc[w] \in Holding,
         NEW e \in Execution, e = job[w].exec, Owns(w, row[e]),
         NEW stage \in Holding, NEW n \in Row, NEW j \in Job,
         Write(e, n), Goto(w, stage, j),
         n.status = "executing", n.holder = w, n.epoch = row[e].epoch,
         n.revision = row[e].revision + 1,
         n.dispatch = "started" <=> stage \in {"invoke", "record"},
         j.exec = e, j.epoch = job[w].epoch, j.revision = job[w].revision + 1
  PROVE  JobShape' /\ EpochIsUnique'
<1>1. TypeOK
  BY DEF Fenced
<1>2. /\ row'[e] = n
      /\ \A f \in Execution : f # e => row'[f] = row[f]
      /\ pc'[w] = stage /\ job'[w] = j
      /\ \A v \in Worker : v # w => pc'[v] = pc[v] /\ job'[v] = job[v]
  BY <1>1, WriteFacts, GotoFacts
<1>3. \A v \in Worker : /\ job[v].revision \in Nat /\ job[v].epoch \in Nat
                        /\ pc[v] \in Holding => job[v].exec \in Execution
  BY <1>1 DEF TypeOK, Job, Holding
<1>4. row[e].revision \in Nat /\ row[e].epoch \in Nat
  BY <1>1 DEF TypeOK, Row
<1>5. JobShape'
  <2> SUFFICES ASSUME NEW v \in Worker, pc'[v] \in Holding
               PROVE  LET r == row'[job'[v].exec]
                      IN /\ job'[v].epoch <= r.epoch
                         /\ job'[v].revision <= r.revision
                         /\ job'[v].revision = r.revision =>
                              /\ r.status = "executing" /\ r.holder = v
                              /\ r.epoch = job'[v].epoch /\ r.revision = job'[v].revision
                              /\ r.dispatch = "started" <=> pc'[v] \in {"invoke", "record"}
    BY DEF JobShape, Owns
  <2>1. CASE v = w
    BY <1>2, <1>3, <1>4, <2>1 DEF Owns
  <2>2. CASE v # w /\ job[v].exec = e
    <3>1. job[v].epoch <= row[e].epoch /\ job[v].revision <= row[e].revision
      BY <1>2, <2>2 DEF Fenced, JobShape
    <3>2. QED
      BY <1>2, <1>3, <1>4, <2>2, <3>1
  <2>3. CASE v # w /\ job[v].exec # e
    BY <1>2, <1>3, <2>3 DEF Fenced, JobShape, Owns
  <2>4. QED
    BY <2>1, <2>2, <2>3
<1>6. EpochIsUnique'
  BY <1>2 DEF Fenced, EpochIsUnique
<1>7. QED
  BY <1>5, <1>6

\* A row that is released leaves every worker's memory behind its revision.
LEMMA ReleaseStep ==
  ASSUME Fenced, TypeOK', NEW w \in Worker, NEW e \in Execution,
         NEW stage \in {"scan", "claim"}, NEW n \in Row, NEW j,
         Write(e, n), Goto(w, stage, j),
         n.epoch = row[e].epoch, n.revision = row[e].revision + 1
  PROVE  JobShape' /\ EpochIsUnique'
<1>1. TypeOK
  BY DEF Fenced
<1>2. /\ row'[e] = n
      /\ \A f \in Execution : f # e => row'[f] = row[f]
      /\ pc'[w] = stage /\ job'[w] = j
      /\ \A v \in Worker : v # w => pc'[v] = pc[v] /\ job'[v] = job[v]
  BY <1>1, WriteFacts, GotoFacts
<1>3. \A v \in Worker : /\ job[v].revision \in Nat /\ job[v].epoch \in Nat
                        /\ pc[v] \in Holding => job[v].exec \in Execution
  BY <1>1 DEF TypeOK, Job, Holding
<1>4. row[e].revision \in Nat /\ row[e].epoch \in Nat
  BY <1>1 DEF TypeOK, Row
<1>5. JobShape'
  <2> SUFFICES ASSUME NEW v \in Worker, pc'[v] \in Holding
               PROVE  LET r == row'[job'[v].exec]
                      IN /\ job'[v].epoch <= r.epoch
                         /\ job'[v].revision <= r.revision
                         /\ job'[v].revision = r.revision =>
                              /\ r.status = "executing" /\ r.holder = v
                              /\ r.epoch = job'[v].epoch /\ r.revision = job'[v].revision
                              /\ r.dispatch = "started" <=> pc'[v] \in {"invoke", "record"}
    BY DEF JobShape, Owns
  <2>1. v # w
    BY <1>2 DEF Holding
  <2>2. CASE job[v].exec = e
    <3>1. job[v].epoch <= row[e].epoch /\ job[v].revision <= row[e].revision
      BY <1>2, <2>1, <2>2 DEF Fenced, JobShape
    <3>2. QED
      BY <1>2, <1>3, <1>4, <2>1, <2>2, <3>1
  <2>3. CASE job[v].exec # e
    BY <1>2, <1>3, <2>1, <2>3 DEF Fenced, JobShape, Owns
  <2>4. QED
    BY <2>2, <2>3
<1>6. EpochIsUnique'
  BY <1>2 DEF Fenced, EpochIsUnique, Holding
<1>7. QED
  BY <1>5, <1>6

\* A worker at Stage B's permit or at the fence whose execution is not e, or
\* whose revision of e is old, keeps its backing when e is written.
LEMMA OthersStayBacked ==
  ASSUME Fenced, TypeOK', NEW w \in Worker, NEW e \in Execution,
         NEW stage, NEW n \in Row, NEW j,
         Write(e, n), Goto(w, stage, j), n.revision = row[e].revision + 1,
         UNCHANGED <<nonceOwner, keyOwner, effect>>,
         stage \notin {"resolve", "fence"}
  PROVE  FenceIsBacked'
<1>1. TypeOK
  BY DEF Fenced
<1>2. /\ row'[e] = n
      /\ \A f \in Execution : f # e => row'[f] = row[f]
      /\ pc'[w] = stage /\ job'[w] = j
      /\ \A v \in Worker : v # w => pc'[v] = pc[v] /\ job'[v] = job[v]
  BY <1>1, WriteFacts, GotoFacts
<1>3. SUFFICES ASSUME NEW v \in Worker, pc'[v] \in {"resolve", "fence"},
                      job'[v].revision = row'[job'[v].exec].revision
               PROVE  Holds(job[v].exec, job[v].epoch)'
  BY DEF FenceIsBacked
<1>4. v # w /\ pc[v] \in Holding
  BY <1>2, <1>3 DEF Holding, Stage
<1>5. job[v].exec \in Execution /\ job[v].revision \in Nat /\ row[e].revision \in Nat
  BY <1>1, <1>4 DEF TypeOK, Job, Row, Holding
<1>6. job[v].exec # e
  <2> SUFFICES ASSUME job[v].exec = e PROVE FALSE
    OBVIOUS
  <2>1. job[v].revision <= row[e].revision
    BY <1>4 DEF Fenced, JobShape
  <2>2. QED
    BY <1>2, <1>3, <1>4, <1>5, <2>1
<1>7. QED
  BY <1>2, <1>3, <1>4, <1>5, <1>6 DEF Fenced, FenceIsBacked, Holds

LEMMA RecoverFenced ==
  ASSUME Fenced, TypeOK', NEW w \in Worker, RecoverExpired(w)
  PROVE  Fenced'
<1> USE DEF grants, ghost
<1> DEFINE e == job[w].exec
           n == ReleasedRow(row[e], StatusAfterExpiry(row[e]), job[w].seen)
<1>1. TypeOK /\ e \in Execution /\ row[e] \in Row
  BY DEF Fenced, TypeOK, RecoverExpired
<1>2. /\ StatusAfterExpiry(row[e]) \in {"uncertain", "recovery"}
      /\ StatusAfterExpiry(row[e]) = "uncertain" <=> row[e].dispatch = "started"
  BY <1>1, StatusAfterExpiryFacts
<1>3. /\ n \in Row /\ n.status = StatusAfterExpiry(row[e])
      /\ n.revision = row[e].revision + 1 /\ n.epoch = row[e].epoch
      /\ n.dispatch = row[e].dispatch
  BY <1>1, <1>2, ReleasedRowFacts DEF Status, Settled
<1>4. Write(e, n) /\ Goto(w, "claim", NoJob)
  BY DEF RecoverExpired
<1>5. /\ row'[e] = n
      /\ \A f \in Execution : f # e => row'[f] = row[f]
      /\ pc'[w] = "claim"
      /\ \A v \in Worker : v # w => pc'[v] = pc[v] /\ job'[v] = job[v]
      /\ UNCHANGED <<nonceOwner, keyOwner, effect, calls, answer>>
  BY <1>1, <1>4, WriteFacts, GotoFacts DEF RecoverExpired
<1> HIDE DEF n, e
<1>6. RowShape'
  BY <1>2, <1>3, <1>5 DEF Fenced, RowShape, Settled
<1>7. DispatchHoldsReservations'
  BY <1>3, <1>5 DEF Fenced, DispatchHoldsReservations
<1>8. CallsAreFenced'
  BY <1>2, <1>3, <1>5 DEF Fenced, CallsAreFenced
<1>9. JobShape' /\ EpochIsUnique'
  BY <1>1, <1>3, <1>4, ReleaseStep
<1>10. FenceIsBacked'
  BY <1>1, <1>3, <1>4, <1>5, OthersStayBacked
<1>11. CallerIsAlone'
  <2>1. \A v \in Worker : pc[v] \in {"invoke", "record"} => job[v].exec \in Execution
    BY <1>1 DEF TypeOK
  <2>2. QED
    BY <1>1, <1>3, <1>5, <2>1 DEF Fenced, CallerIsAlone
<1>12. QED
  BY <1>6, <1>7, <1>8, <1>9, <1>10, <1>11 DEF Fenced

LEMMA ClaimFenced ==
  ASSUME Fenced, TypeOK', NEW w \in Worker, ClaimNext(w)
  PROVE  Fenced'
<1> USE DEF grants, ghost
<1>0. TypeOK
  BY DEF Fenced
<1>a. now \in Nat /\ Skew[w] \in Int /\ LeaseMs \in Nat
  BY <1>0, ConstantsAssumption DEF TypeOK
<1>1. TypeOK /\ Clock(w) + LeaseMs \in Int
  BY <1>0, <1>a DEF Clock
<1>2. PICK e \in Execution :
        /\ row[e].status \in {"queued", "recovery"}
        /\ Write(e, ClaimedRow(row[e], w, Clock(w) + LeaseMs))
        /\ Goto(w, "authority", LeasedJob(e, Clock(w) + LeaseMs))
  BY DEF ClaimNext, ClaimChoice, Claimable
<1> DEFINE n == ClaimedRow(row[e], w, Clock(w) + LeaseMs)
           j == LeasedJob(e, Clock(w) + LeaseMs)
<1>3. row[e] \in Row /\ row[e].revision \in Nat /\ row[e].epoch \in Nat
  BY <1>1 DEF TypeOK, Row
<1>4. /\ n \in Row /\ n.status = "executing" /\ n.revision = row[e].revision + 1
      /\ n.epoch = row[e].epoch + 1 /\ n.holder = w /\ n.dispatch = row[e].dispatch
  BY <1>1, <1>3, ClaimedRowFacts
<1>5. j.exec = e /\ j.revision = n.revision /\ j.epoch = n.epoch
  BY <1>4 DEF LeasedJob
<1>6. /\ row'[e] = n
      /\ \A f \in Execution : f # e => row'[f] = row[f]
      /\ pc'[w] = "authority" /\ job'[w] = j
      /\ \A v \in Worker : v # w => pc'[v] = pc[v] /\ job'[v] = job[v]
      /\ UNCHANGED <<nonceOwner, keyOwner, effect, calls, answer>>
  BY <1>1, <1>2, WriteFacts, GotoFacts DEF ClaimNext
<1>7. row[e].dispatch = "not-started"
  BY <1>2, <1>3 DEF Fenced, RowShape, Row, Settled
<1> HIDE DEF n, j
<1>8. RowShape'
  BY <1>4, <1>6 DEF Fenced, RowShape, Settled
<1>9. DispatchHoldsReservations'
  BY <1>4, <1>6, <1>7 DEF Fenced, DispatchHoldsReservations
<1>10. CallsAreFenced'
  BY <1>4, <1>6 DEF Fenced, CallsAreFenced
<1>11. \A v \in Worker : /\ job[v].revision \in Nat /\ job[v].epoch \in Nat
                         /\ pc[v] \in Holding => job[v].exec \in Execution
  BY <1>1 DEF TypeOK, Job, Holding
<1>12. \A v \in Worker : pc[v] \in Holding /\ job[v].exec = e =>
         job[v].epoch < n.epoch /\ job[v].revision < n.revision
  BY <1>3, <1>4, <1>11 DEF Fenced, JobShape
<1>13. JobShape'
  <2> SUFFICES ASSUME NEW v \in Worker, pc'[v] \in Holding
               PROVE  LET r == row'[job'[v].exec]
                      IN /\ job'[v].epoch <= r.epoch
                         /\ job'[v].revision <= r.revision
                         /\ job'[v].revision = r.revision =>
                              /\ r.status = "executing" /\ r.holder = v
                              /\ r.epoch = job'[v].epoch /\ r.revision = job'[v].revision
                              /\ r.dispatch = "started" <=> pc'[v] \in {"invoke", "record"}
    BY DEF JobShape, Owns
  <2>1. CASE v = w
    BY <1>3, <1>4, <1>5, <1>6, <1>7, <2>1
  <2>2. CASE v # w /\ job[v].exec = e
    BY <1>3, <1>4, <1>6, <1>11, <1>12, <2>2
  <2>3. CASE v # w /\ job[v].exec # e
    BY <1>6, <1>11, <2>3 DEF Fenced, JobShape, Owns
  <2>4. QED
    BY <2>1, <2>2, <2>3
<1>14. EpochIsUnique'
  <2> SUFFICES ASSUME NEW v \in Worker, NEW u \in Worker,
                      pc'[v] \in Holding, pc'[u] \in Holding,
                      job'[v].exec = job'[u].exec, job'[v].epoch = job'[u].epoch,
                      v # u
               PROVE  FALSE
    BY DEF EpochIsUnique
  <2>1. CASE v # w /\ u # w
    BY <1>6, <2>1 DEF Fenced, EpochIsUnique
  <2>2. CASE v = w
    BY <1>4, <1>5, <1>6, <1>11, <1>12, <1>3, <2>2
  <2>3. CASE u = w
    BY <1>4, <1>5, <1>6, <1>11, <1>12, <1>3, <2>3
  <2>4. QED
    BY <2>1, <2>2, <2>3
<1>15. FenceIsBacked'
  BY <1>2, <1>4, <1>6, OthersStayBacked DEF n
<1>16. CallerIsAlone'
  BY <1>1, <1>4, <1>6, <1>7, <1>11 DEF Fenced, CallerIsAlone, Holding, Stage
<1>17. QED
  BY <1>8, <1>9, <1>10, <1>13, <1>14, <1>15, <1>16 DEF Fenced

LEMMA RenewFenced ==
  ASSUME Fenced, TypeOK', NEW w \in Worker, RenewLease(w)
  PROVE  Fenced'
<1> USE DEF grants, ghost
<1> DEFINE e == job[w].exec
           until == Clock(w) + LeaseMs
           n == RenewedRow(row[e], until, Clock(w))
           j == [job[w] EXCEPT !.revision = @ + 1, !.expires = until]
<1>0. TypeOK
  BY DEF Fenced
<1>1. /\ pc[w] = "renew" /\ pc[w] \in Holding
      /\ e \in Execution /\ row[e] \in Row /\ job[w] \in Job
  BY <1>0 DEF TypeOK, RenewLease, Holding, Stage
<1>a. now \in Nat /\ Skew[w] \in Int /\ LeaseMs \in Nat
  BY <1>0, ConstantsAssumption DEF TypeOK
<1>b. until \in Int
  BY <1>a DEF Clock
<1>2. Owns(w, row[e]) /\ Write(e, n) /\ Goto(w, "reserve", j)
  BY DEF RenewLease, CanRenew
<1>3. /\ n \in Row /\ n.status = row[e].status /\ n.holder = row[e].holder
      /\ n.revision = row[e].revision + 1 /\ n.epoch = row[e].epoch
      /\ n.dispatch = row[e].dispatch
  BY <1>1, <1>b, RenewedRowFacts
<1>4. j \in Job /\ j.exec = e /\ j.epoch = job[w].epoch /\ j.revision = job[w].revision + 1
  BY <1>1, <1>b, RenewedJobType
<1>5. /\ row'[e] = n
      /\ \A f \in Execution : f # e => row'[f] = row[f]
      /\ pc'[w] = "reserve" /\ job'[w] = j
      /\ \A v \in Worker : v # w => pc'[v] = pc[v] /\ job'[v] = job[v]
      /\ UNCHANGED <<nonceOwner, keyOwner, effect, calls, answer>>
  BY <1>0, <1>1, <1>2, WriteFacts, GotoFacts DEF RenewLease
<1>6. /\ n.status = "executing" /\ n.holder = w
      /\ n.dispatch = "not-started" /\ row[e].dispatch = "not-started"
  BY <1>0, <1>1, <1>2, <1>3 DEF Fenced, JobShape, Owns, Row
<1> HIDE DEF n, e, j, until
<1>7. RowShape' /\ DispatchHoldsReservations' /\ CallsAreFenced'
  BY <1>3, <1>5, <1>6
  DEF Fenced, RowShape, DispatchHoldsReservations, CallsAreFenced, Settled
<1>8. JobShape' /\ EpochIsUnique'
  <2>1. "reserve" \in Holding /\ e = job[w].exec
    BY DEF Holding, Stage, e
  <2>2. QED
    BY <1>1, <1>2, <1>3, <1>4, <1>6, <2>1, OwnerStep
<1>9. FenceIsBacked'
  BY <1>1, <1>2, <1>3, <1>5, OthersStayBacked
<1>10. CallerIsAlone'
  <2>1. \A v \in Worker : pc[v] \in {"invoke", "record"} => job[v].exec \in Execution
    BY <1>0 DEF TypeOK
  <2>2. QED
    BY <1>3, <1>5, <2>1 DEF Fenced, CallerIsAlone
<1>11. QED
  BY <1>7, <1>8, <1>9, <1>10 DEF Fenced

\* Stage B takes the nonce, the key and the effect only where they are free
\* or already this execution's, so no dispatched execution loses its own; a
\* rebind at a higher epoch is of a row that is not dispatched.
LEMMA ReserveFenced ==
  ASSUME Fenced, TypeOK', NEW w \in Worker, ConsumeGrantAndReserveEffect(w)
  PROVE  Fenced'
<1> USE DEF ghost
<1> DEFINE e == job[w].exec
           n == ReservedRow(row[e], now)
           j == [job[w] EXCEPT !.revision = @ + 1]
<1>0. TypeOK
  BY DEF Fenced
<1>1. /\ pc[w] = "reserve" /\ pc[w] \in Holding
      /\ e \in Execution /\ row[e] \in Row /\ job[w] \in Job
  BY <1>0 DEF TypeOK, ConsumeGrantAndReserveEffect, Holding, Stage
<1>2. /\ Owns(w, row[e]) /\ row[e].dispatch = "not-started"
      /\ Write(e, n) /\ Goto(w, "resolve", j)
  BY DEF ConsumeGrantAndReserveEffect, CanReserve
<1>3. /\ n \in Row /\ n.status = row[e].status /\ n.holder = row[e].holder
      /\ n.revision = row[e].revision + 1 /\ n.epoch = row[e].epoch
      /\ n.dispatch = row[e].dispatch
  BY <1>1, ReservedRowFacts
<1>4. j \in Job /\ j.exec = e /\ j.epoch = job[w].epoch /\ j.revision = job[w].revision + 1
  BY <1>1, NextJobType
<1>5. /\ row'[e] = n
      /\ \A f \in Execution : f # e => row'[f] = row[f]
      /\ pc'[w] = "resolve" /\ job'[w] = j
      /\ \A v \in Worker : v # w => pc'[v] = pc[v] /\ job'[v] = job[v]
      /\ UNCHANGED <<calls, answer>>
  BY <1>0, <1>1, <1>2, WriteFacts, GotoFacts DEF ConsumeGrantAndReserveEffect
<1>6. /\ n.status = "executing" /\ n.holder = w /\ n.dispatch = "not-started"
  BY <1>1, <1>2, <1>3 DEF Owns
<1>7. /\ nonceOwner[NonceOf[e]] \in {NoExecution, e}
      /\ keyOwner[KeyOf[e]] \in {NoExecution, e}
      /\ effect[OpOf[e]].exec \in {NoExecution, e}
  BY DEF ConsumeGrantAndReserveEffect, CanReserve, Free, EffectIsFree
<1>8. /\ nonceOwner' = [nonceOwner EXCEPT ![NonceOf[e]] = e]
      /\ keyOwner' = [keyOwner EXCEPT ![KeyOf[e]] = e]
      /\ effect' = [effect EXCEPT ![OpOf[e]] = [exec |-> e, epoch |-> job[w].epoch]]
  BY DEF ConsumeGrantAndReserveEffect
<1>9. /\ nonceOwner \in [Nonce -> Execution \cup {NoExecution}]
      /\ keyOwner \in [Key -> Execution \cup {NoExecution}]
      /\ effect \in [Op -> [exec : Execution \cup {NoExecution}, epoch : Nat]]
      /\ \A f \in Execution : NonceOf[f] \in Nonce /\ KeyOf[f] \in Key /\ OpOf[f] \in Op
      /\ NoExecution \notin Execution
  BY <1>0, ConstantsAssumption DEF TypeOK, Nonce, Key, Op
<1> HIDE DEF n, e, j
<1>10. RowShape' /\ CallsAreFenced'
  BY <1>2, <1>3, <1>5, <1>6 DEF Fenced, RowShape, CallsAreFenced, Settled
<1>11. JobShape' /\ EpochIsUnique'
  <2>1. "resolve" \in Holding /\ e = job[w].exec
    BY DEF Holding, Stage, e
  <2>2. QED
    BY <1>1, <1>2, <1>3, <1>4, <1>6, <2>1, OwnerStep
<1>12. Holds(e, job[w].epoch)'
  <2>1. /\ nonceOwner'[NonceOf[e]] = e /\ keyOwner'[KeyOf[e]] = e
        /\ effect'[OpOf[e]] = [exec |-> e, epoch |-> job[w].epoch]
    BY <1>1, <1>8, <1>9
  <2>2. e' = e /\ (job[w].epoch)' = job[w].epoch
    BY <1>4, <1>5 DEF e
  <2>3. QED
    BY <2>1, <2>2 DEF Holds
<1>13. ASSUME NEW f \in Execution, f # e, NEW epoch, Holds(f, epoch)
       PROVE  /\ nonceOwner'[NonceOf[f]] = f
              /\ keyOwner'[KeyOf[f]] = f
              /\ effect'[OpOf[f]] = [exec |-> f, epoch |-> epoch]
  BY <1>1, <1>7, <1>8, <1>9, <1>13 DEF Holds
<1>14. DispatchHoldsReservations'
  <2> SUFFICES ASSUME NEW f \in Execution, row'[f].dispatch = "started"
               PROVE  /\ nonceOwner'[NonceOf[f]] = f
                      /\ keyOwner'[KeyOf[f]] = f
                      /\ effect'[OpOf[f]] = [exec |-> f, epoch |-> row'[f].epoch]
    BY DEF DispatchHoldsReservations
  <2>1. f # e /\ row'[f] = row[f]
    BY <1>5, <1>6
  <2>2. Holds(f, row[f].epoch)
    BY <2>1 DEF Fenced, DispatchHoldsReservations, Holds
  <2>3. QED
    BY <1>13, <2>1, <2>2
<1>15. FenceIsBacked'
  <2> SUFFICES ASSUME NEW v \in Worker, pc'[v] \in {"resolve", "fence"},
                      job'[v].revision = row'[job'[v].exec].revision
               PROVE  Holds(job[v].exec, job[v].epoch)'
    BY DEF FenceIsBacked
  <2>1. CASE v = w
    BY <1>12, <2>1 DEF e
  <2>2. CASE v # w
    <3>1. pc[v] \in Holding /\ job[v].exec \in Execution /\ job[v].revision \in Nat
      BY <1>0, <1>5, <2>2 DEF TypeOK, Holding, Stage, Job
    <3>2. job[v].exec # e
      <4> SUFFICES ASSUME job[v].exec = e PROVE FALSE
        OBVIOUS
      <4>1. job[v].revision <= row[e].revision
        BY <3>1 DEF Fenced, JobShape
      <4>2. row[e].revision \in Nat
        BY <1>1 DEF Row
      <4>3. QED
        BY <1>3, <1>5, <2>2, <3>1, <4>1, <4>2
    <3>3. Holds(job[v].exec, job[v].epoch)
      BY <1>5, <2>2, <3>1, <3>2 DEF Fenced, FenceIsBacked
    <3>4. job'[v] = job[v]
      BY <1>5, <2>2
    <3>5. QED
      BY <1>13, <3>1, <3>2, <3>3, <3>4 DEF Holds
  <2>3. QED
    BY <2>1, <2>2
<1>16. CallerIsAlone'
  <2>1. \A v \in Worker : pc[v] \in {"invoke", "record"} => job[v].exec \in Execution
    BY <1>0 DEF TypeOK
  <2>2. QED
    BY <1>3, <1>5, <2>1 DEF Fenced, CallerIsAlone
<1>17. QED
  BY <1>10, <1>11, <1>14, <1>15, <1>16 DEF Fenced

\* The fence: the worker that owns the row holds its reservations, and nobody
\* else is past the fence of that row, for its dispatch had not started.
LEMMA StartFenced ==
  ASSUME Fenced, TypeOK', NEW w \in Worker, MarkDispatchStarted(w)
  PROVE  Fenced'
<1> USE DEF grants, ghost
<1> DEFINE e == job[w].exec
           n == StartedRow(row[e])
           j == [job[w] EXCEPT !.revision = @ + 1]
<1>0. TypeOK
  BY DEF Fenced
<1>1. /\ pc[w] = "fence" /\ pc[w] \in Holding
      /\ e \in Execution /\ row[e] \in Row /\ job[w] \in Job
  BY <1>0 DEF TypeOK, MarkDispatchStarted, Holding, Stage
<1>2. /\ Owns(w, row[e]) /\ row[e].dispatch = "not-started"
      /\ Write(e, n) /\ Goto(w, "invoke", j)
  BY DEF MarkDispatchStarted, CanStart
<1>3. /\ n \in Row /\ n.status = row[e].status /\ n.holder = row[e].holder
      /\ n.revision = row[e].revision + 1 /\ n.epoch = row[e].epoch
      /\ n.dispatch = "started"
  BY <1>1, StartedRowFacts
<1>4. j \in Job /\ j.exec = e /\ j.epoch = job[w].epoch /\ j.revision = job[w].revision + 1
  BY <1>1, NextJobType
<1>5. /\ row'[e] = n
      /\ \A f \in Execution : f # e => row'[f] = row[f]
      /\ pc'[w] = "invoke" /\ job'[w] = j
      /\ \A v \in Worker : v # w => pc'[v] = pc[v] /\ job'[v] = job[v]
      /\ UNCHANGED <<nonceOwner, keyOwner, effect, calls, answer>>
  BY <1>0, <1>1, <1>2, WriteFacts, GotoFacts DEF MarkDispatchStarted
<1>6. /\ row[e].status = "executing" /\ n.status = "executing" /\ n.holder = w
      /\ row[e].epoch = job[w].epoch /\ row[e].revision = job[w].revision
  BY <1>1, <1>2, <1>3 DEF Owns
<1>7. Holds(e, row[e].epoch)
  BY <1>1, <1>6 DEF Fenced, FenceIsBacked
<1>8. \A v \in Worker : pc[v] \in {"invoke", "record"} =>
        job[v].exec \in Execution /\ job[v].exec # e
  BY <1>0, <1>2 DEF Fenced, TypeOK, CallerIsAlone
<1> HIDE DEF n, e, j
<1>9. RowShape'
  BY <1>3, <1>5, <1>6 DEF Fenced, RowShape, Settled
<1>10. DispatchHoldsReservations'
  BY <1>3, <1>5, <1>7 DEF Fenced, DispatchHoldsReservations, Holds
<1>11. CallsAreFenced'
  BY <1>2, <1>3, <1>5, <1>6 DEF Fenced, CallsAreFenced
<1>12. JobShape' /\ EpochIsUnique'
  <2>1. "invoke" \in Holding /\ e = job[w].exec
    BY DEF Holding, Stage, e
  <2>2. QED
    BY <1>1, <1>2, <1>3, <1>4, <1>6, <2>1, OwnerStep
<1>13. FenceIsBacked'
  BY <1>1, <1>2, <1>3, <1>5, OthersStayBacked
<1>14. CallerIsAlone'
  <2>1. calls[e] = 0
    BY <1>1, <1>2 DEF Fenced, CallsAreFenced
  <2>2. QED
    BY <1>3, <1>4, <1>5, <1>6, <1>8, <2>1 DEF Fenced, CallerIsAlone
<1>15. QED
  BY <1>9, <1>10, <1>11, <1>12, <1>13, <1>14 DEF Fenced

\* The call itself, which no store guards any more: it is the only one
\* because the caller is alone past its fence.
LEMMA InvokeFenced ==
  ASSUME Fenced, TypeOK', NEW w \in Worker, Invoke(w)
  PROVE  Fenced'
<1> USE DEF store
<1> DEFINE e == job[w].exec
<1>0. TypeOK
  BY DEF Fenced
<1>1. /\ pc[w] = "invoke" /\ pc[w] \in Holding /\ e \in Execution /\ job[w] \in Job
  BY <1>0 DEF TypeOK, Invoke, Holding, Stage
<1>2. PICK a \in Outcome : /\ answer' = [answer EXCEPT ![e] = a]
                          /\ Goto(w, "record", [job[w] EXCEPT !.outcome = a])
  BY DEF Invoke
<1> DEFINE j == [job[w] EXCEPT !.outcome = a]
<1>3. /\ j.exec = e /\ j.epoch = job[w].epoch /\ j.revision = job[w].revision
      /\ j.outcome = a
  BY <1>1 DEF Job
<1>4. /\ pc'[w] = "record" /\ job'[w] = j
      /\ \A v \in Worker : v # w => pc'[v] = pc[v] /\ job'[v] = job[v]
      /\ UNCHANGED <<row, nonceOwner, keyOwner, effect>>
  BY <1>0, <1>2, GotoFacts DEF Invoke
<1>5. /\ row[e].dispatch = "started" /\ row[e].epoch = job[w].epoch /\ calls[e] = 0
  BY <1>1 DEF Fenced, CallerIsAlone
<1>6. /\ calls'[e] = 1 /\ answer'[e] = a
      /\ \A f \in Execution : f # e => calls'[f] = calls[f] /\ answer'[f] = answer[f]
  BY <1>0, <1>1, <1>2, <1>5 DEF TypeOK, Invoke
<1>7. \A v \in Worker : v # w /\ pc[v] \in {"invoke", "record"} =>
        job[v].exec \in Execution /\ job[v].exec # e
  BY <1>0, <1>1, <1>5 DEF Fenced, TypeOK, CallerIsAlone, EpochIsUnique, Holding, Stage
<1> HIDE DEF e, j
<1>8. RowShape' /\ DispatchHoldsReservations'
  BY <1>4 DEF Fenced, RowShape, DispatchHoldsReservations
<1>9. JobShape'
  <2> SUFFICES ASSUME NEW v \in Worker, pc'[v] \in Holding
               PROVE  LET r == row'[job'[v].exec]
                      IN /\ job'[v].epoch <= r.epoch
                         /\ job'[v].revision <= r.revision
                         /\ job'[v].revision = r.revision =>
                              /\ r.status = "executing" /\ r.holder = v
                              /\ r.epoch = job'[v].epoch /\ r.revision = job'[v].revision
                              /\ r.dispatch = "started" <=> pc'[v] \in {"invoke", "record"}
    BY DEF JobShape, Owns
  <2>1. CASE v = w
    BY <1>1, <1>3, <1>4, <2>1 DEF Fenced, JobShape, Owns, e
  <2>2. CASE v # w
    BY <1>4, <2>2 DEF Fenced, JobShape, Owns
  <2>3. QED
    BY <2>1, <2>2
<1>10. EpochIsUnique'
  BY <1>1, <1>3, <1>4 DEF Fenced, EpochIsUnique, e
<1>11. FenceIsBacked'
  BY <1>4 DEF Fenced, FenceIsBacked, Holds
<1>12. CallerIsAlone'
  BY <1>3, <1>4, <1>5, <1>6, <1>7 DEF Fenced, CallerIsAlone
<1>13. CallsAreFenced'
  <2>1. row[e].status \notin {"verifying", "manual"}
    BY <1>1, <1>5 DEF Fenced, CallsAreFenced, e
  <2>2. QED
    BY <1>4, <1>5, <1>6, <2>1 DEF Fenced, CallsAreFenced
<1>14. QED
  BY <1>8, <1>9, <1>10, <1>11, <1>12, <1>13 DEF Fenced

\* The worker that called writes down the answer it got.
LEMMA RecordFenced ==
  ASSUME Fenced, TypeOK', NEW w \in Worker, RecordOutcome(w)
  PROVE  Fenced'
<1> USE DEF grants, ghost
<1> DEFINE e == job[w].exec
           n == ReleasedRow(row[e], StatusOf(job[w].outcome), Clock(w))
<1>0. TypeOK
  BY DEF Fenced
<1>1. pc[w] = "record" /\ e \in Execution /\ row[e] \in Row
  BY <1>0 DEF TypeOK, RecordOutcome
<1>2. /\ StatusOf(job[w].outcome) \in Settled
      /\ StatusOf(job[w].outcome) = "verifying" => job[w].outcome = "accepted"
      /\ StatusOf(job[w].outcome) = "manual" => job[w].outcome = "rejected"
  BY StatusOfFacts
<1>a. StatusOf(job[w].outcome) \in Status
  BY <1>2 DEF Status
<1>3. /\ n \in Row /\ n.status = StatusOf(job[w].outcome)
      /\ n.revision = row[e].revision + 1 /\ n.epoch = row[e].epoch
      /\ n.dispatch = row[e].dispatch
  BY <1>1, <1>a, ReleasedRowFacts
<1>4. Write(e, n) /\ Goto(w, "scan", NoJob)
  BY DEF RecordOutcome, Return
<1>5. /\ row'[e] = n
      /\ \A f \in Execution : f # e => row'[f] = row[f]
      /\ pc'[w] = "scan"
      /\ \A v \in Worker : v # w => pc'[v] = pc[v] /\ job'[v] = job[v]
      /\ UNCHANGED <<nonceOwner, keyOwner, effect, calls, answer>>
  BY <1>0, <1>1, <1>4, WriteFacts, GotoFacts DEF RecordOutcome
<1>6. row[e].dispatch = "started" /\ calls[e] = 1 /\ answer[e] = job[w].outcome
  BY <1>1 DEF Fenced, CallerIsAlone
<1> HIDE DEF n, e
<1>7. RowShape'
  BY <1>2, <1>3, <1>5, <1>6 DEF Fenced, RowShape, Settled
<1>8. DispatchHoldsReservations'
  BY <1>3, <1>5 DEF Fenced, DispatchHoldsReservations
<1>9. CallsAreFenced'
  BY <1>2, <1>3, <1>5, <1>6 DEF Fenced, CallsAreFenced
<1>10. JobShape' /\ EpochIsUnique'
  BY <1>1, <1>3, <1>4, ReleaseStep
<1>11. FenceIsBacked'
  BY <1>1, <1>3, <1>4, <1>5, OthersStayBacked
<1>12. CallerIsAlone'
  <2>1. \A v \in Worker : pc[v] \in {"invoke", "record"} => job[v].exec \in Execution
    BY <1>0 DEF TypeOK
  <2>2. QED
    BY <1>3, <1>5, <2>1 DEF Fenced, CallerIsAlone
<1>13. QED
  BY <1>7, <1>8, <1>9, <1>10, <1>11, <1>12 DEF Fenced

LEMMA FencedNext == ASSUME Fenced, [Next]_vars PROVE Fenced'
<1>0. TypeOK /\ TypeOK'
  BY TypeNext DEF Fenced
<1>1. ASSUME Tick PROVE Fenced'
  <2>1. UNCHANGED <<row, nonceOwner, keyOwner, effect, pc, job, calls, answer>>
    BY <1>1 DEF Tick, store, ghost
  <2>2. RowShape' /\ DispatchHoldsReservations' /\ CallsAreFenced'
    BY <2>1 DEF Fenced, RowShape, DispatchHoldsReservations, CallsAreFenced
  <2>3. JobShape' /\ EpochIsUnique'
    BY <2>1 DEF Fenced, JobShape, EpochIsUnique, Owns
  <2>4. FenceIsBacked' /\ CallerIsAlone'
    BY <2>1 DEF Fenced, FenceIsBacked, Holds, CallerIsAlone
  <2>5. QED
    BY <1>0, <2>2, <2>3, <2>4 DEF Fenced
<1>2. ASSUME NEW e \in Execution, EnqueueWithAuthority(e) \/ Create(e) PROVE Fenced'
  BY <1>0, <1>2, InsertFenced DEF EnqueueWithAuthority, Create
<1>3. ASSUME NEW w \in Worker, Round(w) \/ Abandon(w) PROVE Fenced'
  <2> USE DEF ghost
  <2>a. ASSUME NEW stage \in {"scan", "recover", "claim"}, NEW j,
               Goto(w, stage, j), UNCHANGED <<now, store, ghost>>
        PROVE  Fenced'
    BY <1>0, <2>a, StopFenced DEF store
  <2>1. CASE FindNextExpired(w) \/ FindNoneExpired(w) \/ RecoverConflict(w)
    BY <2>a, <2>1 DEF FindNextExpired, FindNoneExpired, RecoverConflict
  <2>2. CASE RecoverFails(w) \/ ClaimFails(w) \/ ClaimIdle(w) \/ Refused(w) \/ Abandon(w)
    BY <2>a, <2>2 DEF RecoverFails, ClaimFails, ClaimIdle, Refused, Abandon, Return
  <2>3. CASE ReadAuthority(w)
    <3>1. CASE Return(w)
      BY <2>a, <2>3, <3>1 DEF ReadAuthority, Return
    <3>2. CASE Goto(w, "renew", job[w])
      BY <1>0, <2>3, <3>2, AdvanceFenced DEF ReadAuthority, Stage, store
    <3>3. QED
      BY <2>3, <3>1, <3>2 DEF ReadAuthority
  <2>4. CASE ResolveSecret(w)
    BY <1>0, <2>4, AdvanceFenced DEF ResolveSecret, Stage, store
  <2>5. CASE RecoverExpired(w) \/ ClaimNext(w)
    BY <1>0, <2>5, RecoverFenced, ClaimFenced
  <2>6. CASE RenewLease(w) \/ ConsumeGrantAndReserveEffect(w)
    BY <1>0, <2>6, RenewFenced, ReserveFenced
  <2>7. CASE MarkDispatchStarted(w) \/ Invoke(w) \/ RecordOutcome(w)
    BY <1>0, <2>7, StartFenced, InvokeFenced, RecordFenced
  <2>8. QED
    BY <1>3, <2>1, <2>2, <2>3, <2>4, <2>5, <2>6, <2>7 DEF Round
<1>4. ASSUME UNCHANGED vars PROVE Fenced'
  <2>1. UNCHANGED <<row, nonceOwner, keyOwner, effect, pc, job, calls, answer>>
    BY <1>4 DEF vars
  <2>2. RowShape' /\ DispatchHoldsReservations' /\ CallsAreFenced'
    BY <2>1 DEF Fenced, RowShape, DispatchHoldsReservations, CallsAreFenced
  <2>3. JobShape' /\ EpochIsUnique'
    BY <2>1 DEF Fenced, JobShape, EpochIsUnique, Owns
  <2>4. FenceIsBacked' /\ CallerIsAlone'
    BY <2>1 DEF Fenced, FenceIsBacked, Holds, CallerIsAlone
  <2>5. QED
    BY <1>0, <2>2, <2>3, <2>4 DEF Fenced
<1>5. QED
  BY <1>1, <1>2, <1>3, <1>4 DEF Next

(***************************************************************************)
(* What follows from Fenced.                                               *)
(***************************************************************************)

\* The whole inductive invariant: crashes, takeovers, expired leases and late
\* workers leave the rows, the reservations and the calls consistent.
THEOREM FencedAlways == Spec => []Fenced
<1>1. Init => Fenced
  BY FencedInit
<1>2. Fenced /\ [Next]_vars => Fenced'
  BY FencedNext
<1>3. QED
  BY <1>1, <1>2, PTL DEF Spec

\* No operation, key or nonce is spent on two calls of the adapter, whatever
\* the number of executions that name it and of workers that run them.
THEOREM AtMostOneCallAlways == Spec => []AtMostOneCall
<1>1. ASSUME Fenced PROVE AtMostOneCall
  <2> SUFFICES ASSUME NEW e \in Execution, NEW f \in Execution
               PROVE  /\ calls[e] <= 1
                      /\ calls[e] > 0 /\ calls[f] > 0 /\ SameEffect(e, f) => e = f
    BY DEF AtMostOneCall
  <2>1. calls[e] \in {0, 1} /\ calls[f] \in {0, 1}
    BY <1>1 DEF Fenced, CallsAreFenced
  <2>2. ASSUME calls[e] > 0, calls[f] > 0, SameEffect(e, f) PROVE e = f
    <3>1. row[e].dispatch = "started" /\ row[f].dispatch = "started"
      BY <1>1, <2>2 DEF Fenced, CallsAreFenced, TypeOK, Row
    <3>2. Holds(e, row[e].epoch) /\ Holds(f, row[f].epoch)
      BY <1>1, <3>1 DEF Fenced, DispatchHoldsReservations, Holds
    <3>3. QED
      BY <2>2, <3>2 DEF SameEffect, Holds
  <2>3. QED
    BY <2>1, <2>2
<1>2. QED
  BY <1>1, FencedAlways, PTL

\* What a worker may claim, nobody has called nor is about to call.
THEOREM ClaimableIsUntouchedAlways == Spec => []ClaimableIsUntouched
<1>1. ASSUME Fenced PROVE ClaimableIsUntouched
  <2> SUFFICES ASSUME NEW e \in Execution, row[e].status \in {"queued", "recovery"}
               PROVE  /\ calls[e] = 0
                      /\ \A w \in Worker : job[w].exec = e => pc[w] \notin {"invoke", "record"}
    BY DEF ClaimableIsUntouched, Claimable
  <2>1. row[e].dispatch = "not-started"
    BY <1>1 DEF Fenced, RowShape, TypeOK, Row, Settled
  <2>2. QED
    BY <1>1, <2>1 DEF Fenced, CallsAreFenced, CallerIsAlone
<1>2. QED
  BY <1>1, FencedAlways, PTL

\* No row says more than the provider answered.
THEOREM OutcomeIsHonestAlways == Spec => []OutcomeIsHonest
<1>1. ASSUME Fenced PROVE OutcomeIsHonest
  BY <1>1 DEF Fenced, CallsAreFenced, RowShape, OutcomeIsHonest
<1>2. QED
  BY <1>1, FencedAlways, PTL

\* A dispatched execution holds its nonce, key and effect for good.
THEOREM DispatchHoldsReservationsAlways == Spec => []DispatchHoldsReservations
<1>1. ASSUME Fenced PROVE DispatchHoldsReservations
  BY <1>1 DEF Fenced
<1>2. QED
  BY <1>1, FencedAlways, PTL

(***************************************************************************)
(* The outbox.  Every transaction but Stage B writes the event of the      *)
(* revision it makes, and Stage B only follows a revision with an event.   *)
(***************************************************************************)

\* Of the events `told', x is the newest one and says what the row r says.
Tells(x, told, r) ==
  /\ x \in told
  /\ \A y \in told : y.revision < x.revision \/ y = x
  /\ \/ x.status = r.status
     \/ x.type = "execution.dispatch-started" /\ r.status = "executing"
  /\ (r.dispatch = "started") <=> (\E y \in told : y.type = "execution.dispatch-started")
  /\ \/ x.revision = r.revision
     \/ /\ x.revision = r.revision - 1
        /\ r.status = "executing"
        /\ r.dispatch = "not-started"

Heard(told, r) == IF r.status = "absent" THEN told = {} ELSE \E x \in told : Tells(x, told, r)

\* A worker that has yet to come to Stage B holds a revision with an event.
BeforeStageB == {"authority", "renew", "reserve"}

OutboxIsHeard ==
  /\ \A e \in Execution : Heard(EventsOf(e), row[e])
  /\ \A w \in Worker :
       pc[w] \in BeforeStageB /\ job[w].revision = row[job[w].exec].revision =>
         \E x \in EventsOf(job[w].exec) : x.revision = job[w].revision

LEMMA HeardInit == Init => OutboxIsHeard
  BY DEF Init, OutboxIsHeard, Heard, EventsOf, AbsentRow, BeforeStageB

\* Steps that write no row and no event, and bring nobody before Stage B.
LEMMA HeardQuiet ==
  ASSUME OutboxIsHeard, UNCHANGED <<row, outbox>>,
         \A w \in Worker : pc'[w] \in BeforeStageB =>
                             pc[w] \in BeforeStageB /\ job'[w] = job[w]
  PROVE  OutboxIsHeard'
<1>1. row' = row /\ \A e \in Execution \cup {NoExecution} : EventsOf(e)' = EventsOf(e)
  BY DEF EventsOf
<1>2. \A e \in Execution : Heard(EventsOf(e), row[e])'
  BY <1>1 DEF OutboxIsHeard, EventsOf
<1>3. QED
  BY <1>1, <1>2 DEF OutboxIsHeard, EventsOf

\* An event of the next revision tells the row that is written with it.
LEMMA TellsTheNext ==
  ASSUME NEW told, NEW r, NEW n, NEW ev, r.revision \in Nat,
         \A y \in told : y.revision \in Nat, Heard(told, r),
         r.status = "absent" => r.dispatch # "started",
         n.status # "absent", n.revision = r.revision + 1, ev.revision = r.revision + 1,
         (n.dispatch = "started") <=>
           (r.dispatch = "started" \/ ev.type = "execution.dispatch-started"),
         \/ ev.status = n.status
         \/ ev.type = "execution.dispatch-started" /\ n.status = "executing"
  PROVE  Heard(told \cup {ev}, n)
<1>1. \A y \in told : y.revision < ev.revision
  <2>1. CASE r.status = "absent"
    BY <2>1 DEF Heard
  <2>2. CASE r.status # "absent"
    <3>1. PICK x \in told : Tells(x, told, r)
      BY <2>2 DEF Heard
    <3>2. x.revision \in Nat /\ x.revision <= r.revision
      BY <3>1 DEF Tells
    <3>3. \A y \in told : y.revision <= r.revision
      BY <3>1, <3>2 DEF Tells
    <3>4. QED
      BY <3>3
  <2>3. QED
    BY <2>1, <2>2
<1>2. (r.dispatch = "started") <=> (\E y \in told : y.type = "execution.dispatch-started")
  <2>1. CASE r.status = "absent"
    BY <2>1 DEF Heard
  <2>2. CASE r.status # "absent"
    BY <2>2 DEF Heard, Tells
  <2>3. QED
    BY <2>1, <2>2
<1>3. Tells(ev, told \cup {ev}, n)
  <2>1. \A y \in told \cup {ev} : y.revision < ev.revision \/ y = ev
    BY <1>1
  <2>2. (n.dispatch = "started") <=>
          (\E y \in told \cup {ev} : y.type = "execution.dispatch-started")
    BY <1>2
  <2>3. QED
    BY <2>1, <2>2 DEF Tells
<1>4. QED
  BY <1>3 DEF Heard

\* A transaction that writes the next revision and its event.
LEMMA HeardEvent ==
  ASSUME Fenced, OutboxIsHeard, NEW e \in Execution, NEW n \in Row, NEW type, NEW status,
         Write(e, n), Emit(e, row[e].revision + 1, type, status),
         n.revision = row[e].revision + 1, n.status # "absent",
         (n.dispatch = "started") <=>
           (row[e].dispatch = "started" \/ type = "execution.dispatch-started"),
         \/ status = n.status
         \/ type = "execution.dispatch-started" /\ n.status = "executing",
         \A w \in Worker : pc'[w] \in BeforeStageB =>
           \/ job'[w].exec = e
           \/ pc[w] \in BeforeStageB /\ job'[w] = job[w]
  PROVE  OutboxIsHeard'
<1> DEFINE ev == [exec |-> e, revision |-> row[e].revision + 1, type |-> type, status |-> status]
<1>1. TypeOK /\ row[e] \in Row /\ outbox \subseteq Event
  BY DEF Fenced, TypeOK
<1>2. /\ outbox' = outbox \cup {ev}
      /\ row'[e] = n
      /\ \A f \in Execution : f # e => row'[f] = row[f]
  BY <1>1, WriteFacts DEF Emit
<1>3. /\ ev.exec = e /\ ev.revision = row[e].revision + 1 /\ ev.type = type /\ ev.status = status
      /\ row[e].revision \in Nat
  BY <1>1 DEF Row
<1> HIDE DEF ev
<1>4. /\ EventsOf(e)' = EventsOf(e) \cup {ev}
      /\ \A f \in Execution : f # e => EventsOf(f)' = EventsOf(f)
  BY <1>2, <1>3 DEF EventsOf
<1>5. \A y \in EventsOf(e) : y.revision \in Nat
  BY <1>1 DEF EventsOf, Event
<1>6. row[e].status = "absent" => row[e].dispatch # "started"
  BY DEF Fenced, RowShape, Settled
<1>7. Heard(EventsOf(e) \cup {ev}, n)
  <2>1. Heard(EventsOf(e), row[e])
    BY DEF OutboxIsHeard
  <2>2. QED
    BY <1>3, <1>5, <1>6, <2>1, TellsTheNext
<1>8. ASSUME NEW f \in Execution PROVE Heard(EventsOf(f), row[f])'
  <2>1. CASE f = e
    BY <1>2, <1>4, <1>7, <2>1
  <2>2. CASE f # e
    <3>1. Heard(EventsOf(f), row[f])
      BY DEF OutboxIsHeard
    <3>2. QED
      BY <1>2, <1>4, <2>2, <3>1
  <2>3. QED
    BY <2>1, <2>2
<1>9. ASSUME NEW w \in Worker, pc'[w] \in BeforeStageB,
             job'[w].revision = row'[job'[w].exec].revision
      PROVE  \E x \in outbox' : x.exec = job'[w].exec /\ x.revision = job'[w].revision
  <2>1. CASE job'[w].exec = e
    BY <1>2, <1>3, <1>9, <2>1
  <2>2. CASE job'[w].exec # e
    <3>1. pc[w] \in BeforeStageB /\ job'[w] = job[w]
      BY <1>9, <2>2
    <3>2. job[w].exec \in Execution
      BY <1>1, <3>1 DEF TypeOK, BeforeStageB
    <3>3. row'[job[w].exec] = row[job[w].exec]
      BY <1>2, <2>2, <3>1, <3>2
    <3>4. PICK x \in EventsOf(job[w].exec) : x.revision = job[w].revision
      BY <1>9, <3>1, <3>3 DEF OutboxIsHeard
    <3>5. QED
      BY <1>2, <3>1, <3>4 DEF EventsOf
  <2>3. QED
    BY <2>1, <2>2
<1>10. QED
  BY <1>8, <1>9 DEF OutboxIsHeard, EventsOf

\* Stage B advances a revision that has an event to one that has none.
LEMMA HeardReserve ==
  ASSUME Fenced, OutboxIsHeard, NEW w \in Worker, ConsumeGrantAndReserveEffect(w)
  PROVE  OutboxIsHeard'
<1> DEFINE e == job[w].exec
           n == ReservedRow(row[e], now)
<1>1. TypeOK /\ e \in Execution /\ row[e] \in Row /\ outbox \subseteq Event
  BY DEF Fenced, TypeOK, ConsumeGrantAndReserveEffect
<1>2. /\ n.status = row[e].status /\ n.revision = row[e].revision + 1
      /\ n.dispatch = row[e].dispatch
  BY <1>1, ReservedRowFacts
<1>3. /\ row[e].status = "executing" /\ row[e].dispatch = "not-started"
      /\ row[e].revision = job[w].revision /\ pc[w] = "reserve"
  BY DEF ConsumeGrantAndReserveEffect, CanReserve, Owns
<1>4. /\ row'[e] = n /\ \A f \in Execution : f # e => row'[f] = row[f]
      /\ pc'[w] = "resolve"
      /\ \A v \in Worker : v # w => pc'[v] = pc[v] /\ job'[v] = job[v]
      /\ outbox' = outbox
  BY <1>1, WriteFacts, GotoFacts DEF ConsumeGrantAndReserveEffect
<1> HIDE DEF n, e
<1>5. PICK x \in EventsOf(e) : Tells(x, EventsOf(e), row[e])
  BY <1>1, <1>3 DEF OutboxIsHeard, Heard
<1>6. x.revision = row[e].revision /\ x.revision \in Nat
  <2>1. PICK y \in EventsOf(e) : y.revision = row[e].revision
    BY <1>1, <1>3 DEF OutboxIsHeard, BeforeStageB, e
  <2>2. x.revision \in Nat /\ row[e].revision \in Nat
    BY <1>1 DEF EventsOf, Event, Row
  <2>3. QED
    BY <1>5, <2>1, <2>2 DEF Tells
<1>7. Heard(EventsOf(e), n)
  <2>1. x.revision = n.revision - 1
    BY <1>2, <1>6
  <2>2. Tells(x, EventsOf(e), n)
    BY <1>2, <1>3, <1>5, <2>1 DEF Tells
  <2>3. QED
    BY <1>2, <1>3, <1>5, <2>2 DEF Heard
<1>8. ASSUME NEW f \in Execution PROVE Heard(EventsOf(f), row[f])'
  <2>1. EventsOf(f)' = EventsOf(f)
    BY <1>4 DEF EventsOf
  <2>2. CASE f = e
    BY <1>4, <1>7, <2>1, <2>2
  <2>3. CASE f # e
    <3>1. Heard(EventsOf(f), row[f])
      BY DEF OutboxIsHeard
    <3>2. QED
      BY <1>4, <2>1, <2>3, <3>1
  <2>4. QED
    BY <2>2, <2>3
<1>9. ASSUME NEW v \in Worker, pc'[v] \in BeforeStageB,
             job'[v].revision = row'[job'[v].exec].revision
      PROVE  \E y \in outbox' : y.exec = job'[v].exec /\ y.revision = job'[v].revision
  <2>1. v # w /\ pc[v] \in BeforeStageB /\ job'[v] = job[v]
    BY <1>4, <1>9 DEF BeforeStageB
  <2>2. job[v].exec \in Execution /\ job[v].revision <= row[job[v].exec].revision
    <3>1. job[v].exec \in Execution
      BY <1>1, <2>1 DEF TypeOK, BeforeStageB
    <3>2. pc[v] \in Holding
      BY <2>1 DEF Holding, Stage, BeforeStageB
    <3>3. QED
      BY <3>1, <3>2 DEF Fenced, JobShape
  <2>3. job[v].exec # e
    <3>1. job[v].revision \in Nat /\ row[e].revision \in Nat
      BY <1>1 DEF TypeOK, Job, Row
    <3>2. QED
      BY <1>2, <1>4, <1>9, <2>1, <2>2, <3>1
  <2>4. PICK y \in EventsOf(job[v].exec) : y.revision = job[v].revision
    BY <1>4, <1>9, <2>1, <2>2, <2>3 DEF OutboxIsHeard
  <2>5. QED
    BY <1>4, <2>1, <2>4 DEF EventsOf
<1>10. QED
  BY <1>8, <1>9 DEF OutboxIsHeard, EventsOf

LEMMA HeardNext == ASSUME Fenced, OutboxIsHeard, [Next]_vars PROVE OutboxIsHeard'
<1>1. TypeOK
  BY DEF Fenced
<1>2. CASE Tick \/ UNCHANGED vars
  BY <1>2, HeardQuiet DEF Tick, store, vars
<1>3. ASSUME NEW e \in Execution, EnqueueWithAuthority(e) \/ Create(e)
      PROVE  OutboxIsHeard'
  <2>1. /\ row[e].status = "absent" /\ Write(e, QueuedRow)
        /\ Emit(e, 1, "execution.queued", "queued") /\ UNCHANGED <<pc, job>>
    BY <1>3 DEF EnqueueWithAuthority, Create, Insert
  <2>2. row[e].revision = 0 /\ row[e].dispatch = "not-started"
    BY <1>1, <2>1 DEF Fenced, RowShape, TypeOK, Row, Settled
  <2>3. /\ QueuedRow \in Row /\ QueuedRow.revision = 1 /\ QueuedRow.status = "queued"
        /\ QueuedRow.dispatch = "not-started"
    BY <1>1, QueuedRowType DEF QueuedRow
  <2>4. Emit(e, row[e].revision + 1, "execution.queued", "queued")
    BY <2>1, <2>2
  <2>5. QED
    BY <2>1, <2>2, <2>3, <2>4, HeardEvent
<1>4. ASSUME NEW w \in Worker, RecoverExpired(w) PROVE OutboxIsHeard'
  <2> DEFINE e == job[w].exec
             n == ReleasedRow(row[e], StatusAfterExpiry(row[e]), job[w].seen)
  <2>1. e \in Execution /\ row[e] \in Row
    BY <1>1, <1>4 DEF TypeOK, RecoverExpired
  <2>2. StatusAfterExpiry(row[e]) \in Status \ {"absent"}
    BY <2>1, StatusAfterExpiryFacts DEF Status, Settled
  <2>3. /\ n \in Row /\ n.status = StatusAfterExpiry(row[e]) /\ n.revision = row[e].revision + 1
        /\ n.dispatch = row[e].dispatch
    BY <2>1, <2>2, ReleasedRowFacts
  <2>4. /\ Write(e, n) /\ Goto(w, "claim", NoJob)
        /\ Emit(e, row[e].revision + 1, "execution.state-changed", StatusAfterExpiry(row[e]))
    BY <1>4 DEF RecoverExpired
  <2> HIDE DEF n, e
  <2>5. \A v \in Worker : pc'[v] \in BeforeStageB => pc[v] \in BeforeStageB /\ job'[v] = job[v]
    BY <1>1, <2>4, GotoFacts DEF BeforeStageB
  <2>6. QED
    BY <2>1, <2>2, <2>3, <2>4, <2>5, HeardEvent
<1>5. ASSUME NEW w \in Worker, ClaimNext(w) PROVE OutboxIsHeard'
  <2>0. now \in Nat /\ Skew[w] \in Int /\ LeaseMs \in Nat
    BY <1>1, ConstantsAssumption DEF TypeOK
  <2>1. Clock(w) + LeaseMs \in Int
    BY <2>0 DEF Clock
  <2>2. PICK e \in Execution :
          /\ Write(e, ClaimedRow(row[e], w, Clock(w) + LeaseMs))
          /\ Emit(e, row[e].revision + 1, "execution.claimed", "executing")
          /\ Goto(w, "authority", LeasedJob(e, Clock(w) + LeaseMs))
    BY <1>5 DEF ClaimNext, ClaimChoice, Claimable
  <2> DEFINE n == ClaimedRow(row[e], w, Clock(w) + LeaseMs)
             j == LeasedJob(e, Clock(w) + LeaseMs)
  <2>3. row[e] \in Row /\ j.exec = e
    BY <1>1 DEF TypeOK, LeasedJob
  <2>4. /\ n \in Row /\ n.status = "executing" /\ n.revision = row[e].revision + 1
        /\ n.dispatch = row[e].dispatch
    BY <2>1, <2>3, ClaimedRowFacts
  <2>5. /\ pc'[w] = "authority" /\ job'[w] = j
        /\ \A v \in Worker : v # w => pc'[v] = pc[v] /\ job'[v] = job[v]
    BY <1>1, <2>2, GotoFacts
  <2> HIDE DEF n, j
  <2>6. Write(e, n)
    BY <2>2 DEF n
  <2>7. QED
    BY <2>2, <2>3, <2>4, <2>5, <2>6, HeardEvent
<1>6. ASSUME NEW w \in Worker, RenewLease(w) PROVE OutboxIsHeard'
  <2> DEFINE e == job[w].exec
             n == RenewedRow(row[e], Clock(w) + LeaseMs, Clock(w))
             j == [job[w] EXCEPT !.revision = @ + 1, !.expires = Clock(w) + LeaseMs]
  <2>0. now \in Nat /\ Skew[w] \in Int /\ LeaseMs \in Nat
    BY <1>1, ConstantsAssumption DEF TypeOK
  <2>1. /\ Clock(w) + LeaseMs \in Int /\ e \in Execution /\ row[e] \in Row
        /\ row[e].status = "executing" /\ j.exec = e
    BY <1>1, <1>6, <2>0 DEF Clock, TypeOK, RenewLease, CanRenew, Owns, Job
  <2>2. /\ n \in Row /\ n.status = "executing" /\ n.revision = row[e].revision + 1
        /\ n.dispatch = row[e].dispatch
    BY <2>1, RenewedRowFacts
  <2>3. /\ Write(e, n) /\ Goto(w, "reserve", j)
        /\ Emit(e, row[e].revision + 1, "execution.state-changed", "executing")
    BY <1>6 DEF RenewLease
  <2> HIDE DEF n, j, e
  <2>4. job'[w] = j /\ \A v \in Worker : v # w => pc'[v] = pc[v] /\ job'[v] = job[v]
    BY <1>1, <2>3, GotoFacts
  <2>5. QED
    BY <2>1, <2>2, <2>3, <2>4, HeardEvent, ZenonT(30)
<1>7. ASSUME NEW w \in Worker, MarkDispatchStarted(w) PROVE OutboxIsHeard'
  <2> DEFINE e == job[w].exec
             n == StartedRow(row[e])
             j == [job[w] EXCEPT !.revision = @ + 1]
  <2>1. e \in Execution /\ row[e] \in Row /\ row[e].status = "executing"
    BY <1>1, <1>7 DEF TypeOK, MarkDispatchStarted, CanStart, Owns
  <2>2. /\ n \in Row /\ n.status = "executing" /\ n.revision = row[e].revision + 1
        /\ n.dispatch = "started"
    BY <2>1, StartedRowFacts
  <2>3. /\ Write(e, n) /\ Goto(w, "invoke", j)
        /\ Emit(e, row[e].revision + 1, "execution.dispatch-started", "unstated")
    BY <1>7 DEF MarkDispatchStarted
  <2> HIDE DEF n, j, e
  <2>4. \A v \in Worker : pc'[v] \in BeforeStageB => pc[v] \in BeforeStageB /\ job'[v] = job[v]
    BY <1>1, <2>3, GotoFacts DEF BeforeStageB
  <2>5. QED
    BY <2>1, <2>2, <2>3, <2>4, HeardEvent
<1>8. ASSUME NEW w \in Worker, RecordOutcome(w) PROVE OutboxIsHeard'
  <2> DEFINE e == job[w].exec
             n == ReleasedRow(row[e], StatusOf(job[w].outcome), Clock(w))
  <2>1. e \in Execution /\ row[e] \in Row
    BY <1>1, <1>8 DEF TypeOK, RecordOutcome
  <2>2. StatusOf(job[w].outcome) \in Status \ {"absent"}
    BY StatusOfFacts DEF Status, Settled
  <2>3. /\ n \in Row /\ n.status = StatusOf(job[w].outcome) /\ n.revision = row[e].revision + 1
        /\ n.dispatch = row[e].dispatch
    BY <2>1, <2>2, ReleasedRowFacts
  <2>4. /\ Write(e, n) /\ Goto(w, "scan", NoJob)
        /\ Emit(e, row[e].revision + 1, "execution.state-changed", StatusOf(job[w].outcome))
    BY <1>8 DEF RecordOutcome, Return
  <2> HIDE DEF n, e
  <2>5. \A v \in Worker : pc'[v] \in BeforeStageB => pc[v] \in BeforeStageB /\ job'[v] = job[v]
    BY <1>1, <2>4, GotoFacts DEF BeforeStageB
  <2>6. QED
    BY <2>1, <2>2, <2>3, <2>4, <2>5, HeardEvent
<1>9. ASSUME NEW w \in Worker, NEW stage \in Stage \ BeforeStageB, NEW j, Goto(w, stage, j),
             UNCHANGED <<row, outbox>>
      PROVE  OutboxIsHeard'
  <2>1. \A v \in Worker : pc'[v] \in BeforeStageB => pc[v] \in BeforeStageB /\ job'[v] = job[v]
    BY <1>1, <1>9, GotoFacts
  <2>2. QED
    BY <1>9, <2>1, HeardQuiet
<1>10. ASSUME NEW w \in Worker, ReadAuthority(w) PROVE OutboxIsHeard'
  <2>1. CASE job[w].exec \in authority
    <3>1. Goto(w, "renew", job[w]) /\ pc[w] = "authority" /\ UNCHANGED <<row, outbox>>
      BY <1>10, <2>1 DEF ReadAuthority, store
    <3>2. \A v \in Worker : pc'[v] \in BeforeStageB => pc[v] \in BeforeStageB /\ job'[v] = job[v]
      BY <1>1, <3>1, GotoFacts DEF BeforeStageB
    <3>3. QED
      BY <3>1, <3>2, HeardQuiet
  <2>2. CASE job[w].exec \notin authority
    BY <1>9, <1>10, <2>2 DEF ReadAuthority, Return, store, Stage, BeforeStageB
  <2>3. QED
    BY <2>1, <2>2
<1>11. ASSUME NEW w \in Worker,
              \/ FindNextExpired(w) \/ FindNoneExpired(w) \/ RecoverConflict(w) \/ RecoverFails(w)
              \/ ClaimFails(w) \/ ClaimIdle(w) \/ Refused(w) \/ Abandon(w)
       PROVE  OutboxIsHeard'
  <2>1. /\ UNCHANGED <<row, outbox>>
        /\ \E stage \in {"scan", "recover", "claim"} : \E j : Goto(w, stage, j)
    BY <1>11, Zenon DEF FindNextExpired, FindNoneExpired, RecoverConflict, RecoverFails, ClaimFails,
       ClaimIdle, Refused, Abandon, Return, store
  <2>2. QED
    BY <1>9, <2>1 DEF Stage, BeforeStageB
<1>12. ASSUME NEW w \in Worker, ResolveSecret(w) \/ Invoke(w) PROVE OutboxIsHeard'
  <2>1. CASE ResolveSecret(w)
    BY <1>9, <2>1 DEF ResolveSecret, store, Stage, BeforeStageB
  <2>2. CASE Invoke(w)
    BY <1>9, <2>2 DEF Invoke, store, Stage, BeforeStageB
  <2>3. QED
    BY <1>12, <2>1, <2>2
<1>13. QED
  BY <1>2, <1>3, <1>4, <1>5, <1>6, <1>7, <1>8, <1>10, <1>11, <1>12, HeardReserve
     DEF Next, Round

\* A consumer that keeps the newest event of an execution knows its row, even
\* across takeovers and recoveries, although Stage B writes no event.
THEOREM OutboxTellsTheRowAlways == Spec => []OutboxTellsTheRow
<1>1. Init => OutboxIsHeard
  BY HeardInit
<1>2. Fenced /\ OutboxIsHeard /\ [Next]_vars => OutboxIsHeard'
  BY HeardNext
<1>3. OutboxIsHeard => OutboxTellsTheRow
  BY DEF OutboxIsHeard, OutboxTellsTheRow, Heard, Tells
<1>4. QED
  BY <1>1, <1>2, <1>3, FencedAlways, PTL DEF Spec

(***************************************************************************)
(* What a step may do to a row.                                            *)
(***************************************************************************)

\* A row that nobody has inserted has no epoch yet, and a worker looks at a row
\* it found expired at an instant that is past.
ScansArePast ==
  /\ \A e \in Execution : row[e].status = "absent" => row[e].epoch = 0
  /\ \A w \in Worker : pc[w] = "recover" => job[w].seen <= now

Forward(r, s) ==
  /\ s.revision = r.revision + 1
  /\ r.status \notin Settled
  /\ r.dispatch = "started" => s.dispatch = "started"
  /\ IF r.status \in {"queued", "recovery"} THEN s.epoch = r.epoch + 1 ELSE s.epoch = r.epoch

\* The holder of the row is the one that moves it, and knows it as it is.
MovedByHolder(e) ==
  \E w \in Worker : /\ w = row[e].holder
                    /\ job[w].exec = e
                    /\ job[w].epoch = row[e].epoch
                    /\ job[w].revision = row[e].revision

Live(e) == row[e].status = "executing" /\ row[e].expires > now

RowsMoveWell ==
  \A e \in Execution : row'[e] # row[e] =>
    /\ Forward(row[e], row'[e])
    /\ Live(e) => MovedByHolder(e)
    /\ row'[e].status # "absent"

LEMMA OneRowMoves ==
  ASSUME TypeOK, NEW e \in Execution, NEW n, Write(e, n),
         Forward(row[e], n), n.status # "absent", Live(e) => MovedByHolder(e)
  PROVE  RowsMoveWell
  BY WriteFacts DEF RowsMoveWell

LEMMA OwnerIsHolder ==
  ASSUME NEW w \in Worker, Owns(w, row[job[w].exec])
  PROVE  MovedByHolder(job[w].exec) /\ row[job[w].exec].status = "executing"
  BY DEF Owns, MovedByHolder

LEMMA InsertMovesWell ==
  ASSUME Fenced, ScansArePast, NEW e \in Execution, Insert(e)
  PROVE  RowsMoveWell
<1>1. TypeOK /\ Write(e, QueuedRow) /\ row[e].status = "absent"
  BY DEF Fenced, Insert
<1>2. row[e].epoch = 0 /\ row[e].revision = 0 /\ row[e].dispatch # "started"
  BY <1>1 DEF ScansArePast, Fenced, RowShape, Settled
<1>3. Forward(row[e], QueuedRow) /\ QueuedRow.status # "absent" /\ ~ Live(e)
  BY <1>1, <1>2 DEF Forward, QueuedRow, Settled, Live
<1>4. QED
  BY <1>1, <1>3, OneRowMoves

LEMMA RecoverMovesWell ==
  ASSUME Fenced, ScansArePast, NEW w \in Worker, RecoverExpired(w)
  PROVE  RowsMoveWell
<1> DEFINE e == job[w].exec
           n == ReleasedRow(row[e], StatusAfterExpiry(row[e]), job[w].seen)
<1>1. TypeOK /\ e \in Execution /\ row[e] \in Row /\ now \in Nat /\ job[w] \in Job
  BY DEF Fenced, TypeOK, RecoverExpired
<1>2. StatusAfterExpiry(row[e]) \in {"uncertain", "recovery"}
  BY <1>1, StatusAfterExpiryFacts
<1>3. /\ n.status = StatusAfterExpiry(row[e])
      /\ n.revision = row[e].revision + 1 /\ n.epoch = row[e].epoch
      /\ n.dispatch = row[e].dispatch
  BY <1>1, <1>2, ReleasedRowFacts DEF Status, Settled
<1>4. /\ Write(e, n) /\ row[e].status = "executing" /\ row[e].expires <= job[w].seen
      /\ job[w].seen <= now
  BY DEF RecoverExpired, ScansArePast
<1>5. ~ Live(e)
  BY <1>1, <1>4 DEF Live, Row, Job
<1> HIDE DEF n, e
<1>6. Forward(row[e], n) /\ n.status # "absent"
  BY <1>2, <1>3, <1>4 DEF Forward, Settled
<1>7. QED
  BY <1>1, <1>4, <1>5, <1>6, OneRowMoves

LEMMA ClaimMovesWell ==
  ASSUME Fenced, NEW w \in Worker, ClaimNext(w)
  PROVE  RowsMoveWell
<1>1. TypeOK /\ now \in Nat /\ Skew[w] \in Int /\ LeaseMs \in Nat
  BY ConstantsAssumption DEF Fenced, TypeOK
<1>2. Clock(w) + LeaseMs \in Int
  BY <1>1 DEF Clock
<1>3. PICK e \in Execution :
        /\ row[e].status \in {"queued", "recovery"}
        /\ Write(e, ClaimedRow(row[e], w, Clock(w) + LeaseMs))
  BY DEF ClaimNext, ClaimChoice, Claimable
<1> DEFINE n == ClaimedRow(row[e], w, Clock(w) + LeaseMs)
<1>4. row[e] \in Row
  BY <1>1 DEF TypeOK
<1>5. /\ n.status = "executing" /\ n.revision = row[e].revision + 1
      /\ n.epoch = row[e].epoch + 1 /\ n.dispatch = row[e].dispatch
  BY <1>2, <1>4, ClaimedRowFacts
<1>6. Forward(row[e], n) /\ n.status # "absent" /\ ~ Live(e)
  BY <1>3, <1>5 DEF Forward, Settled, Live
<1>7. QED
  BY <1>1, <1>3, <1>6, OneRowMoves

\* The steps of a worker that owns the row.
LEMMA OwnerMovesWell ==
  ASSUME Fenced, NEW w \in Worker, job[w].exec \in Execution, Owns(w, row[job[w].exec]),
         NEW n, Write(job[w].exec, n), n.status # "absent",
         n.revision = row[job[w].exec].revision + 1,
         n.epoch = row[job[w].exec].epoch,
         n.dispatch \in {row[job[w].exec].dispatch, "started"}
  PROVE  RowsMoveWell
<1> DEFINE e == job[w].exec
<1>1. MovedByHolder(e) /\ row[e].status = "executing"
  BY OwnerIsHolder
<1>2. Forward(row[e], n)
  BY <1>1 DEF Forward, Settled
<1>3. QED
  BY <1>1, <1>2, OneRowMoves DEF Fenced

LEMMA RenewMovesWell ==
  ASSUME Fenced, NEW w \in Worker, RenewLease(w)
  PROVE  RowsMoveWell
<1> DEFINE e == job[w].exec
           until == Clock(w) + LeaseMs
           n == RenewedRow(row[e], until, Clock(w))
<1>1. e \in Execution /\ row[e] \in Row /\ now \in Nat /\ Skew[w] \in Int /\ LeaseMs \in Nat
  BY ConstantsAssumption DEF Fenced, TypeOK, RenewLease
<1>2. until \in Int
  BY <1>1 DEF Clock
<1>3. Owns(w, row[e]) /\ Write(e, n) /\ row[e].status = "executing"
  BY DEF RenewLease, CanRenew, Owns
<1>4. /\ n.status = row[e].status /\ n.revision = row[e].revision + 1
      /\ n.epoch = row[e].epoch /\ n.dispatch = row[e].dispatch
  BY <1>1, <1>2, RenewedRowFacts
<1> HIDE DEF n
<1>5. QED
  BY <1>1, <1>3, <1>4, OwnerMovesWell

LEMMA ReserveMovesWell ==
  ASSUME Fenced, NEW w \in Worker, ConsumeGrantAndReserveEffect(w)
  PROVE  RowsMoveWell
<1> DEFINE e == job[w].exec
           n == ReservedRow(row[e], now)
<1>1. e \in Execution /\ row[e] \in Row
  BY DEF Fenced, TypeOK, ConsumeGrantAndReserveEffect
<1>2. Owns(w, row[e]) /\ Write(e, n) /\ row[e].status = "executing"
  BY DEF ConsumeGrantAndReserveEffect, CanReserve, Owns
<1>3. /\ n.status = row[e].status /\ n.revision = row[e].revision + 1
      /\ n.epoch = row[e].epoch /\ n.dispatch = row[e].dispatch
  BY <1>1, ReservedRowFacts
<1> HIDE DEF n
<1>4. QED
  BY <1>1, <1>2, <1>3, OwnerMovesWell

LEMMA StartMovesWell ==
  ASSUME Fenced, NEW w \in Worker, MarkDispatchStarted(w)
  PROVE  RowsMoveWell
<1> DEFINE e == job[w].exec
           n == StartedRow(row[e])
<1>1. e \in Execution /\ row[e] \in Row
  BY DEF Fenced, TypeOK, MarkDispatchStarted
<1>2. Owns(w, row[e]) /\ Write(e, n) /\ row[e].status = "executing"
  BY DEF MarkDispatchStarted, CanStart, Owns
<1>3. /\ n.status = row[e].status /\ n.revision = row[e].revision + 1
      /\ n.epoch = row[e].epoch /\ n.dispatch = "started"
  BY <1>1, StartedRowFacts
<1> HIDE DEF n
<1>4. QED
  BY <1>1, <1>2, <1>3, OwnerMovesWell

LEMMA RecordMovesWell ==
  ASSUME Fenced, NEW w \in Worker, RecordOutcome(w)
  PROVE  RowsMoveWell
<1> DEFINE e == job[w].exec
           n == ReleasedRow(row[e], StatusOf(job[w].outcome), Clock(w))
<1>1. e \in Execution /\ row[e] \in Row
  BY DEF Fenced, TypeOK, RecordOutcome
<1>2. Owns(w, row[e]) /\ Write(e, n)
  BY DEF RecordOutcome, CanRecord
<1>3. StatusOf(job[w].outcome) \in Settled /\ StatusOf(job[w].outcome) \in Status
  BY StatusOfFacts DEF Status
<1>4. /\ n.status \in Settled /\ n.revision = row[e].revision + 1
      /\ n.epoch = row[e].epoch /\ n.dispatch = row[e].dispatch
  BY <1>1, <1>3, ReleasedRowFacts
<1> HIDE DEF n
<1>5. QED
  BY <1>1, <1>2, <1>4, OwnerMovesWell DEF Settled

\* Every step moves rows well.
LEMMA EveryRowMovesWell == ASSUME Fenced, ScansArePast, [Next]_vars PROVE RowsMoveWell
<1>1. ASSUME row' = row PROVE RowsMoveWell
  BY <1>1 DEF RowsMoveWell
<1>2. CASE Tick \/ UNCHANGED vars
  BY <1>1, <1>2 DEF Tick, store, vars
<1>3. ASSUME NEW e \in Execution, EnqueueWithAuthority(e) \/ Create(e) PROVE RowsMoveWell
  BY <1>3, InsertMovesWell DEF EnqueueWithAuthority, Create
<1>4. ASSUME NEW w \in Worker, Round(w) \/ Abandon(w) PROVE RowsMoveWell
  <2>1. CASE FindNextExpired(w) \/ FindNoneExpired(w) \/ RecoverConflict(w)
    BY <1>1, <2>1 DEF FindNextExpired, FindNoneExpired, RecoverConflict, store
  <2>2. CASE RecoverFails(w) \/ ClaimFails(w) \/ ClaimIdle(w) \/ Refused(w) \/ Abandon(w)
    BY <1>1, <2>2 DEF RecoverFails, ClaimFails, ClaimIdle, Refused, Abandon, store
  <2>3. CASE ReadAuthority(w) \/ ResolveSecret(w) \/ Invoke(w)
    BY <1>1, <2>3 DEF ReadAuthority, ResolveSecret, Invoke, store
  <2>4. QED
    BY <1>4, <2>1, <2>2, <2>3, RecoverMovesWell, ClaimMovesWell, RenewMovesWell,
       ReserveMovesWell, StartMovesWell, RecordMovesWell DEF Round
<1>5. QED
  BY <1>2, <1>3, <1>4 DEF Next

\* Time does not go back, and only the scan sends a worker to a recovery.
LEMMA ScansStayPast == ASSUME Fenced, ScansArePast, [Next]_vars PROVE ScansArePast'
<1>1. TypeOK /\ now \in Nat /\ RowsMoveWell
  BY EveryRowMovesWell DEF Fenced, TypeOK
<1>2. \A e \in Execution : row'[e].status = "absent" => row'[e].epoch = 0
  BY <1>1 DEF ScansArePast, RowsMoveWell
<1>3. \A w \in Worker : job[w].seen \in Int
  BY <1>1 DEF TypeOK, Job
<1>4. ASSUME NEW v \in Worker, pc'[v] = "recover" PROVE job'[v].seen <= now'
  <2>1. CASE UNCHANGED <<pc, job>> /\ now' \in {now, now + 1}
    BY <1>1, <1>3, <1>4, <2>1 DEF ScansArePast
  <2>2. CASE Tick \/ UNCHANGED vars
    BY <2>1, <2>2 DEF Tick, vars
  <2>3. ASSUME NEW e \in Execution, EnqueueWithAuthority(e) \/ Create(e)
        PROVE  job'[v].seen <= now'
    BY <2>1, <2>3 DEF EnqueueWithAuthority, Create, Insert
  <2>4. ASSUME NEW w \in Worker, NEW stage, NEW j, Goto(w, stage, j), now' = now,
               stage # "recover" \/ j.seen <= now
        PROVE  job'[v].seen <= now'
    <3>1. CASE v = w
      BY <1>1, <1>4, <2>4, <3>1, GotoFacts
    <3>2. CASE v # w
      BY <1>1, <1>4, <2>4, <3>2, GotoFacts DEF ScansArePast
    <3>3. QED
      BY <3>1, <3>2
  <2>5. ASSUME NEW w \in Worker, Round(w) \/ Abandon(w) PROVE job'[v].seen <= now'
    <3>1. CASE FindNextExpired(w)
      <4>1. PICK e \in ScanChoice : Goto(w, "recover", FoundJob(e))
        BY <3>1 DEF FindNextExpired
      <4>2. FoundJob(e).seen <= now /\ now' = now
        BY <1>1, <3>1 DEF FoundJob, FindNextExpired
      <4>3. QED
        BY <4>1, <4>2, <2>4
    <3>2. CASE FindNoneExpired(w) \/ RecoverConflict(w) \/ RecoverExpired(w)
      BY <3>2, <2>4 DEF FindNoneExpired, RecoverConflict, RecoverExpired
    <3>3. CASE RecoverFails(w) \/ ClaimFails(w) \/ ClaimIdle(w) \/ Refused(w) \/ Abandon(w)
      BY <3>3, <2>4 DEF RecoverFails, ClaimFails, ClaimIdle, Refused, Abandon, Return
    <3>4. CASE ReadAuthority(w) \/ ResolveSecret(w) \/ Invoke(w)
      BY <3>4, <2>4 DEF ReadAuthority, ResolveSecret, Invoke, Return
    <3>5. CASE ClaimNext(w) \/ RenewLease(w) \/ ConsumeGrantAndReserveEffect(w)
      BY <3>5, <2>4 DEF ClaimNext, RenewLease, ConsumeGrantAndReserveEffect
    <3>6. CASE MarkDispatchStarted(w) \/ RecordOutcome(w)
      BY <3>6, <2>4 DEF MarkDispatchStarted, RecordOutcome, Return
    <3>7. QED
      BY <2>5, <3>1, <3>2, <3>3, <3>4, <3>5, <3>6 DEF Round
  <2>6. QED
    BY <2>2, <2>3, <2>5 DEF Next
<1>5. QED
  BY <1>2, <1>4 DEF ScansArePast

LEMMA ScansArePastAlways == Spec => []ScansArePast
<1>1. Init => ScansArePast
  BY DEF Init, ScansArePast, AbsentRow
<1>2. QED
  BY <1>1, ScansStayPast, FencedAlways, PTL DEF Spec

\* A row only moves forward, whoever writes it and whatever they have read
\* before: one revision at a time, a new epoch with every claim and only then,
\* never out of a settled status and never back over the dispatch.
THEOREM RowsMoveForward == Spec => RowMovesForward
<1>1. Fenced /\ ScansArePast /\ [Next]_vars
      => [\A e \in Execution : row'[e] # row[e] =>
            /\ row'[e].revision = row[e].revision + 1
            /\ row[e].status \notin Settled
            /\ row[e].dispatch = "started" => row'[e].dispatch = "started"
            /\ IF row[e].status \in {"queued", "recovery"}
                 THEN row'[e].epoch = row[e].epoch + 1
                 ELSE row'[e].epoch = row[e].epoch]_vars
  BY EveryRowMovesWell DEF RowsMoveWell, Forward
<1>2. QED
  BY <1>1, FencedAlways, ScansArePastAlways, PTL DEF Spec, RowMovesForward

\* While a lease is live on the database clock nobody but its holder moves the
\* row: no recovery, no second claim, no worker that lost it before.
THEOREM LiveLeasesAreExclusive == Spec => LiveLeaseIsExclusive
<1>1. Fenced /\ ScansArePast /\ [Next]_vars
      => [\A e \in Execution :
            row[e].status = "executing" /\ row[e].expires > now /\ row'[e] # row[e] =>
              \E w \in Worker : /\ w = row[e].holder
                                /\ job[w].exec = e
                                /\ job[w].epoch = row[e].epoch
                                /\ job[w].revision = row[e].revision]_vars
  BY EveryRowMovesWell DEF RowsMoveWell, Live, MovedByHolder
<1>2. QED
  BY <1>1, FencedAlways, ScansArePastAlways, PTL DEF Spec, LiveLeaseIsExclusive

(***************************************************************************)
(* DurableExecution implements EffectOnce: every initial state maps to an  *)
(* initial one and every step to a step or a stutter.  The invariant       *)
(* Fenced is what makes each mapped guard true.                            *)
(***************************************************************************)

Phases == [e \in Execution |-> PhaseOf(row[e])]

SameView == UNCHANGED <<Phases, calls>>

LEMMA PhaseOfWrite ==
  ASSUME TypeOK, NEW e \in Execution, NEW n, Write(e, n)
  PROVE  Phases' = [Phases EXCEPT ![e] = PhaseOf(n)]
<1>1. row' = [row EXCEPT ![e] = n] /\ row \in [Execution -> Row]
  BY DEF Write, TypeOK
<1>2. QED
  BY <1>1 DEF Phases

\* A write that leaves the status class and the dispatch state is a stutter.
LEMMA PhaseStays ==
  ASSUME TypeOK, NEW e \in Execution, NEW n, Write(e, n), UNCHANGED calls,
         PhaseOf(n) = PhaseOf(row[e])
  PROVE  SameView
  BY PhaseOfWrite DEF SameView, Phases

LEMMA PhaseOfBound ==
  ASSUME Fenced, NEW e \in Execution
  PROVE  PhaseOf(row[e]) \in {"committed", "settled"} <=> row[e].dispatch = "started"
<1>1. row[e] \in Row
  BY DEF Fenced, TypeOK
<1>2. QED
  BY <1>1 DEF Fenced, RowShape, PhaseOf, Row, Settled, Status

\* Bound rivals are one execution: each would hold the same reservation.
LEMMA RivalsAreUnbound ==
  ASSUME Fenced, NEW e \in Execution, NEW f \in Execution, NEW epoch,
         Holds(e, epoch), row[f].dispatch = "started",
         SameEffect(e, f) \/ SameEffect(f, e)
  PROVE  e = f
<1>1. Holds(f, row[f].epoch)
  BY DEF Fenced, DispatchHoldsReservations, Holds
<1>2. QED
  BY <1>1 DEF Holds, SameEffect

LEMMA ViewInit == Init => Effects!Init
<1> SUFFICES ASSUME Init PROVE Effects!Init
  OBVIOUS
<1>1. \A e \in Execution : PhaseOf(row[e]) = "absent"
  BY DEF Init, AbsentRow, PhaseOf
<1>2. QED
  BY <1>1 DEF Effects!Init, Init

LEMMA SubmitStep ==
  ASSUME Fenced, NEW e \in Execution, Insert(e)
  PROVE  Effects!Submit(e)
<1>1. TypeOK
  BY DEF Fenced
<1>2. PhaseOf(row[e]) = "absent" /\ PhaseOf(QueuedRow) = "pending"
  BY DEF Insert, PhaseOf, QueuedRow, Settled
<1>3. Phases' = [Phases EXCEPT ![e] = "pending"] /\ UNCHANGED calls
  BY <1>1, <1>2, PhaseOfWrite DEF Insert, ghost
<1>4. QED
  BY <1>2, <1>3 DEF Effects!Submit, Phases

LEMMA RecoverStep ==
  ASSUME Fenced, NEW w \in Worker, RecoverExpired(w)
  PROVE  SameView \/ \E e \in Execution : Effects!Settle(e)
<1> DEFINE e == job[w].exec
           n == ReleasedRow(row[e], StatusAfterExpiry(row[e]), job[w].seen)
<1>1. TypeOK /\ e \in Execution /\ row[e] \in Row
  BY DEF Fenced, TypeOK, RecoverExpired
<1>2. /\ StatusAfterExpiry(row[e]) \in {"uncertain", "recovery"}
      /\ StatusAfterExpiry(row[e]) = "uncertain" <=> row[e].dispatch = "started"
  BY <1>1, StatusAfterExpiryFacts
<1>3. StatusAfterExpiry(row[e]) \in Status
  BY <1>2 DEF Status, Settled
<1>4. n.status = StatusAfterExpiry(row[e]) /\ n.dispatch = row[e].dispatch
  BY <1>1, <1>3, ReleasedRowFacts
<1>5. /\ Write(e, n) /\ UNCHANGED calls /\ row[e].status = "executing"
  BY DEF RecoverExpired, ghost
<1> HIDE DEF n, e
<1>6. CASE row[e].dispatch = "started"
  <2>1. PhaseOf(row[e]) = "committed" /\ PhaseOf(n) = "settled"
    BY <1>2, <1>4, <1>5, <1>6 DEF PhaseOf, Settled
  <2>2. Phases' = [Phases EXCEPT ![e] = "settled"]
    BY <1>1, <1>5, <2>1, PhaseOfWrite
  <2>3. Effects!Settle(e)
    BY <1>1, <1>5, <2>1, <2>2 DEF Effects!Settle, Phases
  <2>4. QED
    BY <1>1, <2>3
<1>7. CASE row[e].dispatch # "started"
  <2>1. PhaseOf(row[e]) = "pending" /\ PhaseOf(n) = "pending"
    BY <1>2, <1>4, <1>5, <1>7 DEF PhaseOf, Settled
  <2>2. QED
    BY <1>1, <1>5, <2>1, PhaseStays
<1>8. QED
  BY <1>6, <1>7

LEMMA ClaimStep ==
  ASSUME Fenced, NEW w \in Worker, ClaimNext(w)
  PROVE  SameView
<1>0. TypeOK
  BY DEF Fenced
<1>a. now \in Nat /\ Skew[w] \in Int /\ LeaseMs \in Nat
  BY <1>0, ConstantsAssumption DEF TypeOK
<1>b. Clock(w) + LeaseMs \in Int
  BY <1>a DEF Clock
<1>1. PICK e \in Execution :
        /\ row[e].status \in {"queued", "recovery"}
        /\ Write(e, ClaimedRow(row[e], w, Clock(w) + LeaseMs))
  BY DEF ClaimNext, ClaimChoice, Claimable
<1> DEFINE n == ClaimedRow(row[e], w, Clock(w) + LeaseMs)
<1>2. row[e] \in Row
  BY <1>0 DEF TypeOK
<1>3. n.status = "executing" /\ n.dispatch = row[e].dispatch
  BY <1>b, <1>2, ClaimedRowFacts
<1>4. row[e].dispatch = "not-started"
  BY <1>1, <1>2 DEF Fenced, RowShape, Row, Settled
<1> HIDE DEF n
<1>5. PhaseOf(n) = PhaseOf(row[e])
  BY <1>1, <1>3, <1>4 DEF PhaseOf, Settled
<1>6. UNCHANGED calls /\ Write(e, n)
  BY <1>1 DEF ClaimNext, ghost, n
<1>7. QED
  BY <1>0, <1>5, <1>6, PhaseStays

LEMMA RenewStep ==
  ASSUME Fenced, NEW w \in Worker, RenewLease(w)
  PROVE  SameView
<1> DEFINE e == job[w].exec
           n == RenewedRow(row[e], Clock(w) + LeaseMs, Clock(w))
<1>0. TypeOK
  BY DEF Fenced
<1>a. now \in Nat /\ Skew[w] \in Int /\ LeaseMs \in Nat
  BY <1>0, ConstantsAssumption DEF TypeOK
<1>b. Clock(w) + LeaseMs \in Int
  BY <1>a DEF Clock
<1>1. e \in Execution /\ row[e] \in Row /\ Write(e, n) /\ UNCHANGED calls
  BY <1>0 DEF TypeOK, RenewLease, ghost
<1>2. n.status = row[e].status /\ n.dispatch = row[e].dispatch
  BY <1>1, <1>b, RenewedRowFacts
<1> HIDE DEF n, e
<1>3. PhaseOf(n) = PhaseOf(row[e])
  BY <1>2 DEF PhaseOf
<1>4. QED
  BY <1>0, <1>1, <1>3, PhaseStays

LEMMA ReserveStep ==
  ASSUME Fenced, NEW w \in Worker, ConsumeGrantAndReserveEffect(w)
  PROVE  SameView
<1> DEFINE e == job[w].exec
           n == ReservedRow(row[e], now)
<1>0. TypeOK
  BY DEF Fenced
<1>1. e \in Execution /\ row[e] \in Row /\ Write(e, n) /\ UNCHANGED calls
  BY <1>0 DEF TypeOK, ConsumeGrantAndReserveEffect, ghost
<1>2. n.status = row[e].status /\ n.dispatch = row[e].dispatch
  BY <1>1, ReservedRowFacts
<1> HIDE DEF n, e
<1>3. PhaseOf(n) = PhaseOf(row[e])
  BY <1>2 DEF PhaseOf
<1>4. QED
  BY <1>0, <1>1, <1>3, PhaseStays

\* The fence is the commitment, and the reservations of Stage B keep every
\* rival out of it.
LEMMA CommitStep ==
  ASSUME Fenced, NEW w \in Worker, MarkDispatchStarted(w)
  PROVE  \E e \in Execution : Effects!Commit(e)
<1> DEFINE e == job[w].exec
           n == StartedRow(row[e])
<1>0. TypeOK
  BY DEF Fenced
<1>1. /\ e \in Execution /\ row[e] \in Row /\ Write(e, n) /\ UNCHANGED calls
      /\ pc[w] = "fence" /\ row[e].status = "executing"
      /\ row[e].dispatch = "not-started" /\ row[e].revision = job[w].revision
  BY <1>0 DEF TypeOK, MarkDispatchStarted, CanStart, Owns, ghost
<1>2. n.status = row[e].status /\ n.dispatch = "started"
  BY <1>1, StartedRowFacts
<1>3. Holds(e, job[w].epoch)
  BY <1>1 DEF Fenced, FenceIsBacked
<1> HIDE DEF n, e
<1>4. PhaseOf(row[e]) = "pending" /\ PhaseOf(n) = "committed"
  BY <1>1, <1>2 DEF PhaseOf, Settled
<1>5. Phases' = [Phases EXCEPT ![e] = "committed"]
  BY <1>0, <1>1, <1>4, PhaseOfWrite
<1>6. ASSUME NEW f \in Execution, SameEffect(e, f) \/ SameEffect(f, e)
      PROVE  PhaseOf(row[f]) \notin {"committed", "settled"}
  BY <1>1, <1>3, <1>6, RivalsAreUnbound, PhaseOfBound
<1>7. Effects!Commit(e)
  BY <1>1, <1>4, <1>5, <1>6 DEF Effects!Commit, Effects!Rival, Effects!Bound, Phases
<1>8. QED
  BY <1>1, <1>7

LEMMA CallStep ==
  ASSUME Fenced, NEW w \in Worker, Invoke(w)
  PROVE  \E e \in Execution : Effects!Call(e)
<1> DEFINE e == job[w].exec
<1>1. e \in Execution /\ UNCHANGED row /\ calls' = [calls EXCEPT ![e] = @ + 1]
  BY DEF Fenced, TypeOK, Invoke, store
<1>2. row[e].dispatch = "started" /\ calls[e] = 0
  BY <1>1 DEF Fenced, CallerIsAlone, Invoke
<1> HIDE DEF e
<1>3. PhaseOf(row[e]) \in {"committed", "settled"}
  BY <1>1, <1>2, PhaseOfBound
<1>4. calls' = [calls EXCEPT ![e] = 1]
  BY <1>1, <1>2 DEF Fenced, TypeOK
<1>5. Effects!Call(e)
  BY <1>1, <1>2, <1>3, <1>4 DEF Effects!Call, Effects!Bound, Phases
<1>6. QED
  BY <1>1, <1>5

LEMMA SettleStep ==
  ASSUME Fenced, NEW w \in Worker, RecordOutcome(w)
  PROVE  \E e \in Execution : Effects!Settle(e)
<1> DEFINE e == job[w].exec
           n == ReleasedRow(row[e], StatusOf(job[w].outcome), Clock(w))
<1>1. /\ TypeOK /\ e \in Execution /\ row[e] \in Row /\ Write(e, n) /\ UNCHANGED calls
      /\ row[e].status = "executing" /\ row[e].dispatch = "started"
  BY DEF Fenced, TypeOK, RecordOutcome, CanRecord, Owns, ghost
<1>2. StatusOf(job[w].outcome) \in Settled
  BY StatusOfFacts
<1>3. StatusOf(job[w].outcome) \in Status
  BY <1>2 DEF Status
<1>4. n.status \in Settled
  BY <1>1, <1>2, <1>3, ReleasedRowFacts
<1> HIDE DEF n, e
<1>5. PhaseOf(row[e]) = "committed" /\ PhaseOf(n) = "settled"
  BY <1>1, <1>4 DEF PhaseOf, Settled
<1>6. Phases' = [Phases EXCEPT ![e] = "settled"]
  BY <1>1, <1>5, PhaseOfWrite
<1>7. Effects!Settle(e)
  BY <1>1, <1>5, <1>6 DEF Effects!Settle, Phases
<1>8. QED
  BY <1>1, <1>7

LEMMA ViewNext ==
  ASSUME Fenced, [Next]_vars
  PROVE  SameView \/ Effects!Next
<1> USE DEF ghost
<1>1. ASSUME UNCHANGED <<row, calls>> PROVE SameView
  BY <1>1 DEF SameView, Phases
<1>2. CASE Tick \/ UNCHANGED vars
  BY <1>1, <1>2 DEF Tick, store, vars
<1>3. ASSUME NEW e \in Execution, EnqueueWithAuthority(e) \/ Create(e)
      PROVE  Effects!Next
  BY <1>3, SubmitStep DEF EnqueueWithAuthority, Create, Effects!Next
<1>4. ASSUME NEW w \in Worker, Round(w) \/ Abandon(w) PROVE SameView \/ Effects!Next
  <2> USE DEF store
  <2>1. CASE FindNextExpired(w) \/ FindNoneExpired(w) \/ RecoverConflict(w)
    BY <1>1, <2>1 DEF FindNextExpired, FindNoneExpired, RecoverConflict
  <2>2. CASE RecoverFails(w) \/ ClaimFails(w) \/ ClaimIdle(w) \/ Refused(w) \/ Abandon(w)
    BY <1>1, <2>2 DEF RecoverFails, ClaimFails, ClaimIdle, Refused, Abandon
  <2>3. CASE ReadAuthority(w) \/ ResolveSecret(w)
    BY <1>1, <2>3 DEF ReadAuthority, ResolveSecret
  <2>4. CASE ClaimNext(w) \/ RenewLease(w) \/ ConsumeGrantAndReserveEffect(w)
    BY <2>4, ClaimStep, RenewStep, ReserveStep
  <2>5. CASE RecoverExpired(w)
    BY <2>5, RecoverStep DEF Effects!Next
  <2>6. CASE MarkDispatchStarted(w)
    BY <2>6, CommitStep DEF Effects!Next
  <2>7. CASE Invoke(w)
    BY <2>7, CallStep DEF Effects!Next
  <2>8. CASE RecordOutcome(w)
    BY <2>8, SettleStep DEF Effects!Next
  <2>9. QED
    BY <1>4, <2>1, <2>2, <2>3, <2>4, <2>5, <2>6, <2>7, <2>8 DEF Round
<1>5. QED
  BY <1>2, <1>3, <1>4 DEF Next

\* Rows, reservations, leases and workers implement EffectOnce.
THEOREM Refinement == Spec => ImplementsEffectOnce
<1>1. Init => Effects!Init
  BY ViewInit
<1>2. Fenced /\ [Next]_vars => [Effects!Next]_<<[e \in Execution |-> PhaseOf(row[e])], calls>>
  BY ViewNext DEF SameView, Phases
<1>3. QED
  BY <1>1, <1>2, FencedAlways, PTL DEF Spec, ImplementsEffectOnce, Effects!Spec
=============================================================================

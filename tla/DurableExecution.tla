-------------------------- MODULE DurableExecution --------------------------
(***************************************************************************)
(* Durable execution of approved Actions: the PostgreSQL row of each       *)
(* execution, the tables that make its external effect unique, the         *)
(* transactional outbox, and the workers that drive a row from "queued" to *)
(* an outcome.                                                             *)
(*                                                                         *)
(* A step is one database transaction (each locks its row FOR UPDATE, so   *)
(* transactions on one execution are serial) or one call of the private    *)
(* runner.  Between two steps of a worker anything may happen: other       *)
(* workers run, leases expire, the worker dies.                            *)
(*                                                                         *)
(* One tenant scope is modelled; every key of every table carries it.      *)
(* Identity, shape and signature checks are taken to succeed.              *)
(***************************************************************************)
EXTENDS Integers, FiniteSets

CONSTANTS
  Execution,    \* ids of executions
  Worker,       \* ids of worker processes
  NoExecution,  \* "no such row" in the columns that name an execution
  NoWorker,     \* NULL in lease_worker_id
  OpOf,         \* OpOf[e]: transaction, plan digest, plan revision, operation
  KeyOf,        \* KeyOf[e]: idempotency key of the operation
  NonceOf,      \* NonceOf[e]: grant nonce
  GrantFrom,    \* GrantFrom[e]: issuedAtEpochMs of the grant
  GrantUntil,   \* GrantUntil[e]: expiresAtEpochMs of the grant
  LeaseMs,      \* length of a lease
  Skew,         \* Skew[w]: clock of w minus clock of the database
  ApiSkew,      \* createdAtEpochMs minus the database clock at the insert
  MaxTime       \* bound: the database clock stops here

ASSUME ConstantsAssumption ==
  /\ IsFiniteSet(Worker)
  /\ NoExecution \notin Execution
  /\ NoWorker \notin Worker
  /\ OpOf \in [Execution -> {OpOf[e] : e \in Execution}]
  /\ KeyOf \in [Execution -> {KeyOf[e] : e \in Execution}]
  /\ NonceOf \in [Execution -> {NonceOf[e] : e \in Execution}]
  /\ GrantFrom \in [Execution -> Nat]
  /\ GrantUntil \in [Execution -> Nat]
  /\ LeaseMs \in Nat \ {0}
  /\ Skew \in [Worker -> Int]
  /\ ApiSkew \in Int
  /\ MaxTime \in Nat

Op    == {OpOf[e] : e \in Execution}
Key   == {KeyOf[e] : e \in Execution}
Nonce == {NonceOf[e] : e \in Execution}

VARIABLES
  now,         \* clock_timestamp() of the database
  row,         \* vira.durable_execution_state
  authority,   \* executions with a row in vira.durable_execution_authority
  nonceOwner,  \* vira.durable_execution_nonce
  keyOwner,    \* vira.durable_execution_idempotency_reservation
  effect,      \* vira.durable_execution_effect_reservation
  outbox,      \* vira.durable_execution_outbox
  pc,          \* next call of each worker
  job,         \* what each worker holds in memory
  calls,       \* history: times the adapter was invoked for an execution
  answer       \* history: what the adapter answered

store  == <<row, authority, nonceOwner, keyOwner, effect, outbox>>
grants == <<authority, nonceOwner, keyOwner, effect>>
ghost  == <<calls, answer>>
vars   == <<now, row, authority, nonceOwner, keyOwner, effect, outbox, pc, job, calls, answer>>

-----------------------------------------------------------------------------
(* The record of an execution *)

Settled == {"verifying", "manual", "uncertain"}
Status  == {"absent", "queued", "executing", "recovery"} \cup Settled
Outcome == {"accepted", "rejected", "uncertain"}

\* `expires' means something while the row is leased, `inserted' is
\* persistence_created_at; all the code ever asks of updatedAtEpochMs is
\* whether it is before createdAtEpochMs, and `dated' says that it is not.
Row == [status : Status, revision : Nat, epoch : Nat,
        holder : Worker \cup {NoWorker}, expires : Int,
        dispatch : {"not-started", "started"}, inserted : Nat, dated : BOOLEAN]

AbsentRow == [status |-> "absent", revision |-> 0, epoch |-> 0, holder |-> NoWorker,
              expires |-> 0, dispatch |-> "not-started", inserted |-> 0, dated |-> TRUE]

QueuedRow == [status |-> "queued", revision |-> 1, epoch |-> 0, holder |-> NoWorker,
              expires |-> 0, dispatch |-> "not-started", inserted |-> now, dated |-> TRUE]

Clock(w) == now + Skew[w]

\* A write at instant t leaves updatedAtEpochMs no earlier than the creation.
DatedAt(r, t) == r.inserted + ApiSkew <= t

\* The pure transitions of a record; each adds one revision.

\* (mutant) A claim that does not raise the epoch.
ClaimedRowSameEpoch(r, w, until) ==
  [r EXCEPT !.status = "executing", !.revision = @ + 1, !.holder = w, !.expires = until]

ClaimedRow(r, w, until) ==
  [r EXCEPT !.status = "executing", !.revision = @ + 1, !.epoch = @ + 1,
            !.holder = w, !.expires = until]

RenewedRow(r, until, t) ==
  [r EXCEPT !.revision = @ + 1, !.expires = until, !.dated = DatedAt(r, t)]

ReservedRow(r, t) == [r EXCEPT !.revision = @ + 1, !.dated = DatedAt(r, t)]

\* (mutant) A fence that does not record the dispatch.
StartedRowUnrecorded(r) == [r EXCEPT !.revision = @ + 1]

StartedRow(r) == [r EXCEPT !.revision = @ + 1, !.dispatch = "started"]

ReleasedRow(r, next, t) ==
  [r EXCEPT !.status = next, !.revision = @ + 1, !.holder = NoWorker, !.expires = 0,
            !.dated = DatedAt(r, t)]

\* (mutant) Every expired lease is taken to be safe to run again.
StatusAfterExpiryRetried(r) == "recovery"

StatusAfterExpiry(r) == IF r.dispatch = "started" THEN "uncertain" ELSE "recovery"

\* (mutants) The runner's word is the status; a rejection is verified too.
StatusOfVerbatim(outcome) == outcome
StatusOfAnswered(outcome) == IF outcome = "uncertain" THEN "uncertain" ELSE "verifying"

StatusOf(outcome) == CASE outcome = "accepted" -> "verifying"
                       [] outcome = "rejected" -> "manual"
                       [] OTHER -> "uncertain"

\* (mutant) A fence that asks for a lease, whosever it is.
OwnsByStatus(w, r) == r.status = "executing"

\* The fence of every call a worker makes after its claim.
Owns(w, r) == /\ r.status = "executing"
              /\ r.holder = w
              /\ r.epoch = job[w].epoch
              /\ r.revision = job[w].revision

\* Leases are granted only where they run out before the clock stops.
WithinHorizon(w) == Clock(w) + LeaseMs <= MaxTime

-----------------------------------------------------------------------------
(* Workers *)

\* "reserve" is Stage B, "resolve" the private runner up to its adapter.
Stage == {"scan", "recover", "claim", "authority", "renew", "reserve",
          "resolve", "fence", "invoke", "record"}

Job == [exec : Execution \cup {NoExecution}, revision : Nat, epoch : Nat,
        expires : Int, seen : Int, outcome : Outcome \cup {"none"}]

NoJob == [exec |-> NoExecution, revision |-> 0, epoch |-> 0,
          expires |-> 0, seen |-> 0, outcome |-> "none"]

\* (mutant) The scanner names the revision before the one it read.
FoundJobBehind(e) == [exec |-> e, revision |-> row[e].revision - 1, epoch |-> 0,
                      expires |-> 0, seen |-> now, outcome |-> "none"]

FoundJob(e) == [exec |-> e, revision |-> row[e].revision, epoch |-> 0,
                expires |-> 0, seen |-> now, outcome |-> "none"]

LeasedJob(e, until) == [exec |-> e, revision |-> row[e].revision + 1, epoch |-> row[e].epoch + 1,
                        expires |-> until, seen |-> 0, outcome |-> "none"]

Goto(w, stage, j) == /\ pc'  = [pc EXCEPT ![w] = stage]
                     /\ job' = [job EXCEPT ![w] = j]

\* runViraDurableExecutionWorkerOnce returns; the next call starts at its top.
Return(w) == Goto(w, "scan", NoJob)

Write(e, r) == row' = [row EXCEPT ![e] = r]

\* (mutant) The event is made from the record before the transition.
EmitBefore(e, revision, type, status) ==
  outbox' = outbox \cup {[exec |-> e, revision |-> revision - 1, type |-> type, status |-> status]}

\* The payload of a dispatch-started event names no status.
Emit(e, revision, type, status) ==
  outbox' = outbox \cup {[exec |-> e, revision |-> revision, type |-> type, status |-> status]}

\* FOR UPDATE SKIP LOCKED passes over rows other workers are holding, and
\* each of them holds at most one.
CanSkip(rows) == Cardinality(rows) < Cardinality(Worker)

\* (mutant) The scanner looks for rows that are safe to run again only.
ExpiredUndispatched == {e \in Execution : /\ row[e].status = "executing" /\ row[e].expires <= now
                                          /\ row[e].dispatch = "not-started"}

Expired   == {e \in Execution : row[e].status = "executing" /\ row[e].expires <= now}
Claimable == {e \in Execution : row[e].status \in {"queued", "recovery"}}

ScanChoice ==
  {e \in Expired : CanSkip({f \in Expired :
      \/ row[f].expires < row[e].expires
      \/ row[f].expires = row[e].expires /\ row[f].inserted < row[e].inserted})}

ClaimChoice ==
  {e \in Claimable : CanSkip({f \in Claimable : row[f].inserted < row[e].inserted})}

-----------------------------------------------------------------------------
(* The API side: an approved operation is put on the queue *)

Insert(e) == /\ row[e].status = "absent"
             /\ Write(e, QueuedRow)
             /\ Emit(e, 1, "execution.queued", "queued")
             /\ UNCHANGED <<now, nonceOwner, keyOwner, effect, pc, job, ghost>>

EnqueueWithAuthority(e) == Insert(e) /\ authority' = authority \cup {e}

\* The store also takes a record alone; no worker can run it.
Create(e) == Insert(e) /\ UNCHANGED authority

-----------------------------------------------------------------------------
(* A worker's round, in the order of its calls *)

FindNextExpired(w) ==
  /\ pc[w] = "scan"
  /\ \E e \in ScanChoice : Goto(w, "recover", FoundJob(e))
  /\ UNCHANGED <<now, store, ghost>>

FindNoneExpired(w) ==
  /\ pc[w] = "scan"
  /\ CanSkip(Expired)
  /\ Goto(w, "claim", NoJob)
  /\ UNCHANGED <<now, store, ghost>>

\* recoverExpired: every row it reads and every row it writes must be dated,
\* else it throws, nothing is written and the round ends before the claim.
RecoverExpired(w) ==
  LET e == job[w].exec
      r == row[e]
      next == StatusAfterExpiry(r)
  IN /\ pc[w] = "recover"
     /\ r.dated
     /\ r.revision = job[w].revision
     /\ r.status = "executing"
     /\ r.expires <= job[w].seen
     /\ DatedAt(r, job[w].seen)
     /\ Write(e, ReleasedRow(r, next, job[w].seen))
     /\ Emit(e, r.revision + 1, "execution.state-changed", next)
     /\ Goto(w, "claim", NoJob)
     /\ UNCHANGED <<now, grants, ghost>>

RecoverConflict(w) ==
  /\ pc[w] = "recover"
  /\ row[job[w].exec].dated
  /\ row[job[w].exec].revision # job[w].revision
  /\ Goto(w, "claim", NoJob)
  /\ UNCHANGED <<now, store, ghost>>

RecoverFails(w) ==
  LET r == row[job[w].exec]
  IN /\ pc[w] = "recover"
     /\ \/ ~ r.dated
        \/ r.revision = job[w].revision /\ ~ DatedAt(r, job[w].seen)
     /\ Return(w)
     /\ UNCHANGED <<now, store, ghost>>

ClaimNext(w) ==
  /\ pc[w] = "claim"
  /\ WithinHorizon(w)
  /\ \E e \in ClaimChoice :
       LET r == row[e]
           until == Clock(w) + LeaseMs
       IN /\ r.dated
          /\ DatedAt(r, Clock(w))
          /\ Write(e, ClaimedRow(r, w, until))
          /\ Emit(e, r.revision + 1, "execution.claimed", "executing")
          /\ Goto(w, "authority", LeasedJob(e, until))
  /\ UNCHANGED <<now, grants, ghost>>

\* claimNext throws on a row its clock would date before its creation.
ClaimFails(w) ==
  /\ pc[w] = "claim"
  /\ \E e \in ClaimChoice : ~ row[e].dated \/ ~ DatedAt(row[e], Clock(w))
  /\ Return(w)
  /\ UNCHANGED <<now, store, ghost>>

ClaimIdle(w) ==
  /\ pc[w] = "claim"
  /\ CanSkip(Claimable) \/ ~ WithinHorizon(w)
  /\ Return(w)
  /\ UNCHANGED <<now, store, ghost>>

ReadAuthority(w) ==
  /\ pc[w] = "authority"
  /\ IF job[w].exec \in authority THEN Goto(w, "renew", job[w]) ELSE Return(w)
  /\ UNCHANGED <<now, store, ghost>>

CanRenew(w) == LET r == row[job[w].exec]
               IN /\ Owns(w, r)
                  /\ r.dated
                  /\ r.expires > now
                  /\ r.expires > Clock(w)
                  /\ WithinHorizon(w)

RenewLease(w) ==
  LET e == job[w].exec
      r == row[e]
      until == Clock(w) + LeaseMs
  IN /\ pc[w] = "renew"
     /\ CanRenew(w)
     /\ Write(e, RenewedRow(r, until, Clock(w)))
     /\ Emit(e, r.revision + 1, "execution.state-changed", "executing")
     /\ Goto(w, "reserve", [job[w] EXCEPT !.revision = @ + 1, !.expires = until])
     /\ UNCHANGED <<now, grants, ghost>>

\* verifyViraTransactionExecutionGrant, on the worker's clock
GrantIsCurrent(w) == LET e == job[w].exec
                     IN GrantFrom[e] <= Clock(w) /\ Clock(w) < GrantUntil[e]

\* (mutant) A nonce or key that is taken is written over.
FreeAlways(owner, e) == TRUE

Free(owner, e) == owner \in {NoExecution, e}

\* (mutant) A rebind that does not ask whose effect it is.
EffectIsFreeToAnyone(e, epoch) ==
  LET held == effect[OpOf[e]] IN held.exec = NoExecution \/ held.epoch <= epoch

\* An effect already reserved is rebound by its own execution, and only at
\* a higher lease epoch.
EffectIsFree(e, epoch) ==
  LET held == effect[OpOf[e]]
  IN held.exec = NoExecution \/ (held.exec = e /\ held.epoch < epoch)

CanReserve(w) == LET e == job[w].exec
                     r == row[e]
                 IN /\ Owns(w, r)
                    /\ r.dated
                    /\ r.dispatch = "not-started"
                    /\ r.expires > Clock(w)
                    /\ r.expires > now
                    /\ GrantIsCurrent(w)
                    /\ Free(nonceOwner[NonceOf[e]], e)
                    /\ Free(keyOwner[KeyOf[e]], e)
                    /\ EffectIsFree(e, job[w].epoch)

\* Stage B: the grant nonce, the idempotency key and the effect are taken in
\* the transaction that advances the row.  The row is not read back, its
\* updatedAtEpochMs is the database clock, and no event is written.
ConsumeGrantAndReserveEffect(w) ==
  LET e == job[w].exec
      r == row[e]
  IN /\ pc[w] = "reserve"
     /\ CanReserve(w)
     /\ nonceOwner' = [nonceOwner EXCEPT ![NonceOf[e]] = e]
     /\ keyOwner' = [keyOwner EXCEPT ![KeyOf[e]] = e]
     /\ effect' = [effect EXCEPT ![OpOf[e]] = [exec |-> e, epoch |-> job[w].epoch]]
     /\ Write(e, ReservedRow(r, now))
     /\ Goto(w, "resolve", [job[w] EXCEPT !.revision = @ + 1])
     /\ UNCHANGED <<now, authority, outbox, ghost>>

\* The private runner checks the permit, whose life is the shorter of grant
\* and lease, and resolves the credential.
PermitIsCurrent(w) == Clock(w) < GrantUntil[job[w].exec] /\ Clock(w) < job[w].expires

ResolveSecret(w) ==
  /\ pc[w] = "resolve"
  /\ PermitIsCurrent(w)
  /\ Goto(w, "fence", job[w])
  /\ UNCHANGED <<now, store, ghost>>

\* (mutant) The fence trusts the permit and does not ask for the lease.
CanStartOnPermit(w) == LET r == row[job[w].exec]
                       IN r.dispatch = "not-started" /\ r.expires > Clock(w)

CanStart(w) == LET r == row[job[w].exec]
               IN /\ Owns(w, r)
                  /\ r.dated
                  /\ r.dispatch = "not-started"
                  /\ r.expires > Clock(w)
                  /\ DatedAt(r, Clock(w))

\* The dispatch fence, taken inside the adapter the runner calls.
MarkDispatchStarted(w) ==
  LET e == job[w].exec
      r == row[e]
  IN /\ pc[w] = "fence"
     /\ CanStart(w)
     /\ Write(e, StartedRow(r))
     /\ Emit(e, r.revision + 1, "execution.dispatch-started", "unstated")
     /\ Goto(w, "invoke", [job[w] EXCEPT !.revision = @ + 1])
     /\ UNCHANGED <<now, grants, ghost>>

\* The adapter reaches the provider.  A throw, a result of the wrong shape or
\* one that leaks the credential is "uncertain".
Invoke(w) ==
  LET e == job[w].exec
  IN /\ pc[w] = "invoke"
     /\ calls' = [calls EXCEPT ![e] = @ + 1]
     /\ \E a \in Outcome : /\ answer' = [answer EXCEPT ![e] = a]
                           /\ Goto(w, "record", [job[w] EXCEPT !.outcome = a])
     /\ UNCHANGED <<now, store>>

CanRecord(w) == LET r == row[job[w].exec]
                IN /\ Owns(w, r)
                   /\ r.dated
                   /\ r.dispatch = "started"
                   /\ r.expires > now
                   /\ r.expires > Clock(w)

RecordOutcome(w) ==
  LET e == job[w].exec
      r == row[e]
      next == StatusOf(job[w].outcome)
  IN /\ pc[w] = "record"
     /\ CanRecord(w)
     /\ Write(e, ReleasedRow(r, next, Clock(w)))
     /\ Emit(e, r.revision + 1, "execution.state-changed", next)
     /\ Return(w)
     /\ UNCHANGED <<now, grants, ghost>>

\* Any refusal or failure of a call ends the round; the row keeps its lease.
Refused(w) ==
  /\ \/ pc[w] = "renew"   /\ ~ CanRenew(w)
     \/ pc[w] = "reserve" /\ ~ CanReserve(w)
     \/ pc[w] = "resolve" /\ ~ PermitIsCurrent(w)
     \/ pc[w] = "fence"   /\ ~ CanStart(w)
     \/ pc[w] = "record"  /\ ~ CanRecord(w)
  /\ Return(w)
  /\ UNCHANGED <<now, store, ghost>>

\* The process dies, a call throws, the secret provider or the verifier
\* refuses, or the reply of a committed transaction is lost.
Abandon(w) ==
  /\ pc[w] # "scan"
  /\ Return(w)
  /\ UNCHANGED <<now, store, ghost>>

-----------------------------------------------------------------------------
Tick == /\ now < MaxTime
        /\ now' = now + 1
        /\ UNCHANGED <<store, pc, job, ghost>>

Init ==
  /\ now = 0
  /\ row = [e \in Execution |-> AbsentRow]
  /\ authority = {}
  /\ nonceOwner = [n \in Nonce |-> NoExecution]
  /\ keyOwner = [k \in Key |-> NoExecution]
  /\ effect = [o \in Op |-> [exec |-> NoExecution, epoch |-> 0]]
  /\ outbox = {}
  /\ pc = [w \in Worker |-> "scan"]
  /\ job = [w \in Worker |-> NoJob]
  /\ calls = [e \in Execution |-> 0]
  /\ answer = [e \in Execution |-> "none"]

\* What a running worker does by itself.
Round(w) ==
  \/ FindNextExpired(w) \/ FindNoneExpired(w)
  \/ RecoverExpired(w) \/ RecoverConflict(w) \/ RecoverFails(w)
  \/ ClaimNext(w) \/ ClaimFails(w) \/ ClaimIdle(w)
  \/ ReadAuthority(w) \/ RenewLease(w)
  \/ ConsumeGrantAndReserveEffect(w) \/ ResolveSecret(w)
  \/ MarkDispatchStarted(w) \/ Invoke(w) \/ RecordOutcome(w)
  \/ Refused(w)

Next == \/ Tick
        \/ \E e \in Execution : EnqueueWithAuthority(e) \/ Create(e)
        \/ \E w \in Worker : Round(w) \/ Abandon(w)

Spec == Init /\ [][Next]_vars

\* Time passes; a worker that is up makes its next call; and a worker that
\* keeps coming back to the scan or to a recovery is not killed there, nor
\* refused the row's lock, every single time.
Fairness ==
  /\ WF_vars(Tick)
  /\ \A w \in Worker : /\ WF_vars(Round(w))
                       /\ SF_vars(FindNextExpired(w))
                       /\ SF_vars(RecoverExpired(w))

FairSpec == Spec /\ Fairness

-----------------------------------------------------------------------------
(* Properties *)

Event == [exec : Execution, revision : Nat,
          type : {"execution.queued", "execution.claimed",
                  "execution.dispatch-started", "execution.state-changed"},
          status : Status \cup {"unstated"}]

\* Every column and every worker's memory holds a value of its type, and a
\* worker that is at work on an execution names it.
TypeOK ==
  /\ now \in Nat
  /\ row \in [Execution -> Row]
  /\ authority \subseteq Execution
  /\ nonceOwner \in [Nonce -> Execution \cup {NoExecution}]
  /\ keyOwner \in [Key -> Execution \cup {NoExecution}]
  /\ effect \in [Op -> [exec : Execution \cup {NoExecution}, epoch : Nat]]
  /\ outbox \subseteq Event
  /\ pc \in [Worker -> Stage]
  /\ job \in [Worker -> Job]
  /\ \A w \in Worker : pc[w] \notin {"scan", "claim"} => job[w].exec \in Execution
  /\ calls \in [Execution -> Nat]
  /\ answer \in [Execution -> Outcome \cup {"none"}]

SameEffect(e, f) == \/ OpOf[e] = OpOf[f]
                    \/ KeyOf[e] = KeyOf[f]
                    \/ NonceOf[e] = NonceOf[f]

\* The adapter is invoked at most once for an operation of a frozen plan, for
\* an idempotency key and for a grant nonce, however many executions name
\* them and however often workers crash, stall and take over.
AtMostOneCall ==
  \A e, f \in Execution :
    /\ calls[e] <= 1
    /\ calls[e] > 0 /\ calls[f] > 0 /\ SameEffect(e, f) => e = f

\* An execution that may be claimed has never reached its provider and no
\* worker, not even one whose lease is long gone, is still about to.
ClaimableIsUntouched ==
  \A e \in Claimable :
    /\ calls[e] = 0
    /\ \A w \in Worker : job[w].exec = e => pc[w] \notin {"invoke", "record"}

\* A row never claims more than its provider said: verification starts only
\* after an acceptance, manual work only after a refusal, and "uncertain"
\* only where the dispatch was recorded.
OutcomeIsHonest ==
  \A e \in Execution :
    /\ row[e].status = "verifying" => answer[e] = "accepted"
    /\ row[e].status = "manual"    => answer[e] = "rejected"
    /\ row[e].status \in Settled   => row[e].dispatch = "started"

\* Once dispatch started, the nonce, the key and the effect belong to this
\* execution, and the effect is bound to the lease epoch that dispatched it.
DispatchHoldsReservations ==
  \A e \in Execution :
    row[e].dispatch = "started" =>
      /\ nonceOwner[NonceOf[e]] = e
      /\ keyOwner[KeyOf[e]] = e
      /\ effect[OpOf[e]] = [exec |-> e, epoch |-> row[e].epoch]

EventsOf(e) == {x \in outbox : x.exec = e}

\* A consumer that keeps the event of highest revision knows the row: no two
\* events share a revision, the newest one tells the status and the dispatch
\* state, and it lags the row by the one revision that Stage B wrote without
\* an event, or not at all.
OutboxTellsTheRow ==
  \A e \in Execution : row[e].status # "absent" =>
    \E x \in EventsOf(e) :
      /\ \A y \in EventsOf(e) : y.revision < x.revision \/ y = x
      /\ \/ x.status = row[e].status
         \/ x.type = "execution.dispatch-started" /\ row[e].status = "executing"
      /\ row[e].dispatch = "started" <=>
           \E y \in EventsOf(e) : y.type = "execution.dispatch-started"
      /\ \/ x.revision = row[e].revision
         \/ /\ x.revision = row[e].revision - 1
            /\ row[e].status = "executing"
            /\ row[e].dispatch = "not-started"

\* While a lease is live on the database clock, only its holder, at the epoch
\* and revision it last read, changes the row.
LiveLeaseIsExclusive ==
  [][\A e \in Execution :
       row[e].status = "executing" /\ row[e].expires > now /\ row'[e] # row[e] =>
         \E w \in Worker : /\ w = row[e].holder
                           /\ job[w].exec = e
                           /\ job[w].epoch = row[e].epoch
                           /\ job[w].revision = row[e].revision]_vars

\* A row only moves forward: one revision at a time, the epoch rises exactly
\* when a claim takes it, dispatch is never taken back and a settled row is
\* left alone.
RowMovesForward ==
  [][\A e \in Execution : row'[e] # row[e] =>
       /\ row'[e].revision = row[e].revision + 1
       /\ row[e].status \notin Settled
       /\ row[e].dispatch = "started" => row'[e].dispatch = "started"
       /\ IF row[e].status \in {"queued", "recovery"}
            THEN row'[e].epoch = row[e].epoch + 1
            ELSE row'[e].epoch = row[e].epoch]_vars

\* The abstract view of a row: what the code can no longer undo.
PhaseOf(r) == IF r.status = "absent" THEN "absent"
              ELSE IF r.status \in Settled THEN "settled"
              ELSE IF r.dispatch = "started" THEN "committed"
              ELSE "pending"

Effects == INSTANCE EffectOnce
           WITH phase  <- [e \in Execution |-> PhaseOf(row[e])],
                Rivals <- {p \in Execution \X Execution : SameEffect(p[1], p[2])}

\* Rows, reservations, leases and workers together keep the promise of
\* EffectOnce: the dispatch fence is the commitment, and no crash, takeover
\* or late worker commits twice, calls twice or calls uncommitted.
ImplementsEffectOnce == Effects!Spec

\* A dispatched execution is always settled in the end: by its worker, or as
\* "uncertain" by whoever finds its lease expired.
DispatchedSettles ==
  \A e \in Execution : row[e].dispatch = "started" ~> row[e].status \in Settled

\* docs/evidence/PROD-12/Q8_REVERSE_ENGINEERING.md:59 "crash before dispatch
\* -> recoverable": an execution whose lease expired before dispatch leaves
\* the expired lease behind.
ExpiredIsRecovered ==
  \A e \in Execution :
    (e \in Expired /\ row[e].dispatch = "not-started") ~> e \notin Expired
-----------------------------------------------------------------------------
(* The inductive invariant behind the safety properties.  No part of it     *)
(* mentions a clock: fencing rests on revisions and epochs alone.           *)

Holding == Stage \ {"scan", "recover", "claim"}

\* Dispatch started is for good: the row is leased or settled from then on.
RowShape ==
  \A e \in Execution :
    /\ row[e].dispatch = "started" => row[e].status \in {"executing"} \cup Settled
    /\ row[e].status \in Settled => row[e].dispatch = "started"
    /\ row[e].status = "executing" => row[e].holder \in Worker
    /\ row[e].status = "absent" => row[e].revision = 0

\* A worker past its claim remembers an epoch that was handed out and a
\* revision the row has had; while the revision is current it owns the row.
JobShape ==
  \A w \in Worker :
    pc[w] \in Holding =>
      LET r == row[job[w].exec]
      IN /\ job[w].epoch <= r.epoch
         /\ job[w].revision <= r.revision
         /\ job[w].revision = r.revision =>
              Owns(w, r) /\ (r.dispatch = "started" <=> pc[w] \in {"invoke", "record"})

\* An epoch is handed out once.
EpochIsUnique ==
  \A v, w \in Worker :
    /\ pc[v] \in Holding /\ pc[w] \in Holding
    /\ job[v].exec = job[w].exec /\ job[v].epoch = job[w].epoch
    => v = w

Holds(e, epoch) == /\ nonceOwner[NonceOf[e]] = e
                   /\ keyOwner[KeyOf[e]] = e
                   /\ effect[OpOf[e]] = [exec |-> e, epoch |-> epoch]

\* Between Stage B and the fence, a current worker's reservations stand.
FenceIsBacked ==
  \A w \in Worker :
    pc[w] \in {"resolve", "fence"} /\ job[w].revision = row[job[w].exec].revision =>
      Holds(job[w].exec, job[w].epoch)

\* Past the fence there is one worker, at the epoch that dispatched; before
\* its call nobody has called, after it there was one call and its answer.
CallerIsAlone ==
  \A w \in Worker :
    pc[w] \in {"invoke", "record"} =>
      LET e == job[w].exec
      IN /\ row[e].dispatch = "started"
         /\ row[e].epoch = job[w].epoch
         /\ IF pc[w] = "invoke" THEN calls[e] = 0
                               ELSE calls[e] = 1 /\ answer[e] = job[w].outcome

CallsAreFenced ==
  \A e \in Execution :
    /\ calls[e] \in {0, 1}
    /\ row[e].dispatch = "not-started" => calls[e] = 0
    /\ row[e].status = "verifying" => calls[e] = 1 /\ answer[e] = "accepted"
    /\ row[e].status = "manual"    => calls[e] = 1 /\ answer[e] = "rejected"

\* All of it: what every crash, takeover and late step leaves true.
Fenced == /\ TypeOK
          /\ RowShape
          /\ JobShape
          /\ EpochIsUnique
          /\ DispatchHoldsReservations
          /\ FenceIsBacked
          /\ CallerIsAlone
          /\ CallsAreFenced
=============================================================================

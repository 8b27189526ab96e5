# Formal models of Vira Enterprise GenUI

TLA+ modules, TLC configurations and TLAPS proofs about the parts of this
repository whose correctness depends on the order of things: leases and
takeovers, retries, crashes between two transactions, reads that are stale when
they are used, hosts that call back, grants that are used once. Paths below are
relative to the repository root (`src/` in `PROJECT.json`).

Contents: 1 the system, 2 the modules, 3 how the code is modelled, 4 runs,
5 properties, 6 proofs, 7 findings, 8 observations, 9 what is not modelled,
10 plan.

## 1. The system and its parts

Vira turns approved application semantics into governed effects. An Action is
planned, approved and granted; the grant is put on a durable queue; a worker
claims it, reserves its effect, runs it through a private adapter, and the
result is verified and written to a ledger. Around that path stand runtimes
(application runs, triggers, human tasks, hosted jobs, experiences on the web
and on iOS), authoring (the Studio, canvases, packages), publication (studio
lifecycle, deployments, distribution) and commerce.

| Part | State it keeps | Interacts with | What is hard | What makes it correct |
|---|---|---|---|---|
| Durable execution record, PostgreSQL stores, worker (`packages/durable-execution`, `integrations/postgres/src/durable-execution*.ts`, `apps/vira-worker/src/durable-execution-worker.ts`) | row with revision, lease epoch and dispatch state; nonce, key and effect reservations; outbox; one round's memory of a worker | private runner, API | death or stall between any two calls, three clocks, lost replies | one effect per operation, key and nonce; events tell the row; dispatch is never forgotten |
| Verified provider action (`apps/vira-worker/src/verified-provider-*.ts`, `packages/action-verification`) | verification record and its lease, execution row, ledger entries | execution store, provider, ledger | three stores without a common transaction | one request, never over a foreign edit; the stores never contradict each other |
| Action ledger (`packages/action-ledger`, `production-action-ledger*.ts`) | a hash chain per plan, checkpoints | verified action | appenders that await under a lock, cadences that read and store apart | gap-free chain; checkpoints bind it and keep their distance |
| Approval and boundary (`packages/action-transaction`, `packages/action-boundary`) | frozen plans, approvals, grants, nonces; ids, keys and revisions in memory | signer, replay guard, executor | awaits between check and use; an executor that throws or is late | a grant binds what was reviewed; one effect per state revision |
| Application runtime (`packages/application-runtime`) | runs, tasks, inbox rows, each with a revision | state store, sources, people | a read and a compare-and-swap with others in between | a wait, a task and an event end once |
| Hosted jobs (`packages/hosted-capability-runtime`) | job record | providers, webhooks | answers after cancellation or deadline | terminal states are final |
| Experience runtimes (`packages/runtime-core`, `runtime-web`, `studio-runtime`, `sdk/ios`, `experience-resolver`) | sessions, mounted instances, what is on screen | hosts, listeners | re-entrance, late and reordered answers | what a person sees is what the runtime has |
| Studio (`packages/studio-*`, `integrations/puck`) | documents, workbench session, editor session, lifecycle record | editors, visual editor, hosts | two parsers, three sessions that must agree | an edit changes what it names; published is what was drawn |
| Applications (`packages/application-*`) | packages, graphs, canvas sessions, releases, deployments, caches | authors, sources | stale drafts, races of promotions and rollbacks, pages out of order | history is a chain; resolution is of a deployment |
| Capabilities, connections, trust, verification (`packages/capability-*`, `connection*`, `provider-trust`, ...) | none: decided from what is handed in | runtimes | expiry, fail-over, two schemas | a supply is what its sources say, for as long as it says |
| Commerce (`packages/commercial-*`) | entitlements, usage, exports, reconciled events | webhooks, billers | retries, late usage, windows that change | billed once; an export never changes; an allocation adds up |
| Identity (`packages/browser-session`, `oidc`, `enterprise-*`) | browser sessions, memberships | web server, API | requests that arrive late or twice, revocation, clocks that differ | a request is taken only while its session is in force |

`PROJECT.json` lists each part with its sources and what is (not) modelled,
and under `hazards` the places where this code can go wrong in ways a test
would hardly reach, each with the properties that watch it.

## 2. The modules

| Module | Models |
|---|---|
| `DurableExecution` | rows, reservations, outbox, workers and clocks of the durable queue |
| `EffectOnce` | the abstract specification of it and of the next: an effect is committed to, called and settled at most once |
| `VerifiedProviderAction` | the verified write with its precheck, dispatch, outcome, readback and ledger entries |
| `ProductionActionLedger` | appends and checkpoint cadences of one stream |
| `SealedLog` | its abstract specification: a log that grows at its end, under seals |
| `RevisionStore` | the store the services below share: insert if absent, replace at a revision |
| `ApplicationRun`, `HumanTask`, `TriggerInbox`, `HostedCapabilityJob` | runs with operator control; tasks bound to a run (extends the former); the inbox; asynchronous jobs |
| `RuntimeCore` | patches, lifecycle, permissions and the reducer as operators, used by the three runtimes below |
| `WebSdk`, `StudioRuntimeSession`, `NativeExperience`, `NativeSession` | an instance of the web SDK, a published studio experience, an experience on iOS, the session of an iOS application |
| `ExperienceResolver` | packs, registry, marketplace, and the resolver of one host |
| `StudioLifecycle` | drafts, revisions, publication, deletion and rebirth of an experience |
| `StudioDocument`, `StudioWorkbench` | a document, its parsers, catalogue, edits and the visual editor; the workbench, its design, publication, brands and drafts |
| `ApplicationDefinition`, `CanvasSession`, `CanvasCollaboration` | packages and graphs in both schemas; a canvas draft under several editors; a shared canvas with proposals and reviews |
| `DeploymentPlane`, `ApplicationDeployment` | a plane with one step per operation; the plane on PostgreSQL, which implements it |
| `ApplicationResolution`, `ApplicationFederation` | from a release to what runs; catalogues of several sources over a transport |
| `CapabilitySupply` | capability definitions, connections, trust, supply, routes, invocation, verdicts |
| `TransactionApproval`, `ActionBoundary` | plan, review, approval and grant; the boundary before the executor |
| `BrowserSession`, `IdentityDelegation` | browser sessions with the API behind them; tokens, memberships and delegations |
| `CommercialAccess`, `CommercialBilling` | rating, pricing, preflight and the entitlement sets of grants; ingestion, invoices and exports, settlement and reconciliation |
| `MCDurableExecution`, `MCVerifiedProviderAction`, `MCProductionActionLedger` | small instances, and runs with a bounded number of deaths or failures |
| `MCApplicationRuntime`, `MCPlatformServices` | small instances of all the rest: one behaviour exercises one component, named by `part` |
| `DurableExecutionProofs`, `VerifiedProviderActionProofs`, `ProductionActionLedgerProofs`, `HumanTaskProofs` | the theorems about the module of that name (the last also about `ApplicationRun`) |
| `RevisionStoreProofs` | the theorems about `TriggerInbox` and `HostedCapabilityJob` |
| `ExperienceProofs` | the theorems about `NativeExperience`, `NativeSession`, `StudioRuntimeSession`, `ExperienceResolver` and `WebSdk` |
| `ApplicationDeploymentProofs` | the theorems about `ApplicationDeployment`, `CanvasSession`, `CanvasCollaboration` and `ApplicationResolution` |
| `PlatformServiceProofs` | the theorems about `ActionBoundary`, `TransactionApproval`, `StudioLifecycle`, `BrowserSession`, `CommercialBilling`, `CommercialAccess`, `ApplicationFederation` and `IdentityDelegation` |

Definitions whose comment begins "A mutant" or "(mutant)" are plausible bugs,
used to show that the properties notice them. No other definition uses them.

## 3. How the code is modelled

### DurableExecution

One tenant scope. Each database transaction is one action: every transaction
of the stores locks its row with `FOR UPDATE` (or inserts it) and commits or
rolls back as a whole, so transactions on one execution are serial, and Stage
B takes its three unique keys in one fixed order. Between two calls of a
worker anything may happen.

| Variable | In the code |
|---|---|
| `now` | `clock_timestamp()` of the database, in lease units |
| `row[e]` | `vira.durable_execution_state`: status, revision, `lease_epoch`, `lease_worker_id`, `lease_expires_at`, `dispatch_state`, `persistence_created_at`; `dated` says that `updatedAtEpochMs` is not before `createdAtEpochMs` |
| `authority`, `nonceOwner`, `keyOwner`, `effect` | `durable_execution_authority`, `_nonce`, `_idempotency_reservation`, `_effect_reservation` (with `bound_lease_epoch`) |
| `outbox` | `durable_execution_outbox`, as the set of (execution, revision, type, status); it only grows, so the set stands for the append-only table |
| `pc[w]`, `job[w]` | the next call of `runViraDurableExecutionWorkerOnce` and what the round holds in memory |
| `calls`, `answer` | history: how often the adapter was invoked for an execution and what it last answered |

| Action | In the code |
|---|---|
| `EnqueueWithAuthority`, `Create` | the authority repository's enqueue; the state store's bare `create` |
| `FindNextExpired`, `FindNoneExpired` | the recovery scanner: committed expired leases in its order, on the database clock; `SKIP LOCKED` may pass over as many rows as there are other workers |
| `RecoverExpired`, `RecoverConflict`, `RecoverFails` | `recoverExpired` with the scanned revision and instant: written; `VERSION_CONFLICT`; an exception, which ends the round |
| `ClaimNext`, `ClaimFails`, `ClaimIdle` | `claimNext`: oldest claimable row; exception for a row the worker's clock would date before its creation; nothing to claim |
| `ReadAuthority`, `RenewLease` | authority look-up; renewal on both clocks |
| `ConsumeGrantAndReserveEffect` | Stage B: grant window, then one transaction that takes nonce, key and effect and advances the row without an event |
| `ResolveSecret`, `MarkDispatchStarted`, `Invoke` | the private runner up to its adapter; the fence inside the wrapped adapter; the provider call, with all three answers |
| `RecordOutcome`, `Refused` | the outcome store; any refusal by a guard: the round ends, the lease stays |
| `Abandon` | the process dies, a call throws, or the reply of a committed transaction is lost, after any step |
| `Tick` | time passes, up to `MaxTime` |

Left out: tenant isolation (every key carries the scope), shapes, signatures
and digests (they are taken to be right), integers beyond
`Number.MAX_SAFE_INTEGER`, event identifiers and payloads beyond the status.
A clock reading that is old when its transaction runs is the same as a worker
whose clock lags, which the runs include. `EffectOnce` is the promise without
leases, clocks or tables; `PhaseOf` maps a row to its phase: the dispatch fence
is the commitment, and any of verifying, manual and uncertain the settlement.
The call may come after the settlement, because the code does not stop a worker
that stalls between the fence and the call.

### VerifiedProviderAction

One execution and its one verification record (its id is derived from the
execution and the effect reservation, so every worker that takes the execution
over finds the same record). `TakePermit` stands for claim, authority and Stage
B, and `RecoverExecution` for the recovery scanner; the fence and the outcome
store have their guards in full, on both clocks. `exec`, `permit`, `v`,
`ledger` and `resource` are the execution row, the Stage B permits, the
verification record, the kinds of entries in the stream and what the provider
holds; `pc` and `mem` the next call of a worker and the record, observation and
answer in its hand; `sends` and `applied` history. There is one action per
transaction or provider call of `runViraVerifiedProviderAction` and
`runViraVerifiedProviderReadback`, in their order; `Refused` is a call whose
guard fails, `Abandon` a death or a failure between any two steps. The provider
(`Edit`, and that a conditional write replaces only the version it names) is
external; a version is a counter, as an ETag is. `Readable` is the store's
parser: every operation but `create` reads the record through it, and none
checks the record it is about to write.

### ProductionActionLedger

One stream. Every execution of one plan appends to it, on whatever worker. An
append is one transaction, but its steps are apart (`LockStream`,
`InsertEntry`, `Commit`): the code awaits two digests while it holds the row
lock of the stream, and what others see in between, and what a failure there
leaves behind, is the question. A cadence run is `ReadEntries`, `ReadLatest`
(two transactions), `Sign` (the decision and the signer) and `StoreCheckpoint`
(under the lock). `Rollback` and `Abandon` are failures and deaths anywhere. A
hash is the sequence of everything it commits to, which is what a digest that
does not collide amounts to. `SealedLog` is what an auditor relies on.

### The records of the runtime

A service reads a row in one transaction and replaces it in another, where the
revision is the one it has read (`RevisionStore`: `Accepts`, `Stored`). So an
operation is two actions: the one of its name reads, checks every guard of the
handler and holds the record it will write (`runCall`, `taskCall`, `call`), and
a commit writes it or is refused. Between them every other caller does the
same, and the clock moves. In `TriggerInbox` every sender and worker reads the
clock of its own process (`Now`), which is `ahead` of the slowest by an amount of its
own, chosen in `Init`. In `HostedCapabilityJob` a caller's clock, which differs in
the same way, is read in a third step, before the row. `HumanTask` extends `ApplicationRun`: assigning a task
reads the run and never looks at it again. Histories (`receipts`, `held`,
`done`, `acked`, `runAcks`, `taskAcks`) are what callers were told.

### Experiences

`WebSdk` is synchronous, so what interleaves is re-entrance: while the SDK calls
its host (DOM port, a handle the port returned, id factory, a listener), the host
may call the SDK; `stack` holds the unfinished calls. A mount, a dispatch and the
taking down of an experience are therefore two steps each, with the host in between.
`StudioRuntimeSession` has at most one interaction waiting for the host, whose answers
are messages that come late, twice or never; `unfinished` holds the calls that wait
for the host's id of an action, while the host may make others.
`NativeExperience` is the same on the main actor of iOS, with snapshots that the
host pushes while an action of it is awaited; `NativeSession` changes state under
a lock and tells listeners after it. `ExperienceResolver` awaits three functions
it trusts while others ask, release and dispose. `RuntimeCore` is used by all,
so that `CoreAgreesWithWeb` and `SessionAgreesWithWeb` compare two platforms.

### The Studio

`StudioLifecycle` is another read-then-replace service, with a delete and a
second life under the same id. `StudioDocument` has the two parsers as the code
has them: the second takes out what the first does not know, hands the rest to
the first, and puts back what it took (`Sanitized`, `Restored`); every edit of
the binding and flow packages with the inspector's offers for it; the export to
the visual editor, the import with its id mappings and the return of repeats,
and the identities of a session over refused and accepted changes.
`StudioWorkbench` has every command of the workbench session, whose editor
session may move on when the workbench refuses what it made. Operators are
recursive here, so these two modules are TLC's alone.

### Applications, capabilities, commerce, identity

`ApplicationDeployment` has a step for every transaction of publish, promote,
roll back and deprecate; the commit takes a lock and checks again what may have
changed. `DeploymentPlane` has one step per operation. `CanvasSession` and
`CanvasCollaboration` have editors that hold older drafts. `ApplicationResolution`
reads the deployment, then the release, while the plane goes on;
`ApplicationFederation` has pages that arrive late, twice or mangled, and the
merge of catalogues as operators. `ApplicationDefinition`, `CapabilitySupply` and
`IdentityDelegation` keep no state: their operators are compared with what they
must say, over every question of a bounded set.
`CommercialAccess` has consumers that rate, ask and use with others in between,
and a set of entitlements that changes as grants come and go;
`CommercialBilling` ingests in several processes while the binding changes, and is
fed by webhooks that repeat and reorder. In `TransactionApproval`
every instant is one that a caller gives, as in the code, and an operation may be
granted again under another nonce while the signer, the verifier or the replay guard
of its first grant is awaited;
`ActionBoundary` lets other calls cross while the executor has one.
`BrowserSession` signs a request that the API receives late or twice, in another
transaction than the one that changes memberships; the login, the web server, the
administration and each process of the API have clocks of their own (`ahead`).

## 4. Runs

| Run | Instance | Asks |
|---|---|---|
| `DurableExecutionRace` | two executions of one operation, two workers, one clock a unit behind, one grant ending at 2, leases of 2, time to 3 | all safety and action properties, the inductive invariant, and that it implements EffectOnce |
| `DurableExecutionTakeover` | one execution created on a clock a unit ahead, two workers, one clock ahead and one behind, fair, time to 4 | a dispatched execution is settled, whatever rounds fail before |
| `DurableExecutionQueue` | two executions that share only the idempotency key, one worker, fair, equal clocks, leases of 1, time to 2 | an undispatched execution leaves its expired lease |
| `DurableExecutionSkewedApi` | one execution, created on a clock one unit ahead; **violation** | the same, refuted: section 7 |
| `VerifiedProviderActionTakeover` | two workers, one clock ahead and one behind, leases of 2, time to 3, one foreign edit, deaths without bound | all safety properties of a verified write, and that it implements EffectOnce |
| `VerifiedProviderActionReadback` | two workers, one clock behind, leases of 1, one death, fair | an accepted write gets a final status |
| `VerifiedProviderActionConflict` | one worker, one foreign edit; **violation** | every stored record can be read again |
| `VerifiedProviderActionDispatched` | one worker, one death, fair; **violation** | a record left write-dispatched is resumed |
| `ProductionActionLedgerChain` | two appenders, two cadences, one clock of each pair ahead, three entries, one failure, a policy of two entries or two units, time to 3, fair | all safety properties of the ledger, that it implements SealedLog, and that a checkpoint that is due comes |
| `ApplicationRuntime` | one part at a time: `handoff` (a run with its task), `operators` (a run alone), `inbox`, `job`, `web`, `studio-session`, `native`, `native-session`, `resolver` | the runtimes under callers and hosts that interleave |
| `StudioReborn` | an author who publishes, another who deletes and creates again; **violation** | a publication is of the revision it names |
| `PlatformServices` | one part at a time: `deployment`, `studio`, `quota`, `entitlement`, `billing`, `settlement`, `approval`, `boundary`, `canvas`, `collaboration`, `resolution`, `transport`, `session`, `workbench`; and, with one question per behaviour, `migration`, `federation`, `attestation`, `delegation`, `host`, `catalogue`, `supply`, `route`, `connection`, `invocation`, `verdict`, `document`, `edit`, `editor`, `authoring`, `design`, `brand` | the services under two processes, and the algorithms that keep no state |

**Parts.** A behaviour of the last big runs picks a `part` in `Init` and never
leaves it: the variables of the other parts keep one value. Their properties
are conjunctions of `part = "..." => ...`, each conjunct a property of the
component's module. `Next` is the disjunction of the parts' next-state
relations, so nothing is weaker than with a run per component. The modules
whose operators have no state are asked one `question` per initial state, from
the set the MC module names.

**Bounds.** In DurableExecution a takeover needs one lease to end and another
to begin, which a lease of 2 with a lagging clock does within time 3; a second
takeover adds no new kind of state, because only the equality and order of
epochs and revisions matter, and the theorems cover the rest. Leases that would
outlive `MaxTime` are not granted (`WithinHorizon`), so that the end of time is
not itself a lease that never expires. In VerifiedProviderAction nothing
depends on how many edits or deaths there are, only on whether one falls
between two given calls. A lease taken when the clock is about to stop
(`MaxTime`) never runs out; its holder can still come back to it, so the
liveness run needs both workers to be called again. In ProductionActionLedger
two appenders contend for one lock and two cadences for one head; three entries
allow two checkpoints with an append before, between and after. A lock that is
never released shows as a deadlock. In the other parts two processes are enough
for each race of a read with a write, a third would only meet a row that has
moved on once more; revisions, calls, time and messages are bounded by
constants that the cfg names. The clocks of the inbox are up to one unit apart
(`MaxSkew`) with a lease of two, so that a lease is taken early, late and in
time; those of two callers of jobs are, too, with time to 3, or to 2 where they
differ (`JobBound`); who asks about a job knows its revision then, and the row
moves on while the call is under way. Those around a browser session are up to
two units apart with a window of one and sessions of three, time to 2: a
request is then refused as too old and as too new, and a revocation met by a
clock before, at and behind it; login and web server share a clock there, which
changes the instant of issue and nothing that is asked of it. An experience of
the Studio has two lives under its id, enough for a mutation of the first to be
stored in the second. One plan approved once gets two grants under two nonces.
Callbacks are two deep, so that each kind of call falls inside each other kind,
with two sessions of the web SDK and three actions of a studio session.
Callers, workers and users of one service are interchangeable, and the
`ApplicationRuntime` run uses that as symmetry; it checks no liveness.

**Deadlock** is checked where something always can go on (workers scan again,
cadences run again). The runs of the parts say `CHECK_DEADLOCK FALSE`, because a
caller whose calls are answered, and a question that is asked, may stop.

**Fairness.** DurableExecution: time passes (`WF Tick`). A worker that is up
makes its next call (`WF Round`): the batch loop of
`durable-execution-runtime.ts` calls again, and a deployment restarts a dead
worker. Strong fairness of the scan and of the recovery says that a worker that
comes back to them again and again is not killed in that step, nor passed over
by `SKIP LOCKED`, every single time; without it "the process always dies before
its recovery commits" is a behaviour. Claims, Stage B, the fence, the call and
the outcome get none: each may fail for ever. VerifiedProviderAction: time
passes, a call that has begun makes its next step, both entry points are called
again and again, and deaths are finitely many (`FewDeaths`); without the last,
"dies in every readback" is a behaviour. ProductionActionLedger: an append that
has begun goes on, the cadence is run again and again, failures and appends are
finitely many. Time needs no fairness there: only a head dated in the future
waits for it, and one of the cadences has the fastest clock. Appends without end
would let every checkpoint come too late (`CHECKPOINT_CONFLICT`), which the
code allows.

## 5. Properties

DurableExecution:

- `AtMostOneCall`: at most one adapter call per operation, per key and per
  nonce, over all executions.
- `ClaimableIsUntouched`: a row that may be claimed was never called, and no
  worker, not even one that lost its lease, is past the fence for it.
- `OutcomeIsHonest`: verifying only after an acceptance, manual only after a
  rejection, settled only if dispatch was recorded.
- `DispatchHoldsReservations`: from the fence on, nonce, key and effect are
  this execution's, bound at the lease epoch that dispatched.
- `OutboxTellsTheRow`: a consumer that keeps the event of highest revision
  knows status and dispatch state, up to the one silent revision of Stage B.
- `LiveLeaseIsExclusive`, `RowMovesForward`: what a step may never do.
- `ImplementsEffectOnce`: refinement.
- `DispatchedSettles`, `ExpiredIsRecovered`: liveness.

VerifiedProviderAction:

- `ImplementsEffectOnce`: of the record, the execution and the request together, the
  promise of EffectOnce; with it `AtMostOneSend`: one write request, over all
  takeovers and repeated calls.
- `NoForeignOverwrite`: the write replaces the version the plan was frozen
  with, whoever edits when.
- `StoresAgree`: before the request is out, execution, record and ledger all
  say so; a classified effect belongs to a write that was applied, started and
  accepted; and the three stores, written one after the other with deaths
  between them, never contradict each other.
- `RecordIsFinal`: final statuses and the dispatch instant stay.
- `VerifyingSettles`: liveness.

ProductionActionLedger:

- `StreamTellsTheChain`: the row is locked exactly while a transaction is
  writing, whoever fails; stream row and entries agree after every commit and
  every failure; no gap.
- `HashSealsHistory`: a hash, and a checkpoint of it, commits to every entry up
  to its own.
- `CheckpointsAreSpaced`: concurrent cadences keep the distance of the policy.
  It holds because a run reads the entries first and the latest checkpoint
  after; the other order would break it.
- `KeepsTheLog`: refinement. `DueIsCheckpointed`: liveness.

The runtimes (`ApplicationRuntime`):

- `RunsAreSound`: a run waits exactly while it says so, and every revision of
  it answers one call.
- `TasksAreSound`: a claim is not taken away, a task is bound to a wait its run
  really had, every task that was written can be read.
- `EventsAreSound`: receipts agree; a claim is taken over only after it has run
  out on some worker's clock; an event is consumed once, whatever the clocks; and its
  row can be read if no worker's clock is behind a sender's (`NobodyLags`).
- `JobsAreSound`: one result, whatever the clocks; and no write refused as out of
  order, if the callers' clocks agree.
- `ExperiencesAreSound`: what a person sees is what the runtime has, whatever the
  host calls from its callbacks, and though it is late or pushes out of order; and
  the platforms agree. Two callbacks are excepted: a DOM port that mounts or disposes
  while it mounts, and an id factory that dispatches (section 8).
- `EndsAreFinal`: no step reopens what has ended, or puts an older screen back.

The services (`PlatformServices`):

- `DeploymentsAreSound`: the history of an environment is a chain, and a
  release comes through the environments in their order. `PlaneSpec`: the plane
  on PostgreSQL implements one step per operation.
- `StudioIsSound`, `ApplicationsAreSound`: what is stored can be read, what is
  published, resolved, cached or applied is what was written, served or agreed
  to; an edit changes what it names, an import returns what was exported, what
  the inspector offers is accepted.
  Of an experience whose id was used before, both are said until a mutation of its
  predecessor is stored in it (section 7).
- `QuotaIsSound`, `MoneyIsSound`: an overrun is bounded by what was allowed and
  not yet used, among consumers that share a clock; billed once, invoiced once, an allocation adds up.
- `AuthorityIsSound`: what is accepted was reviewed and approved as it stands, and a
  nonce is accepted once (not an operation: section 8); a signed request is taken
  within its window, and while its session is in force by the clock that takes it; one
  effect per state of an experience.
- `StepsAreSound`: no step activates a deprecated release, rewrites an exported
  invoice, overwrites an unseen edit, or loses in the workbench what it was not asked
  to change; none changes draft and publication at once, with the exception of
  `StudioIsSound`.

## 6. Proofs

The theorems hold for every value of the constants their module's `ASSUME`
allows: any number of workers, executions, callers, clocks, any lease length.
TLC checked the property on a small instance before each proof.

**DurableExecution** (`DurableExecutionProofs`). `ConstantsAssumption` asks for
finitely many workers, `NoExecution` and `NoWorker` outside the sets, and a
positive lease. Clocks enter guards that the invariant never uses.
`Fenced` is the inductive invariant. `AtMostOneCall` alone is not inductive: a
state in which two workers stand behind the fence of one row satisfies it, and
the next step breaks it. `Fenced` adds why this cannot be:

- `RowShape`: dispatch is forgotten by no status.
- `JobShape`: a worker past its claim holds an epoch and a revision the row
  has had; if its revision is the row's, it owns the row and stands on the
  side of the fence the row is on.
- `EpochIsUnique`: no two workers hold the same epoch of one execution.
- `FenceIsBacked`: between Stage B and the fence, a worker whose revision is
  still current owns its nonce, key and effect.
- `CallerIsAlone`, `CallsAreFenced`: past the fence there is the one worker of
  the row's epoch, and the histories count its one call.

There is one lemma per action that writes; three lemmas carry what they share
(`OwnerStep`: the owner advances its row; `ReleaseStep`: a row is released and
everyone's memory falls behind; `OthersStayBacked`). `OutboxTellsTheRowAlways`
rests on `OutboxIsHeard`, which says of every row which events there are and
that none is above its revision. `Refinement` (`Spec => ImplementsEffectOnce`)
maps every step to a step or a stutter of `EffectOnce`; the reservations of
Stage B keep every rival out of the commitment. The
action properties need one thing `Fenced` leaves out, that a worker looks at a
row it found expired at an instant that is past (`ScansArePast`): then every
step moves rows well (`RowsMoveWell`), which gives `RowsMoveForward` and
`LiveLeasesAreExclusive`. The latter is the only theorem here about time.

**VerifiedProviderAction** (`VerifiedProviderActionProofs`). `IInv` is the
inductive invariant. `Remembers`: a worker whose record has the revision of the
row has the row, and an older one is behind it for good; `OneBehindFence`: of
the workers past the execution's fence one at most holds the current record;
`WriterOK` and `ReaderOK`: what the place of a worker in its call says of the
three stores; `StoresOK`: what the record says of the other two. Theorems:
`TypeCorrect`, `OneSend`, `OnlyExpectedIsReplaced`, `StoresNeverDisagree`,
`FinalStays`, and `Refinement` (`Spec => ImplementsEffectOnce`), where the fence of
the execution is the commitment: who comes to it remembers a record, so the record is there
(`FenceStep`), and the request goes out behind it (`RequestStep`). Deaths are
unbounded in all of them.

**ProductionActionLedger** (`ProductionActionLedgerProofs`). `ChainInv` makes the
chain inductive: whoever holds the lock knows the stream row as it is
(`HolderKnowsTheStream`), so that the place it writes to is the next one.
`CheckpointInv` is about what a cadence knows between its steps: the entries it
read are still there (`RunReadTheChain`); a checkpoint it did not see is of its
own head or above (`RunKnowsTheLatest`), because a checkpoint is stored only
while its entry is the last, and the run's head was there before; and it signed
only what was due (`SignedWhenDue`). With the guard of `appendCheckpoint` this
gives the distance (`Spacing`), though decision and storing are apart.
Theorems: `Typing`, `ChainIsWhole`, `Spacing`, `History`, and `Implements`
(`Spec => KeepsTheLog`).

**Runs and tasks** (`HumanTaskProofs`, about `HumanTask` and `ApplicationRun`).
`RunWritesHold` and `TaskWritesHold` say what a caller holds between its read
and its write: the successor of a row that was on record at that revision, so
that the write is that successor or is refused. `RunsAreSoundAlways` is on any
clocks. `TasksAreSoundAlways` has the hypothesis `ClocksAgree`, which is what
TLC's instance has, too: a caller whose clock is behind writes a task that
`human-task.ts:251` and `:260` refuse to read ever after (section 8).
`SoundOnAnyClocks` is all the rest of it without that hypothesis, and
`ClosedStays` and `WaitsAreConsumedByResume` are action properties.

**The inbox** (`RevisionStoreProofs`, about `TriggerInbox`). `InboxHolds` is
inductive: `WriteHolds`, a process in its call is about to write the successor of
the row it read, or comes too late; `ClaimIsOnRecord`, a claim that has not run
out on any worker's clock is the one on record; `Sound`, the receipt of a row is not in
the future of the process that dated it, which with `NobodyLags` keeps it
readable; `ReceiptsTellTheRow`. The clocks are any. From it
`SendersAreToldOneStory`, `ClaimsAreExclusive` and `EventsAreConsumedOnce`, and
`EventsAreSoundAlways`, which is the whole of what the run checks of this part.
`InboxConstants` is their hypothesis; TLC evaluates it as an assumption of
`MCApplicationRuntime`.

**Deployments** (`ApplicationDeploymentProofs`). `ReadsHold` is inductive: what
a call has read is still so while the revision it was read at is the active
one (`OperationFits`, `SourceRan`, `TargetDiffers`), and the plane only grows.
It gives `DeploymentsAreSoundAlways`, `NothingDeprecatedIsActivated`, though a
deprecation may fall between any read and the commit, and `Refinement`: every
transaction of the calls is a step of the atomic plane or a stutter.

**Hosted jobs** (`RevisionStoreProofs`, about `HostedCapabilityJob`). `JobsHold` is
inductive: `RowsAreValid`, what the store's parser demands of the row on record;
`CallsFollow`, a caller in its call either asked about the row as it is at an
instant no earlier than that row's (`Follows`), or holds a successor that is valid
and replaces the row only while the row is active and at the revision before it
(`Replaces`), where the instants and the validity of what is held are said of clocks
that agree (`Dated`), and the rest of any clocks, because the store refuses what it
would not read; `OnRecord`, what a provider was told ok for is the completion on
record. It gives `OneResultAlways` and `NoWriteEverThrows`, together
`JobsAreSoundAlways`, which is the whole of what the run checks of this part; and
the action property `EndedStays`, which adds that only a commit writes
(`OnlyCommitWrites`). `JobConstants` is their hypothesis; TLC evaluates it as an
assumption of `MCApplicationRuntime`.

**The boundary of an action** (`PlatformServiceProofs`). `OneEffectPerRevision` is
not inductive: an effect in doubt may be at a revision the boundary has not
forgotten. `BoundaryHolds` adds that such an effect still holds the revision last
seen and that nothing else is held (`DoubtIsReserved`), and that every name that
crossed is remembered (`NamesAreUsed`). `BoundaryHoldsAlways` gives `TypeCorrect`,
`OneEffect` and `NamesAreOnce`. `BoundaryConstants` is their hypothesis, and an
assumption of `MCPlatformServices`.

**Authority to act** (`PlatformServiceProofs`, about `TransactionApproval`). What
is accepted says nothing of the awaits it came through. `AuthorityHolds` says it
of every place a grant can be in: at the signer (`signing`), signed (`grants`), at
a verifier or the replay guard (`CallsAreGranted`), and accepted: it lies within
some approval on record (`IsGranted`), of which there may be several, as there may be
several grants, which is of what its person reviewed
(`IsReviewed`), of a plan that ends before the trust in what supplies it
(`PlanIsTrusted`); and an accepted nonce is spent (`NoncesAreSpent`).
`AuthorityHoldsAlways` gives `AcceptedIsApproved` and `NoncesCountOnce`, under
`ApprovalConstants` (plans and trust have an end). `PlansCanBeCarriedOut`, which
is what a depth-first visit of a graph computes, stays with TLC.

**The studio** (`PlatformServiceProofs`, about `StudioLifecycle`).
`StudioIsReadable` says nothing of the mutations that have read the record and not
written yet. `StudioHolds` adds that a write that waits is the first draft, or
names a version that is gone, or is the next draft or publication of the record
as it is (`WriteHolds`, `Replaces`), and the same of a restore between its two
reads (`RestoreHolds`). The id of an experience may be used any number of times: every
call keeps the birth it was checked in (`life`), what is said of a write that waits is
said of those of the life that lasts (`Current`), and where one of an earlier life is
stored, the history `intruded` says so until the experience is deleted.
`StudioHoldsAlways` gives `StoredIsReadable` and the action property
`DraftsAndPublicationsApart`, both of what is not `intruded`; what can happen then is
the finding of the run `StudioReborn`. The hypothesis is `StudioConstants`, on one
service clock.

**Browser sessions** (`PlatformServiceProofs`). What is dispatched says nothing of
the request on its way. `BrowserHolds` adds that every revision of the membership
is kept as it was (`MembershipsAreKept`), that what the API has taken it took
within the window, and that what it has authorized was in force when it took it, by
its own clock (`InForce`). A later revocation is dated by the administration's clock,
so it may name an earlier instant, but not an earlier reading of one clock
(`NoLater`). `NothingIsDoneAfterTheEnd` follows, under `BrowserConstants`, for clocks
that differ by any amount.

**Billing** (`PlatformServiceProofs`, about `CommercialBilling`). `BillingHolds`
adds to `BilledOncePerMeter` that a usage event, on its way or appended, is dated by
the final verification of its action, and that a draft and a saved invoice hold
usage of their period (`IsOfItsPeriod`). The first keeps `appendUsage` from meeting
another event under the same identity, the second makes lines of disjoint periods
disjoint. `NoUsageIsBilledTwice`, `NoUsageIsInvoicedTwice` (under
`BillingConstants`) and the action property `SavedExportsStay`.

**Settlement** (`PlatformServiceProofs`, about `CommercialBilling`). `FundsHold`
says that the allocation on record is what `Allocate` makes of a schedule whose
shares add up. That the parts then add up to the gross amount and that the platform
is not short (`AllocationIsWhole`) compares two sums over the parties, of shares and
of quotients rounded down (`SumsCompare`). `BooksHold` gives
`RecordsFollowTheTransaction`. `SettlementStaysSound` is both, under
`SettlementConstants`: all that the run checks of this part.

**Quotas and evidence** (`PlatformServiceProofs`, about `CommercialAccess`). What is
used says nothing of what consumers have read and not used yet. `QuotaHolds` relates
the two by `Fits`: either there is room for one proposal of every consumer that is
open, or one of them has seen so much used that there is room for one of each of the
others beyond it. When a window begins, nothing is used of it. `OverrunStaysBounded`
follows. `EvidenceHolds` says of every rating that a consumer holds that the parser of
its reader accepts it, and gives `EvidenceStaysCanonical`, which is both other
properties of the part. `NoGrantIsDisplaced` is that of the entitlement sets. The
hypothesis is `QuotaConstants` (finitely many consumers and meters, positive
proposals of which one is the largest); TLC evaluates it as an assumption of
`MCPlatformServices`. A sum over a finite set is in the model a fold that takes any
element first. The lemmas about it (`SumIsItsOwn`, `SumOfMore`) argue by a smallest
set for which they fail (`SmallestIsThere`): no theorem of induction with a predicate
as its parameter is needed.

**Federated sources** (`PlatformServiceProofs`, about the transport of
`ApplicationFederation`). `FederationHolds` follows an answer through the
transport: its body may be mangled, but the page its validator names was served.
`WhatIsHeldWasServed` and `WhatIsConfirmedIsCurrent`, for any sources and pages.

**Delegations** (`PlatformServiceProofs`, about `IdentityDelegation`). The chain is a
fold over the grants, of any length. `ChainIsWhatFollows` writes the fold as what
comes after each grant (`After`), `ChainsAreGood` says what that is: all the grants so
far if each is good at its place (`GoodAt`), and else a refusal. It argues by the
first grant for which it fails, as above. `DelegationIsAlwaysAPath` is
`DelegationIsAPath` for any grants, principals, revocations and time. Its hypotheses
are that the value of a refusal is no chain (`RefusalIsNoChain`) and that the absent
parent is no grant's id, as with the model values of the run.

**A canvas draft** (`ApplicationDeploymentProofs`, about `CanvasSession`).
`CanvasHolds`: the draft is valid, and an editor that has read the current revision
has read the current draft. It gives `NothingEverDangles` and the action property
`NothingUnseenIsOverwritten`.

**A shared canvas** (`ApplicationDeploymentProofs`, about `CanvasCollaboration`).
`CollaborationHolds` adds to the properties that a proposal for the current
revision starts from the current semantics, that a compatible one fits them and
the projection (`ProposalHolds`), that what was applied met the revision it was
made for, which is gone (`AppliedHolds`), and that applied revisions increase.
`WhatIsAppliedWasAgreed`, `OneProposalPerRevision` and `ApprovedIsApplicable`,
under `CollaborationConstants`: all that the run checks of this part.

**Resolution** (`ApplicationDeploymentProofs`, about `ApplicationResolution`).
`ResolutionHolds` says what a request knows between its reads (`LookHolds`):
the deployment it has is in the history, and the plane only goes on
(`PlaneGoesOn`). `WhatIsResolvedIsFresh` is both properties of the part, for
environments that are asked for among those there are.

**A screen on iOS** (`ExperienceProofs`, about `NativeExperience`). `NativeHolds`
adds that what is painted is never ahead of session and adapter: two pictures of
one revision and generation are one. `TheScreenIsCurrent`,
`WhatComesBackIsTheHosts` and the action property `TheScreenNeverGoesBack`, for any
plans, rules and interactions.

**The core on iOS** (`ExperienceProofs`, about `NativeExperience` and `RuntimeCore`).
`TheCoresAgree` is `CoreAgreesWithWeb`, for patches of any length. Both patches are
folds: `PatchesAgree` follows the two of them, operation after operation, from a
plan, and `OperateAgrees` is one operation. That the two then take the same result
for a plan (`PlansAgree`) rests on where each capability is when the buckets are
put one after the other (`PlacesAre`). `CoreHolds` is inductive: the state stays
what the parser of a state accepts. The hypothesis is `CoreConstants`, what the
parsers of rules, plans and patches let through; TLC evaluates it as an assumption
of `MCApplicationRuntime`. All that `ExperiencesAreSound` asks is thus a theorem but
for `ViewIsATree`.

**A session on iOS** (`ExperienceProofs`, about `NativeSession`). A change is made
under the lock and told after it. `AppHolds` says of every listener and every
revision since it subscribed that it was told or is about to be
(`ToBeTold`), and of no other revision either. `EveryChangeIsHeard`,
`WhatCameBackIsUnverified` and `SwiftAgreesWithTheWeb`: on every state that is
reached, the Swift SDK makes of each event and of a copy what the web runtime
makes of it. The bounds are naturals, which is all that is assumed.

**A published experience** (`ExperienceProofs`, about `StudioRuntimeSession`).
`DispatchHolds`: what waits is an action without an outcome, of the view that is
shown; and a call that waits for its id still finds nothing waiting and the view it
was made on, unless another action came since (`NothingCame`). `AnswersMeetTheirView`,
whenever and however often a host answers and whatever it calls while it is asked for
an id. An action that another one crossed in that time is the exception that the
property names: it takes the other's place, and the view may be another.

**The resolver** (`ExperienceProofs`, about `ExperienceResolver`). `SlotsHold`
pairs reservations with the calls in flight, one to one; `Published` is what a call
knows after its first await and what a mount keeps. `ReservationsStayCalls` and
`MountedStaysPublished`. Hypotheses: finitely many instances, a natural limit, and
`RegistryIsValid` (every pack has passed `PackIsValid`, as registration demands);
`Refused` and `Missing` are one value, an absent answer.

**The web SDK** (`ExperienceProofs`, about `WebSdk`). The invariant is about the
whole stack of unfinished calls. `FrameHolds` says of each: a mount is not on the
screen yet, and nothing is active meanwhile unless the DOM port itself mounted or
disposed; what is taken down is closed; an event that will be reduced holds a state
that is the session's or an older one (`Reduces`), and where it is older its result
changes nothing; while listeners are told nothing is reduced, and the change that is
told last is newer than every one told before (`Tells`, `WasSo`).
`TheScreenIsTheActive`, `RevisionsAreHeardInOrder` and the action property
`NoChangeIsEverLost`. The host may call from every callback. The second and the third
hold without exception; of the first a part is said only as long as the DOM port did
not mount or dispose while it mounted (history `portCalled`; section 8).

**What stays with TLC.**

- Liveness and fairness, which these provers cannot do.
- What a recursion computes: `PlansCanBeCarriedOut`, `ViewIsATree`, and all of
  `StudioDocument`, `StudioWorkbench`, `CapabilitySupply`, `ApplicationDefinition`
  and the catalogues of `ApplicationFederation`.
- The grouped properties of the MC modules as wholes, where one of their conjuncts
  is in this list: the theorems are about the components.

## 7. Findings

**A row that cannot be read any more** (`DurableExecutionSkewedApi`). Stage B
writes `updatedAtEpochMs` from the database clock
(`integrations/postgres/src/durable-execution.ts:765`) and, unlike every other
write, does not read the row back. `createdAtEpochMs` is the caller's clock. If
that was ahead of the database's and the execution reaches Stage B before the
database catches up, the row is dated before its creation, which
`parseDurableExecutionRecord` (line 237) rejects. The fence and the recovery
throw from then on; the scanner returns the same row first in every round, and
the round ends with `RECOVERY_STORE_FAILED` before it claims anything.
`docs/evidence/PROD-12/Q8_REVERSE_ENGINEERING.md:59` has "crash before
dispatch" as recoverable. The worker in that run has a clock as far ahead as
the API's, so that it can claim the row at all; two hosts that share a time
source are such a pair.

**A conflict that cannot be read any more** (`VerifiedProviderActionConflict`).
When the conditional write conflicts (409 or 412),
`packages/action-verification/src/write-outcome.ts:49` sets the status
`precondition-mismatch` and keeps `writeDispatchedAtEpochMs`;
`durable.ts:136` rejects a record with both. The store writes it unchecked and
throws whenever it reads it from then on. Safety is not touched (nothing is
sent), but a repeated call throws instead of answering `precondition-mismatch`.

**Dispatched and left** (`VerifiedProviderActionDispatched`). A worker that dies
between `markWriteDispatched` and the next transition leaves `write-dispatched`.
`docs/evidence/PROD-13/Q1_TARGET_ARCHITECTURE.md:370` says that a restart resumes
and rereads; the readback worker answers `INVALID_STATUS_write-dispatched`
(`verified-provider-readback.ts:141`), the action worker
`UNEXPECTED_STATUS_write-dispatched`, and nothing calls `recoverExpired`, which
could do it, for such a record.

**Published under another's revision** (`StudioReborn`). `publish`
(`packages/studio-lifecycle/src/service.ts:666`) reads a record, compiles it and
replaces the record where its version is the one it read. Versions start at 1
again when a deleted experience is created again under its id, so the late write
replaces the new experience with the document and publication of the deleted
one, and `publishedDraftRevision` names a revision with another document.
`docs/studio/lifecycle-service.md:27` has "from that exact draft revision".

## 8. Observations

Met while reading; no property depends on them, or a property carries the
exception in its text.

Execution and ledger:

- A write without an answer becomes `uncertain`, which both workers treat as
  final; `docs/pr-plans/PROD-13.md:138` has "dispatch uncertain + reread
  expected -> verified".
- The age threshold (`checkpoint-cadence.ts:114`) does not ask whether anything
  is new: `maxAgeMs` after the last checkpoint of a quiet ledger every run
  signs its head again and the store answers `CHECKPOINT_CONFLICT`. The test at
  `tests/contract/production-action-ledger-checkpoint-worker.test.ts:111` stays
  below the age.
- A worker dates its entry before it waits for the stream's lock, so two
  executions of one plan may append in the other order than they dated; if the
  later stays the head, `checkpoint-cadence.ts:82` throws at every run.
  `DueIsCheckpointed` carries the exception.
- A caller of the task service whose clock is behind the row's writes a task
  that `human-task.ts:251` and `:260` refuse to read for ever. Backward clocks
  do the same to Studio records.
- A caller of the job service whose clock is behind another's may date a change
  before `startedAt`, or before the cancellation it confirms, and the store throws
  (`hosted-capability-job.ts:165-197`) until that clock has caught up; nothing is
  written. `NoWriteThrows` is said of clocks that agree.
- A worker of the inbox whose clock is behind the receiver's writes a claim with
  `updatedAt` before `receivedAt`, which `trigger-delivery.ts:394` refuses to read
  for ever; one whose clock is ahead takes over a lease (`:575`) that its owner still
  counts on. Both are in the model: `EventIsReadable` and `LeaseIsExclusive` say
  what is left.

Commerce:

- The `asOf` of a quote has to be the end of its period, so a UTC-month rating
  at the first of the next month counts the new window only, while usage lines
  are `[start, end)`; nothing compares priced quantities with usage lines.
- Usage that is dated after the instant of a rating is not in it
  (`metering.ts:510`), so consumers whose clocks differ may each use up a limit; the
  model has one clock for them. Preflight is advisory. One verified action can be billed under two meters if
  the binding's meter changes between retries. The reconciler's state is in
  memory. No source outside tests calls these services.

Approval and identity:

- A rejected approval does not stop a grant under another; a grant may be
  accepted after it expired, because `now` is read before two awaits; `plan.ts`
  sorts by code unit, `approval.ts` with `localeCompare`; the trust term of
  `latestExpiry` is redundant.
- One operation may be granted under several nonces, and each accepted once: that an
  operation has one effect is the promise of the durable queue, not of a grant.
- A signed request has no nonce store: it may be dispatched repeatedly for
  60 s, and repetitions are not counted by the rate limiter. The API reads
  `now` before its session query. An API whose clock is behind the administration's
  takes requests after a revocation was committed, until its clock has come to the
  revocation. The skew tolerance of OIDC is void, because
  `authorizeIdentityMembership` refuses what is issued after `now`.

Experiences:

- A DOM port that calls `mount` or `dispose` while it mounts gets two experiences on
  the screen, of which one can be taken down, or an experience in a disposed instance:
  `mount` checks `active` before the port and sets it after. A studio session checks
  `pending` before the id factory and sets it after, so an id factory that dispatches
  has its action overwritten, and an answer to the outer one moves whatever view there
  is. Both steps are in the models; `ScreenIsActive` (`portCalled`) and
  `OutcomeMeetsItsView` (`crossed`) except what follows from them, and nothing else.
- On iOS an answer whose snapshot a newer push overtook is refused as stale and
  takes the `error` route although the host said success. Session callbacks run
  outside the lock, so a listener may hear newer state first; `create` snapshots
  before it subscribes.
- `release` of a pending instance answers false and `resolve` still mounts it.
  The registry orders versions as text, compatibility as numbers.
- The web host calls a session listener after its experience was disposed of by
  an earlier listener; a failed creation keeps its reservation in the resolver.

Studio:

- `reconcilePuck` (`studio-workbench/src/session.ts:43`) advances the editor
  session before `commitPuckReconcile` checks; after a refusal the two differ,
  and a node missing in the refused tree is later imported without its
  `repeat`. `ReconcileKeepsTheRest` carries the exception.
- After a made-up editor id the export and `resolvePuckId` answer differently
  until a mutation; a semantic editor id accepted after opening is not reserved;
  unselected components may declare props with design names, whose style is
  dropped without a word; the sources of a preview manifest leave out repeats
  and payloads.

Applications and distribution:

- Federation in the second schema compares projections of the first and a
  digest nobody verified; `validUntilEpochMs` ignores a revocation set for the
  future; a failover does not check trust expiry again; a cursor loop a, b, a is
  not detected; a late page may put an older page back into the cache;
  `verifyCachedApplication` accepts releases that were never registered.
- Presence sequences restart after an apply; reviews may be added after a
  proposal was applied; a draft with one action id in two versions is refused.

## 9. What is not modelled

| Part | Why |
|---|---|
| Outbox delivery, retry safety | planned; of the outbox only what is written is modelled, not `listOutbox` and its consumers |
| Android SDK | the design of the iOS SDK, which is modelled, in Kotlin |
| Protocol, planner, composer, adapters, tool bridge | parsers, validators, transformations of documents |
| Governance, policy, security, trust | decision functions without state |
| Telemetry | records that nothing reads back |
| React surfaces, web host, API and web applications | rendering and thin HTTP surfaces over the packages |
| Tooling, operations, migrations | build gates, probes, DDL; the tables are mapped from the migrations |

Partly: the PostgreSQL stores of durable execution (every transaction that
writes; not the outbox reader), the private runner and the provider adapters
(as steps of a worker with all their answers; not URLs and payloads), hosted
jobs (no webhook envelopes).

## 10. Plan

1. `OutboxDelivery`: at-least-once delivery with receipts, implementing an
   abstract "applied once"; `RetrySafety` against its reference table.

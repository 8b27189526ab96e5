----------------------- MODULE VerifiedProviderAction -----------------------
(***************************************************************************)
(* One approved write to a provider's resource, from the permit of Stage B *)
(* to a classified effect: an independent read before the write, the write *)
(* itself, conditional on the version that was read, and an independent    *)
(* read after it.  The verification record, the execution row and the      *)
(* ledger are three stores without a common transaction; workers die       *)
(* between any two calls, and others take over with the same record.       *)
(*                                                                         *)
(* A step is one transaction, or one call of the provider.  Identity,      *)
(* shape and signature checks are taken to succeed.                        *)
(***************************************************************************)
EXTENDS Integers, FiniteSets

CONSTANTS
  Worker,       \* ids of worker processes
  NoWorker,     \* no lease
  LeaseMs,      \* length of a lease of the verification record
  ExecLeaseMs,  \* length of a lease of the execution
  Skew,         \* Skew[w]: clock of w minus clock of the database
  MaxEdits,     \* bound: edits of the resource by others
  MaxTime       \* bound: the database clock stops here

ASSUME ConstantsAssumption ==
  /\ NoWorker \notin Worker
  /\ LeaseMs \in Nat \ {0}
  /\ ExecLeaseMs \in Nat \ {0}
  /\ Skew \in [Worker -> Int]
  /\ MaxEdits \in Nat
  /\ MaxTime \in Nat

VARIABLES
  now,       \* clock_timestamp() of the database
  exec,      \* the row of the execution, see DurableExecution
  permit,    \* the Stage B permit each worker holds
  v,         \* vira.action_verification_state and the before-observation
  ledger,    \* kinds of the entries in the action ledger
  resource,  \* the provider's resource
  pc,        \* next call of each worker
  mem,       \* what each worker holds in memory
  sends,     \* history: write requests that reached the provider
  applied    \* history: version the write replaced, or -1

vars == <<now, exec, permit, v, ledger, resource, pc, mem, sends, applied>>

-----------------------------------------------------------------------------
(* The provider's resource *)

\* How many of the postconditions the content meets.
Content == {"none", "some", "all"}

\* The version the plan was frozen with.
Expected == 0

-----------------------------------------------------------------------------
(* The execution row, as far as a permit and its fence need it *)

Exec == [status : {"ready", "executing", "verifying", "manual", "uncertain"},
         revision : Nat, epoch : Nat, holder : Worker \cup {NoWorker},
         expires : Nat, dispatch : {"not-started", "started"}]

Permit == [epoch : Nat, revision : Nat]

NoPermit == [epoch |-> 0, revision |-> 0]

Clock(w) == now + Skew[w]

-----------------------------------------------------------------------------
(* The verification record *)

Effects   == {"verified", "partial", "mismatch"}
Final     == Effects \cup {"precondition-mismatch", "uncertain", "manual"}
VStatus   == {"absent", "pending-precheck", "ready-to-write", "write-dispatched",
              "verifying"} \cup Final

\* `before' is the version the before-observation saw, -1 when there is none;
\* `dated' says that updatedAtEpochMs is not before createdAtEpochMs.
Record == [status : VStatus, revision : Nat, epoch : Nat, holder : Worker \cup {NoWorker},
           expires : Nat, before : Nat \cup {-1}, written : BOOLEAN,
           created : Int, dated : BOOLEAN]

AbsentRecord == [status |-> "absent", revision |-> 0, epoch |-> 0, holder |-> NoWorker,
                 expires |-> 0, before |-> -1, written |-> FALSE, created |-> 0, dated |-> TRUE]

NewRecord(w) == [AbsentRecord EXCEPT !.status = "pending-precheck", !.revision = 1,
                                     !.created = Clock(w)]

\* isViraDurableActionVerificationRecord: what a store can parse.  A conflict
\* keeps the instant of the dispatch, which its status may not have.
Readable(r) == /\ r.dated
               /\ ~ (r.status \in {"pending-precheck", "precondition-mismatch", "ready-to-write"}
                     /\ r.written)

\* Every transition adds a revision and is dated by the database clock; none
\* looks at the record it makes.
Advanced(r) == [r EXCEPT !.revision = @ + 1, !.dated = r.created <= now]

Released(r, status) == [Advanced(r) EXCEPT !.status = status, !.holder = NoWorker, !.expires = 0]

\* (mutant) The instant of the dispatch is not kept.
DispatchedUnnoted(r) == [Advanced(r) EXCEPT !.status = "write-dispatched"]

Dispatched(r) == [Advanced(r) EXCEPT !.status = "write-dispatched", !.written = TRUE]

Leased(r, w) == [Advanced(r) EXCEPT !.epoch = @ + 1, !.holder = w, !.expires = now + LeaseMs]

PrecheckStatus(seen) == IF seen = -1 THEN "uncertain"
                        ELSE IF seen = Expected THEN "ready-to-write"
                        ELSE "precondition-mismatch"

\* (mutant) Any expired lease is taken for one of readback.
AlwaysVerifying(r) == "verifying"

StatusAfterExpiry(r) == IF r.written THEN "verifying" ELSE "ready-to-write"

\* What the provider answered to the write.
Answer == {"accepted", "conflict", "rejected", "uncertain"}

StatusOfAnswer(a) == IF a = "conflict" THEN "precondition-mismatch"
                     ELSE IF a = "rejected" THEN "manual" ELSE "uncertain"

\* (mutant) What is not uncertain is verified next.
RejectedIsVerifying(a) == IF a = "uncertain" THEN "uncertain" ELSE "verifying"

\* (mutant) The outcome itself becomes the status.
OutcomeAsStatus(a) == IF a = "accepted" THEN "accepted"
                      ELSE IF a = "uncertain" THEN "uncertain" ELSE "manual"

ExecStatusOf(a) == IF a = "accepted" THEN "verifying"
                   ELSE IF a = "uncertain" THEN "uncertain" ELSE "manual"

StatusOfContent(c) == IF c = "all" THEN "verified"
                      ELSE IF c = "some" THEN "partial" ELSE "mismatch"

-----------------------------------------------------------------------------
(* The action ledger *)

\* (mutant) A partial effect counts as a verified one.
PartialIsVerified(status) == IF status \in {"verified", "partial"} THEN "provider.effect.verified"
                             ELSE IF status = "mismatch" THEN "provider.effect.mismatch"
                             ELSE "provider.effect.uncertain"

EffectKind(status) == IF status = "verified" THEN "provider.effect.verified"
                      ELSE IF status = "partial" THEN "provider.effect.partial"
                      ELSE IF status = "mismatch" THEN "provider.effect.mismatch"
                      ELSE "provider.effect.uncertain"

EntryKind == {"provider.precondition.observed", "provider.precondition.mismatch",
              "provider.dispatch.started", "provider.dispatch.accepted",
              "provider.dispatch.rejected", "provider.dispatch.uncertain",
              "provider.postcondition.observed"} \cup {EffectKind(s) : s \in Effects \cup {"uncertain"}}

Append(kind) == ledger' = ledger \cup {kind}

-----------------------------------------------------------------------------
(* Workers *)

\* "ensure" .. "late-entry" are the calls of runViraVerifiedProviderAction in
\* order; the readback worker shares those from "recover" on.
Stage == {"idle", "ensure", "create", "observe-before", "precheck", "precheck-entry",
          "recover", "claim", "fence", "dispatch", "started-entry", "write",
          "outcome", "exec-outcome", "late-entry",
          "accepted-entry", "begin", "exec-accepted",
          "readback", "claim-readback", "observe-after", "complete",
          "uncertain-entry", "observed-entry", "truth-entry"}

\* The record as last returned by the store, the revision of the execution
\* after the fence, the version seen before or -1, the content seen after or
\* "unavailable", and the answer to the write.
Memory == [rec : Record, execRevision : Nat, seenBefore : Nat \cup {-1},
           seenAfter : Content \cup {"unavailable"}, answer : Answer \cup {"none"}]

NoMemory == [rec |-> AbsentRecord, execRevision |-> 0, seenBefore |-> -1,
             seenAfter |-> "unavailable", answer |-> "none"]

Goto(w, stage, m) == /\ pc'  = [pc EXCEPT ![w] = stage]
                     /\ mem' = [mem EXCEPT ![w] = m]

\* The call returns to the worker, which keeps its permit.
Return(w) == Goto(w, "idle", NoMemory)

Continue(w, stage, m) == IF stage = "idle" THEN Return(w) ELSE Goto(w, stage, m)

With(w, r) == [mem[w] EXCEPT !.rec = r]

\* After the precheck: whoever finds the record writes, reads back or leaves.
AfterPrecheck(w, r) ==
  IF r.status = "ready-to-write"
  THEN IF r.holder = NoWorker THEN "claim"
       ELSE IF r.expires <= Clock(w) THEN "recover"
       ELSE IF r.holder = w THEN "fence" ELSE "idle"
  ELSE IF r.status = "verifying"
  THEN IF r.holder = NoWorker THEN "claim-readback" ELSE "observe-after"
  ELSE "idle"

ActionStage(w, r) ==
  IF r.status = "pending-precheck" THEN "observe-before" ELSE AfterPrecheck(w, r)

\* (mutant) A lease that has run out is not recovered.
NoRecovery(w, r) == IF r.status # "verifying" THEN "idle"
                    ELSE IF r.holder = NoWorker THEN "claim-readback"
                    ELSE IF r.holder = w THEN "observe-after" ELSE "idle"

ReadbackStage(w, r) ==
  IF r.status # "verifying" THEN "idle"
  ELSE IF r.holder = NoWorker THEN "claim-readback"
  ELSE IF r.expires <= Clock(w) THEN "recover"
  ELSE IF r.holder = w THEN "observe-after" ELSE "idle"

\* Every mutation reads the record under a lock: one that cannot be parsed
\* makes the call throw; another revision is a conflict.
IsCurrent(w) == Readable(v) /\ v.revision = mem[w].rec.revision

HoldsLease(w) == /\ IsCurrent(w)
                 /\ v.holder = w
                 /\ v.epoch = mem[w].rec.epoch
                 /\ v.expires > now

store == <<exec, permit, v, ledger>>
world == <<now, resource, sends, applied>>

-----------------------------------------------------------------------------
(* The execution: claimed and reserved by DurableExecution *)

TakePermit(w) ==
  /\ pc[w] = "idle"
  /\ exec.status = "ready"
  /\ exec' = [status |-> "executing", revision |-> exec.revision + 1, epoch |-> exec.epoch + 1,
              holder |-> w, expires |-> now + ExecLeaseMs, dispatch |-> "not-started"]
  /\ permit' = [permit EXCEPT ![w] = [epoch |-> exec'.epoch, revision |-> exec'.revision]]
  /\ UNCHANGED <<world, v, ledger, pc, mem>>

RecoverExecution ==
  /\ exec.status = "executing"
  /\ exec.expires <= now
  /\ exec' = [exec EXCEPT !.status = IF exec.dispatch = "started" THEN "uncertain" ELSE "ready",
                          !.revision = @ + 1, !.holder = NoWorker, !.expires = 0]
  /\ UNCHANGED <<world, permit, v, ledger, pc, mem>>

-----------------------------------------------------------------------------
(* The verified action, in the order of its calls *)

RunAction(w) ==
  /\ pc[w] = "idle"
  /\ permit[w] # NoPermit
  /\ Goto(w, "ensure", NoMemory)
  /\ UNCHANGED <<world, store>>

Ensure(w) ==
  /\ pc[w] = "ensure"
  /\ Readable(v)
  /\ IF v.status = "absent" THEN Goto(w, "create", NoMemory)
                            ELSE Continue(w, ActionStage(w, v), With(w, v))
  /\ UNCHANGED <<world, store>>

\* (mutant) A create replaces the record that is there.
CreateReplaces == TRUE

CanCreate == v.status = "absent"

\* A create that another worker wins reads the record after all.
Create(w) ==
  /\ pc[w] = "create"
  /\ IF CanCreate
     THEN /\ v' = NewRecord(w)
          /\ Goto(w, "observe-before", With(w, NewRecord(w)))
     ELSE Goto(w, "ensure", NoMemory) /\ UNCHANGED v
  /\ UNCHANGED <<world, exec, permit, ledger>>

ObserveBefore(w) ==
  /\ pc[w] = "observe-before"
  /\ \E seen \in {-1, resource.version} :
       Goto(w, "precheck", [mem[w] EXCEPT !.seenBefore = seen])
  /\ UNCHANGED <<world, store>>

CanPrecheck(w) == IsCurrent(w) /\ v.status = "pending-precheck"

\* The observation is stored in the transaction that records the precheck.
RecordPrecheck(w) ==
  LET seen == mem[w].seenBefore
      r == [Advanced(v) EXCEPT !.status = PrecheckStatus(seen), !.before = seen]
  IN /\ pc[w] = "precheck"
     /\ CanPrecheck(w)
     /\ v' = r
     /\ IF seen = -1 THEN Return(w) ELSE Goto(w, "precheck-entry", With(w, r))
     /\ UNCHANGED <<world, exec, permit, ledger>>

PrecheckEntry(w) ==
  /\ pc[w] = "precheck-entry"
  /\ IF mem[w].rec.status = "ready-to-write"
     THEN Append("provider.precondition.observed") /\ Goto(w, "claim", mem[w])
     ELSE Append("provider.precondition.mismatch") /\ Return(w)
  /\ UNCHANGED <<world, exec, permit, v>>

CanRecover(w) == IsCurrent(w) /\ v.holder # NoWorker /\ v.expires <= now

RecoverExpired(w) ==
  LET r == Released(v, StatusAfterExpiry(v))
  IN /\ pc[w] = "recover"
     /\ CanRecover(w)
     /\ v' = r
     /\ Goto(w, IF r.status = "ready-to-write" THEN "claim" ELSE "claim-readback", With(w, r))
     /\ UNCHANGED <<world, exec, permit, ledger>>

CanClaim(w) == /\ IsCurrent(w)
               /\ v.status = "ready-to-write"
               /\ v.holder = NoWorker \/ v.expires <= now

ClaimWrite(w) ==
  LET r == Leased(v, w)
  IN /\ pc[w] = "claim"
     /\ CanClaim(w)
     /\ v' = r
     /\ Goto(w, "fence", With(w, r))
     /\ UNCHANGED <<world, exec, permit, ledger>>

\* The fence of DurableExecution, on the worker's clock, after a look at the
\* lease the worker remembers.
CanStart(w) == /\ mem[w].rec.holder = w
               /\ mem[w].rec.expires > Clock(w)
               /\ exec.status = "executing"
               /\ exec.holder = w
               /\ exec.epoch = permit[w].epoch
               /\ exec.revision = permit[w].revision
               /\ exec.expires > Clock(w)
               /\ exec.dispatch = "not-started"

MarkDispatchStarted(w) ==
  /\ pc[w] = "fence"
  /\ CanStart(w)
  /\ exec' = [exec EXCEPT !.dispatch = "started", !.revision = @ + 1]
  /\ Goto(w, "dispatch", [mem[w] EXCEPT !.execRevision = exec.revision + 1])
  /\ UNCHANGED <<world, permit, v, ledger>>

CanDispatch(w) == HoldsLease(w) /\ v.status = "ready-to-write"

MarkWriteDispatched(w) ==
  LET r == Dispatched(v)
  IN /\ pc[w] = "dispatch"
     /\ CanDispatch(w)
     /\ v' = r
     /\ Goto(w, "started-entry", With(w, r))
     /\ UNCHANGED <<world, exec, permit, ledger>>

StartedEntry(w) ==
  /\ pc[w] = "started-entry"
  /\ Append("provider.dispatch.started")
  /\ Goto(w, "write", mem[w])
  /\ UNCHANGED <<world, exec, permit, v>>

\* The private runner refuses, or fails before the request is out.
WriteNotSent(w) ==
  /\ pc[w] = "write"
  /\ Goto(w, "outcome", [mem[w] EXCEPT !.answer = "uncertain"])
  /\ UNCHANGED <<world, store>>

\* (mutant) The version is read anew when the write is sent.
LatestVersion(w) == resource.version

\* The version the write is conditional on.
Token(w) == mem[w].rec.before

\* (mutant) A write without an answer is sent again.
RetryUncertain(answer) == IF answer = "accepted" THEN "accepted-entry"
                          ELSE IF answer = "uncertain" THEN "write" ELSE "outcome"

AnswerStage(answer) == IF answer = "accepted" THEN "accepted-entry" ELSE "outcome"

\* The write reaches the provider; it is applied only to the version it names,
\* and then accepted, unless the answer is lost or a server error.
WriteApplied(w) ==
  /\ pc[w] = "write"
  /\ resource.version = Token(w)
  /\ \E c \in Content : resource' = [version |-> resource.version + 1, content |-> c]
  /\ applied' = resource.version
  /\ sends' = sends + 1
  /\ \E a \in {"accepted", "uncertain"} :
       Goto(w, AnswerStage(a), [mem[w] EXCEPT !.answer = a])
  /\ UNCHANGED <<now, store>>

WriteRefused(w) ==
  /\ pc[w] = "write"
  /\ sends' = sends + 1
  /\ \E a \in {"rejected", "uncertain"} \cup
              (IF resource.version = Token(w) THEN {} ELSE {"conflict"}) :
       Goto(w, AnswerStage(a), [mem[w] EXCEPT !.answer = a])
  /\ UNCHANGED <<now, resource, applied, store>>

CanRecord(w) == HoldsLease(w) /\ v.status = "write-dispatched"

RecordWriteOutcome(w) ==
  LET r == Released(v, StatusOfAnswer(mem[w].answer))
  IN /\ pc[w] = "outcome"
     /\ CanRecord(w)
     /\ v' = r
     /\ Goto(w, "exec-outcome", With(w, r))
     /\ UNCHANGED <<world, exec, permit, ledger>>

CanRecordExecution(w) == /\ exec.status = "executing"
                         /\ exec.holder = w
                         /\ exec.epoch = permit[w].epoch
                         /\ exec.revision = mem[w].execRevision
                         /\ exec.dispatch = "started"
                         /\ exec.expires > now
                         /\ exec.expires > Clock(w)

RecordExecution(w) ==
  exec' = [exec EXCEPT !.status = ExecStatusOf(mem[w].answer), !.revision = @ + 1,
                       !.holder = NoWorker, !.expires = 0]

RecordExecutionOutcome(w) ==
  /\ pc[w] = "exec-outcome"
  /\ CanRecordExecution(w)
  /\ RecordExecution(w)
  /\ Goto(w, "late-entry", mem[w])
  /\ UNCHANGED <<world, permit, v, ledger>>

LateEntry(w) ==
  /\ pc[w] = "late-entry"
  /\ Append(IF mem[w].answer = "uncertain" THEN "provider.dispatch.uncertain"
                                           ELSE "provider.dispatch.rejected")
  /\ Return(w)
  /\ UNCHANGED <<world, exec, permit, v>>

AcceptedEntry(w) ==
  /\ pc[w] = "accepted-entry"
  /\ Append("provider.dispatch.accepted")
  /\ Goto(w, "begin", mem[w])
  /\ UNCHANGED <<world, exec, permit, v>>

BeginPostcondition(w) ==
  LET r == [Advanced(v) EXCEPT !.status = "verifying"]
  IN /\ pc[w] = "begin"
     /\ CanRecord(w)
     /\ v' = r
     /\ Goto(w, "exec-accepted", With(w, r))
     /\ UNCHANGED <<world, exec, permit, ledger>>

RecordExecutionAccepted(w) ==
  /\ pc[w] = "exec-accepted"
  /\ CanRecordExecution(w)
  /\ RecordExecution(w)
  /\ Goto(w, "observe-after", mem[w])
  /\ UNCHANGED <<world, permit, v, ledger>>

-----------------------------------------------------------------------------
(* Reading back, by the same worker or by runViraVerifiedProviderReadback *)

RunReadback(w) ==
  /\ pc[w] = "idle"
  /\ Goto(w, "readback", NoMemory)
  /\ UNCHANGED <<world, store>>

ReadForReadback(w) ==
  /\ pc[w] = "readback"
  /\ Readable(v)
  /\ Continue(w, ReadbackStage(w, v), With(w, v))
  /\ UNCHANGED <<world, store>>

CanClaimReadback(w) == /\ IsCurrent(w)
                       /\ v.status = "verifying"
                       /\ v.holder = NoWorker
                       /\ v.written

ClaimReadback(w) ==
  LET r == Leased(v, w)
  IN /\ pc[w] = "claim-readback"
     /\ CanClaimReadback(w)
     /\ v' = r
     /\ Goto(w, "observe-after", With(w, r))
     /\ UNCHANGED <<world, exec, permit, ledger>>

ObserveAfter(w) ==
  /\ pc[w] = "observe-after"
  /\ \E seen \in {"unavailable", resource.content} :
       Goto(w, "complete", [mem[w] EXCEPT !.seenAfter = seen])
  /\ UNCHANGED <<world, store>>

CanComplete(w) == HoldsLease(w) /\ v.status = "verifying"

CompletePostcondition(w) ==
  LET seen == mem[w].seenAfter
      r == Released(v, IF seen = "unavailable" THEN "uncertain" ELSE StatusOfContent(seen))
  IN /\ pc[w] = "complete"
     /\ CanComplete(w)
     /\ v' = r
     /\ Goto(w, IF seen = "unavailable" THEN "uncertain-entry" ELSE "observed-entry", With(w, r))
     /\ UNCHANGED <<world, exec, permit, ledger>>

ObservedEntry(w) ==
  /\ pc[w] = "observed-entry"
  /\ Append("provider.postcondition.observed")
  /\ Goto(w, "truth-entry", mem[w])
  /\ UNCHANGED <<world, exec, permit, v>>

TruthEntry(w) ==
  /\ pc[w] \in {"uncertain-entry", "truth-entry"}
  /\ Append(EffectKind(mem[w].rec.status))
  /\ Return(w)
  /\ UNCHANGED <<world, exec, permit, v>>

\* A call whose guard fails returns or throws; so does a record that cannot
\* be read.
Refused(w) ==
  /\ \/ pc[w] \in {"ensure", "readback"} /\ ~ Readable(v)
     \/ pc[w] = "precheck"       /\ ~ CanPrecheck(w)
     \/ pc[w] = "recover"        /\ ~ CanRecover(w)
     \/ pc[w] = "claim"          /\ ~ CanClaim(w)
     \/ pc[w] = "fence"          /\ ~ CanStart(w)
     \/ pc[w] = "dispatch"       /\ ~ CanDispatch(w)
     \/ pc[w] \in {"outcome", "begin"} /\ ~ CanRecord(w)
     \/ pc[w] \in {"exec-outcome", "exec-accepted"} /\ ~ CanRecordExecution(w)
     \/ pc[w] = "claim-readback" /\ ~ CanClaimReadback(w)
     \/ pc[w] = "complete"       /\ ~ CanComplete(w)
  /\ Return(w)
  /\ UNCHANGED <<world, store>>

\* The process dies and loses its permit; or a call throws, a ledger append
\* fails, or the reply of a committed transaction is lost, and it does not.
Abandon(w) ==
  /\ pc[w] # "idle"
  /\ Return(w)
  /\ permit' \in {permit, [permit EXCEPT ![w] = NoPermit]}
  /\ UNCHANGED <<world, exec, v, ledger>>

-----------------------------------------------------------------------------
\* Somebody else changes the resource.
Edit == /\ resource.version < MaxEdits
        /\ \E c \in Content : resource' = [version |-> resource.version + 1, content |-> c]
        /\ UNCHANGED <<now, sends, applied, store, pc, mem>>

Tick == /\ now < MaxTime
        /\ now' = now + 1
        /\ UNCHANGED <<resource, sends, applied, store, pc, mem>>

Init ==
  /\ now = 0
  /\ exec = [status |-> "ready", revision |-> 1, epoch |-> 0, holder |-> NoWorker,
             expires |-> 0, dispatch |-> "not-started"]
  /\ permit = [w \in Worker |-> NoPermit]
  /\ v = AbsentRecord
  /\ ledger = {}
  /\ resource = [version |-> Expected, content |-> "none"]
  /\ pc = [w \in Worker |-> "idle"]
  /\ mem = [w \in Worker |-> NoMemory]
  /\ sends = 0
  /\ applied = -1

\* One call of runViraVerifiedProviderAction or of the readback worker.
Call(w) ==
  \/ Ensure(w) \/ Create(w) \/ ObserveBefore(w) \/ RecordPrecheck(w) \/ PrecheckEntry(w)
  \/ RecoverExpired(w) \/ ClaimWrite(w) \/ MarkDispatchStarted(w) \/ MarkWriteDispatched(w)
  \/ StartedEntry(w) \/ WriteNotSent(w) \/ WriteApplied(w) \/ WriteRefused(w)
  \/ RecordWriteOutcome(w) \/ RecordExecutionOutcome(w) \/ LateEntry(w)
  \/ AcceptedEntry(w) \/ BeginPostcondition(w) \/ RecordExecutionAccepted(w)
  \/ ReadForReadback(w) \/ ClaimReadback(w) \/ ObserveAfter(w) \/ CompletePostcondition(w)
  \/ ObservedEntry(w) \/ TruthEntry(w) \/ Refused(w)

\* Every step but a death.
Step ==
  \/ \E w \in Worker : TakePermit(w) \/ RunAction(w) \/ RunReadback(w) \/ Call(w)
  \/ RecoverExecution \/ Edit \/ Tick

Next == Step \/ \E w \in Worker : Abandon(w)

Spec == Init /\ [][Next]_vars

\* Time passes, a call that has begun goes on, and both entry points are tried
\* again and again.
Fairness ==
  /\ WF_vars(Tick)
  /\ \A w \in Worker : WF_vars(Call(w)) /\ SF_vars(RunAction(w)) /\ SF_vars(RunReadback(w))

-----------------------------------------------------------------------------
(* Properties *)

\* Rows, memories and histories have the shape the tables and types give them.
TypeOK ==
  /\ now \in Nat
  /\ exec \in Exec
  /\ permit \in [Worker -> Permit]
  /\ v \in Record
  /\ ledger \subseteq EntryKind
  /\ resource \in [version : Nat, content : Content]
  /\ pc \in [Worker -> Stage]
  /\ mem \in [Worker -> Memory]
  /\ sends \in Nat
  /\ applied \in Nat \cup {-1}

\* However many workers take the execution over, and however often they are
\* called again with the same permit, at most one write request reaches the
\* provider (markDispatchStarted, markWriteDispatched).
AtMostOneSend == sends <= 1

\* A write replaces the version the plan was frozen with, or nothing: no edit
\* that came after the plan is ever overwritten (recordPrecheck, the version
\* handed to writeAdapter).
NoForeignOverwrite == applied \in {-1, Expected}

\* No request goes out before both stores and the ledger say that it may.
SendIsOnRecord ==
  sends > 0 => /\ v.written
               /\ exec.dispatch = "started"
               /\ "provider.dispatch.started" \in ledger

\* Only an accepted write is ever verified: a record that waits for, or has,
\* a classified effect belongs to an applied write, and the ledger shows that
\* it was started and accepted.
EffectHasTrail ==
  v.status \in {"verifying"} \cup Effects =>
    /\ applied = Expected
    /\ {"provider.dispatch.started", "provider.dispatch.accepted"} \subseteq ledger

\* The execution's outcome never runs ahead of the verification record.
ExecutionFollowsVerification ==
  /\ exec.status = "verifying" => v.status \in {"verifying", "uncertain"} \cup Effects
  /\ exec.status = "manual" => v.status \in {"manual", "precondition-mismatch"} /\ v.written
  /\ exec.status = "ready" => ~ v.written /\ sends = 0

\* The ledger is written after the record and never says anything else.
LedgerTellsTheRecord ==
  /\ \A s \in Effects : EffectKind(s) \in ledger => v.status = s
  /\ "provider.dispatch.rejected" \in ledger =>
       v.status \in {"manual", "precondition-mismatch"} /\ applied = -1
  /\ "provider.precondition.mismatch" \in ledger => v.status = "precondition-mismatch" /\ sends = 0

\* The verification record, the execution row and the ledger are written in
\* separate transactions and never contradict each other.
StoresAgree ==
  SendIsOnRecord /\ EffectHasTrail /\ ExecutionFollowsVerification /\ LedgerTellsTheRecord

\* A final status stays, and a record that says "written" goes on saying so.
RecordIsFinal == [][/\ v.status \in Final => v'.status = v.status
                    /\ v.written => v'.written]_vars

\* The abstract view: the effect is announced by its verification record,
\* committed to by the fence of the execution, and settled when the execution
\* has an outcome.
EffectPhase ==
  IF exec.dispatch = "started"
  THEN IF exec.status = "executing" THEN "committed" ELSE "settled"
  ELSE IF v.status = "absent" THEN "absent" ELSE "pending"

Once == INSTANCE EffectOnce
        WITH Execution <- {Expected}, Rivals <- {},
             phase <- [e \in {Expected} |-> EffectPhase],
             calls <- [e \in {Expected} |-> sends]

\* The promise of EffectOnce, kept by an action whose record, execution and
\* request are three: no request before the commitment, none after the first,
\* and no takeover takes the commitment or its outcome back
\* (markDispatchStarted, recoverViraDurableExecutionAfterLeaseExpiry).
ImplementsEffectOnce == Once!Spec

\* Every record a transition stores can be read by the next one (validateRow,
\* which throws for any other).
RecordStaysReadable == Readable(v)

\* A record whose write was accepted gets a final status, whoever dies during
\* readback (recoverExpired, claimReadback).
VerifyingSettles == v.status = "verifying" ~> v.status \in Final

\* "restart resumes from persisted write-dispatched/verifying state and performs
\* reread": a record that a dead worker left write-dispatched moves on
\* (recoverExpired is called for other statuses only).
DispatchedIsReread == v.status = "write-dispatched" ~> v.status # "write-dispatched"
=============================================================================

-------------------- MODULE VerifiedProviderActionProofs --------------------
(* Proofs about VerifiedProviderAction for any number of workers, any       *)
(* clocks, any lease lengths and any number of edits by others.             *)
EXTENDS VerifiedProviderAction, TLAPS

-----------------------------------------------------------------------------
(* The inductive invariant                                                  *)

\* What a status says of the rest of a record, stored or remembered.
Shaped(r) ==
  /\ r.status = "absent" <=> r.revision = 0
  /\ r.status \in {"ready-to-write", "write-dispatched"} => r.before = Expected
  /\ r.status \in {"absent", "pending-precheck", "ready-to-write"} => ~ r.written
  /\ r.status \in {"write-dispatched", "verifying"} \cup Effects => r.written

\* A worker remembers the record as it was; the same revision is the same record.
Remembers(w) ==
  /\ Shaped(mem[w].rec)
  /\ mem[w].rec.revision <= v.revision
  /\ mem[w].rec.revision = v.revision => mem[w].rec = v

\* The calls between the fence of the execution and the release of its lease.
BehindFence == {"dispatch", "started-entry", "write", "outcome", "exec-outcome", "late-entry",
                "accepted-entry", "begin", "exec-accepted"}

\* The fence lets one worker through, once.
OneBehindFence ==
  /\ \A w \in Worker : pc[w] \in BehindFence => exec.dispatch = "started"
  /\ \A x, y \in Worker : pc[x] \in BehindFence /\ pc[y] \in BehindFence => x = y

\* What holds at each call up to the answer of the provider, and after it.
WriterOK(w) ==
  /\ pc[w] \in {"dispatch", "started-entry", "write"} => sends = 0
  /\ pc[w] \in {"started-entry", "write"} => mem[w].rec.before = Expected
  /\ pc[w] \in {"started-entry", "write", "outcome", "accepted-entry", "begin"} =>
       v.status = "write-dispatched"
  /\ pc[w] \in {"write", "outcome", "accepted-entry", "begin"} =>
       "provider.dispatch.started" \in ledger
  /\ pc[w] \in {"accepted-entry", "begin"} => mem[w].answer = "accepted" /\ applied = Expected
  /\ pc[w] = "begin" => "provider.dispatch.accepted" \in ledger
  /\ pc[w] = "exec-accepted" =>
       mem[w].answer = "accepted" /\ v.status \in {"verifying", "uncertain"} \cup Effects
  /\ pc[w] \in {"outcome", "exec-outcome", "late-entry"} =>
       /\ mem[w].answer \in {"conflict", "rejected", "uncertain"}
       /\ mem[w].answer # "uncertain" => applied = -1
  /\ pc[w] \in {"exec-outcome", "late-entry"} =>
       v.status = StatusOfAnswer(mem[w].answer) /\ v.written

\* What holds at the calls of a worker that reads, recovers or records.
ReaderOK(w) ==
  /\ pc[w] = "recover" => mem[w].rec.status \in {"ready-to-write", "verifying"}
  /\ pc[w] = "precheck-entry" =>
       \/ mem[w].rec.status = "ready-to-write"
       \/ v.status = "precondition-mismatch" /\ ~ v.written
  /\ pc[w] = "uncertain-entry" => mem[w].rec.status = "uncertain"
  /\ pc[w] \in {"observed-entry", "truth-entry"} =>
       mem[w].rec.status \in Effects /\ v.status = mem[w].rec.status

\* The stores and the two histories, whoever is about to call what.
StoresOK ==
  /\ Shaped(v)
  /\ v.revision = 0 => v = AbsentRecord
  /\ exec.status = "ready" => exec.dispatch = "not-started"
  /\ v.written => exec.dispatch = "started"
  /\ sends = 0 => applied = -1
  /\ "provider.precondition.mismatch" \in ledger => ~ v.written

IInv ==
  /\ TypeOK
  /\ AtMostOneSend
  /\ NoForeignOverwrite
  /\ StoresAgree
  /\ StoresOK
  /\ OneBehindFence
  /\ \A w \in Worker : Remembers(w) /\ WriterOK(w) /\ ReaderOK(w)

-----------------------------------------------------------------------------
(* What each transition does to a record                                    *)

LEMMA AbsentRecordFacts == ASSUME ConstantsAssumption PROVE
  /\ AbsentRecord \in Record
  /\ NoMemory \in Memory
  /\ NoMemory.rec = AbsentRecord
  /\ NoMemory.answer = "none"
  /\ AbsentRecord.status = "absent"
  /\ AbsentRecord.revision = 0
  /\ ~ AbsentRecord.written
  BY DEF AbsentRecord, NoMemory, Memory, Record, VStatus, Answer, ConstantsAssumption

\* createViraDurableActionVerification: the first revision, dated by the worker.
LEMMA NewRecordFacts ==
  ASSUME ConstantsAssumption, now \in Nat, NEW w \in Worker
  PROVE  /\ NewRecord(w) \in Record
         /\ NewRecord(w).status = "pending-precheck"
         /\ NewRecord(w).revision = 1
         /\ ~ NewRecord(w).written
<1> DEFINE full ==
      [status |-> "pending-precheck", revision |-> 1, epoch |-> 0,
       holder |-> NoWorker, expires |-> 0, before |-> -1, written |-> FALSE,
       created |-> Clock(w), dated |-> TRUE]
<1>1. ASSUME NEW x, x = NewRecord(w)
      PROVE  x = full
  BY <1>1, Zenon DEF NewRecord, AbsentRecord
<1>2. Clock(w) \in Int
  BY DEF Clock, ConstantsAssumption
<1>3. NewRecord(w) = full
  BY <1>1
<1>4. QED
  BY <1>3, <1>2 DEF Record, VStatus

\* The lease and the observation stay; the status may move.
AdvancedTo(r, status) == [Advanced(r) EXCEPT !.status = status]

LEMMA AdvancedFacts ==
  ASSUME NEW r \in Record, NEW status \in VStatus
  PROVE  /\ AdvancedTo(r, status) \in Record
         /\ AdvancedTo(r, status).status = status
         /\ AdvancedTo(r, status).revision = r.revision + 1
         /\ AdvancedTo(r, status).before = r.before
         /\ AdvancedTo(r, status).written = r.written
<1> DEFINE full ==
      [status |-> status, revision |-> r.revision + 1, epoch |-> r.epoch,
       holder |-> r.holder, expires |-> r.expires, before |-> r.before,
       written |-> r.written, created |-> r.created, dated |-> r.created <= now]
<1>1. ASSUME NEW x, x = AdvancedTo(r, status)
      PROVE  x = full
  BY <1>1, Zenon DEF AdvancedTo, Advanced, Record
<1>2. (r.created <= now) \in BOOLEAN
  OBVIOUS
<1>3. AdvancedTo(r, status) = full
  BY <1>1
<1>4. QED
  BY <1>3, <1>2 DEF Record

\* recordPrecheck stores what was observed.
Prechecked(r, status, seen) == [Advanced(r) EXCEPT !.status = status, !.before = seen]

LEMMA PrecheckedFacts ==
  ASSUME NEW r \in Record, NEW status \in VStatus, NEW seen \in Nat \cup {-1}
  PROVE  /\ Prechecked(r, status, seen) \in Record
         /\ Prechecked(r, status, seen).status = status
         /\ Prechecked(r, status, seen).revision = r.revision + 1
         /\ Prechecked(r, status, seen).before = seen
         /\ Prechecked(r, status, seen).written = r.written
<1> DEFINE full ==
      [status |-> status, revision |-> r.revision + 1, epoch |-> r.epoch,
       holder |-> r.holder, expires |-> r.expires, before |-> seen,
       written |-> r.written, created |-> r.created, dated |-> r.created <= now]
<1>1. ASSUME NEW x, x = Prechecked(r, status, seen)
      PROVE  x = full
  BY <1>1, Zenon DEF Prechecked, Advanced, Record
<1>2. (r.created <= now) \in BOOLEAN
  OBVIOUS
<1>3. Prechecked(r, status, seen) = full
  BY <1>1
<1>4. QED
  BY <1>3, <1>2 DEF Record

\* Expiry, outcome and completion drop the lease.
LEMMA ReleasedFacts ==
  ASSUME NEW r \in Record, NEW status \in VStatus
  PROVE  /\ Released(r, status) \in Record
         /\ Released(r, status).status = status
         /\ Released(r, status).revision = r.revision + 1
         /\ Released(r, status).before = r.before
         /\ Released(r, status).written = r.written
<1> DEFINE full ==
      [status |-> status, revision |-> r.revision + 1, epoch |-> r.epoch,
       holder |-> NoWorker, expires |-> 0, before |-> r.before,
       written |-> r.written, created |-> r.created, dated |-> r.created <= now]
<1>1. ASSUME NEW x, x = Released(r, status)
      PROVE  x = full
  BY <1>1, Zenon DEF Released, Advanced, Record
<1>2. (r.created <= now) \in BOOLEAN
  OBVIOUS
<1>3. Released(r, status) = full
  BY <1>1
<1>4. QED
  BY <1>3, <1>2 DEF Record

\* markWriteDispatched notes that the write may be out.
LEMMA DispatchedFacts ==
  ASSUME NEW r \in Record
  PROVE  /\ Dispatched(r) \in Record
         /\ Dispatched(r).status = "write-dispatched"
         /\ Dispatched(r).revision = r.revision + 1
         /\ Dispatched(r).before = r.before
         /\ Dispatched(r).written
<1> DEFINE full ==
      [status |-> "write-dispatched", revision |-> r.revision + 1, epoch |-> r.epoch,
       holder |-> r.holder, expires |-> r.expires, before |-> r.before,
       written |-> TRUE, created |-> r.created, dated |-> r.created <= now]
<1>1. ASSUME NEW x, x = Dispatched(r)
      PROVE  x = full
  BY <1>1, Zenon DEF Dispatched, Advanced, Record
<1>2. (r.created <= now) \in BOOLEAN
  OBVIOUS
<1>3. Dispatched(r) = full
  BY <1>1
<1>4. QED
  BY <1>3, <1>2 DEF Record, VStatus

\* claimWrite and claimReadback give a lease of the next epoch.
LEMMA LeasedFacts ==
  ASSUME ConstantsAssumption, now \in Nat, NEW r \in Record, NEW w \in Worker
  PROVE  /\ Leased(r, w) \in Record
         /\ Leased(r, w).status = r.status
         /\ Leased(r, w).revision = r.revision + 1
         /\ Leased(r, w).before = r.before
         /\ Leased(r, w).written = r.written
<1> DEFINE full ==
      [status |-> r.status, revision |-> r.revision + 1, epoch |-> r.epoch + 1,
       holder |-> w, expires |-> now + LeaseMs, before |-> r.before,
       written |-> r.written, created |-> r.created, dated |-> r.created <= now]
<1>1. ASSUME NEW x, x = Leased(r, w)
      PROVE  x = full
  BY <1>1, Zenon DEF Leased, Advanced, Record
<1>2. (r.created <= now) \in BOOLEAN
  OBVIOUS
<1>3. now + LeaseMs \in Nat
  BY DEF ConstantsAssumption
<1>4. Leased(r, w) = full
  BY <1>1
<1>5. QED
  BY <1>4, <1>2, <1>3 DEF Record

LEMMA StatusFacts ==
  /\ \A seen : PrecheckStatus(seen) \in {"uncertain", "ready-to-write", "precondition-mismatch"}
  /\ \A seen : PrecheckStatus(seen) = "ready-to-write" => seen = Expected
  /\ \A seen : PrecheckStatus(seen) = "uncertain" <=> seen = -1
  /\ \A r : StatusAfterExpiry(r) \in {"verifying", "ready-to-write"}
  /\ \A r : StatusAfterExpiry(r) = "verifying" <=> r.written
  /\ \A a : StatusOfAnswer(a) \in {"precondition-mismatch", "manual", "uncertain"}
  /\ \A a : a # "uncertain" /\ a # "rejected" /\ a # "conflict" => StatusOfAnswer(a) = "uncertain"
  /\ \A c : StatusOfContent(c) \in Effects
  BY DEF PrecheckStatus, StatusAfterExpiry, StatusOfAnswer, StatusOfContent, Effects, Expected

LEMMA StatusesAreStatuses ==
  /\ Effects \subseteq VStatus
  /\ {"absent", "pending-precheck", "ready-to-write", "write-dispatched", "verifying",
      "uncertain", "precondition-mismatch", "manual"} \subseteq VStatus
  BY DEF VStatus, Final, Effects

-----------------------------------------------------------------------------
(* Types                                                                    *)

\* Where a worker goes and what it remembers, as functions of the worker.
LEMMA GotoFacts ==
  ASSUME TypeOK, NEW w \in Worker, NEW stage \in Stage, NEW m \in Memory, Goto(w, stage, m)
  PROVE  /\ pc' \in [Worker -> Stage] /\ mem' \in [Worker -> Memory]
         /\ pc'[w] = stage /\ mem'[w] = m
         /\ \A x \in Worker : x # w => pc'[x] = pc[x] /\ mem'[x] = mem[x]
  BY DEF TypeOK, Goto

LEMMA WithFacts ==
  ASSUME TypeOK, NEW w \in Worker, NEW r \in Record
  PROVE  /\ With(w, r) \in Memory
         /\ With(w, r).rec = r
         /\ With(w, r).answer = mem[w].answer
         /\ With(w, r).seenBefore = mem[w].seenBefore
  BY DEF TypeOK, With, Memory

LEMMA EntryKinds ==
  /\ {"provider.precondition.observed", "provider.precondition.mismatch",
      "provider.dispatch.started", "provider.dispatch.accepted",
      "provider.dispatch.rejected", "provider.dispatch.uncertain",
      "provider.postcondition.observed"} \subseteq EntryKind
  /\ \A s : EffectKind(s) \in EntryKind
  BY DEF EntryKind, EffectKind, Effects

-----------------------------------------------------------------------------
(* What a step of one worker leaves to the others                           *)

\* The others wait at the call they were at, with what they remembered.
OthersWait(w) == \A x \in Worker : x # w => pc'[x] = pc[x] /\ mem'[x] = mem[x]

LEMMA OthersUndisturbed ==
  ASSUME IInv, NEW x \in Worker, pc'[x] = pc[x], mem'[x] = mem[x], v' = v,
         sends' = sends, applied' = applied, ledger \subseteq ledger'
  PROVE  Remembers(x)' /\ WriterOK(x)' /\ ReaderOK(x)'
<1>1. Remembers(x) /\ WriterOK(x) /\ ReaderOK(x)
  BY DEF IInv
<1>2. Remembers(x)'
  BY <1>1 DEF Remembers, Shaped
<1>3. WriterOK(x)'
  BY <1>1 DEF WriterOK
<1>4. ReaderOK(x)'
  BY <1>1 DEF ReaderOK
<1>5. QED
  BY <1>2, <1>3, <1>4

\* A transition of the record leaves final records alone, and a dispatched one
\* to the worker behind the fence.
LEMMA OthersAfterTransition ==
  ASSUME IInv, NEW x \in Worker, pc'[x] = pc[x], mem'[x] = mem[x], v' \in Record,
         v.status \notin Final, v'.revision = v.revision + 1,
         v.status = "write-dispatched" => pc[x] \notin BehindFence,
         v.status = "verifying" => v'.status \in {"verifying", "uncertain"} \cup Effects,
         sends' = sends, applied' = applied, ledger' = ledger
  PROVE  Remembers(x)' /\ WriterOK(x)' /\ ReaderOK(x)'
<1>1. Remembers(x) /\ WriterOK(x) /\ ReaderOK(x)
  BY DEF IInv
<1>2. mem[x].rec.revision \in Nat /\ v.revision \in Nat
  BY DEF IInv, TypeOK, Memory, Record
<1>3. Remembers(x)'
  BY <1>1, <1>2 DEF Remembers, Shaped
<1>4. WriterOK(x)'
  <2>1. pc[x] \notin {"started-entry", "write", "outcome", "accepted-entry", "begin"}
    BY <1>1 DEF WriterOK, BehindFence
  <2>2. pc[x] \notin {"exec-outcome", "late-entry"}
    BY <1>1, StatusFacts DEF WriterOK, Final
  <2>3. pc[x] = "exec-accepted" => v.status = "verifying"
    BY <1>1 DEF WriterOK, Final
  <2>4. QED
    BY <1>1, <2>1, <2>2, <2>3 DEF WriterOK
<1>5. ReaderOK(x)'
  BY <1>1 DEF ReaderOK, Final
<1>6. QED
  BY <1>3, <1>4, <1>5

\* Nobody but the fence lets a worker through.
LEMMA FenceKept ==
  ASSUME IInv, NEW w \in Worker, OthersWait(w), exec.dispatch = "started" => exec'.dispatch = "started",
         pc'[w] \in BehindFence => pc[w] \in BehindFence
  PROVE  OneBehindFence'
<1>1. \A x \in Worker : pc'[x] \in BehindFence => pc[x] \in BehindFence
  BY DEF OthersWait
<1>2. QED
  BY <1>1 DEF IInv, OneBehindFence

\* A call that changes no store.
LEMMA QuietCall ==
  ASSUME IInv, TypeOK', NEW w \in Worker, OthersWait(w),
         v' = v, exec' = exec, ledger' = ledger, sends' = sends, applied' = applied,
         pc'[w] \in BehindFence => pc[w] \in BehindFence,
         Remembers(w)', WriterOK(w)', ReaderOK(w)'
  PROVE  IInv'
<1>1. OneBehindFence'
  BY FenceKept
<1>2. \A x \in Worker : Remembers(x)' /\ WriterOK(x)' /\ ReaderOK(x)'
  BY OthersUndisturbed DEF OthersWait
<1>3. AtMostOneSend' /\ NoForeignOverwrite'
  BY DEF IInv, AtMostOneSend, NoForeignOverwrite
<1>4. StoresAgree'
  BY DEF IInv, StoresAgree, SendIsOnRecord, EffectHasTrail, ExecutionFollowsVerification,
         LedgerTellsTheRecord
<1>5. StoresOK'
  BY DEF IInv, StoresOK, Shaped
<1>6. QED
  BY <1>1, <1>2, <1>3, <1>4, <1>5 DEF IInv

\* A transaction on the verification record.
LEMMA Transition ==
  ASSUME IInv, TypeOK', NEW w \in Worker, OthersWait(w),
         exec' = exec, ledger' = ledger, sends' = sends, applied' = applied,
         pc'[w] \in BehindFence => pc[w] \in BehindFence,
         v.status \notin Final, v'.revision = v.revision + 1, Shaped(v'),
         v.status = "write-dispatched" => pc[w] \in BehindFence,
         v.status = "verifying" => v'.status \in {"verifying", "uncertain"} \cup Effects,
         v.written => v'.written,
         v'.written => exec.dispatch = "started",
         v'.status \in {"verifying"} \cup Effects =>
           /\ applied = Expected
           /\ {"provider.dispatch.started", "provider.dispatch.accepted"} \subseteq ledger,
         Remembers(w)', WriterOK(w)', ReaderOK(w)'
  PROVE  IInv'
<1>1. OneBehindFence'
  BY FenceKept
<1>2. \A x \in Worker : Remembers(x)' /\ WriterOK(x)' /\ ReaderOK(x)'
  <2>1. ASSUME NEW x \in Worker, x # w
        PROVE  Remembers(x)' /\ WriterOK(x)' /\ ReaderOK(x)'
    <3>1. v.status = "write-dispatched" => pc[x] \notin BehindFence
      BY <2>1 DEF IInv, OneBehindFence
    <3>2. v' \in Record
      BY DEF TypeOK
    <3>3. pc'[x] = pc[x] /\ mem'[x] = mem[x]
      BY <2>1 DEF OthersWait
    <3>4. QED
      BY <3>1, <3>2, <3>3, OthersAfterTransition
  <2>2. QED
    BY <2>1
<1>3. AtMostOneSend' /\ NoForeignOverwrite'
  BY DEF IInv, AtMostOneSend, NoForeignOverwrite
<1>4. StoresAgree'
  <2>1. SendIsOnRecord'
    BY DEF IInv, StoresAgree, SendIsOnRecord
  <2>2. EffectHasTrail'
    BY DEF EffectHasTrail
  <2>3. ExecutionFollowsVerification'
    <3>1. exec.status = "verifying" => v.status = "verifying"
      BY DEF IInv, StoresAgree, ExecutionFollowsVerification, Final
    <3>2. exec.status # "manual"
      BY DEF IInv, StoresAgree, ExecutionFollowsVerification, Final
    <3>3. exec.status = "ready" => ~ v'.written /\ sends = 0
      BY DEF IInv, StoresAgree, StoresOK, ExecutionFollowsVerification
    <3>4. QED
      BY <3>1, <3>2, <3>3 DEF ExecutionFollowsVerification
  <2>4. LedgerTellsTheRecord'
    <3>1. \A s \in Effects : EffectKind(s) \notin ledger
      BY DEF IInv, StoresAgree, LedgerTellsTheRecord, Final
    <3>2. "provider.dispatch.rejected" \notin ledger /\ "provider.precondition.mismatch" \notin ledger
      BY DEF IInv, StoresAgree, LedgerTellsTheRecord, Final
    <3>3. QED
      BY <3>1, <3>2 DEF LedgerTellsTheRecord
  <2>5. QED
    BY <2>1, <2>2, <2>3, <2>4 DEF StoresAgree
<1>5. StoresOK'
  <2>1. v'.revision # 0
    BY DEF IInv, TypeOK, Record
  <2>2. "provider.precondition.mismatch" \notin ledger
    BY DEF IInv, StoresAgree, LedgerTellsTheRecord, Final
  <2>3. QED
    BY <2>1, <2>2 DEF IInv, StoresOK, Shaped
<1>6. QED
  BY <1>1, <1>2, <1>3, <1>4, <1>5 DEF IInv

-----------------------------------------------------------------------------
(* Where a call arrives                                                     *)

\* The call a worker arrives at, when the step leaves the other types alone.
LEMMA Arrival ==
  ASSUME TypeOK, NEW w \in Worker, NEW stage \in Stage, NEW m \in Memory, Goto(w, stage, m),
         now' = now, exec' \in Exec, permit' \in [Worker -> Permit], v' \in Record,
         ledger' \subseteq EntryKind, resource' = resource, sends' = sends, applied' = applied
  PROVE  /\ TypeOK' /\ OthersWait(w)
         /\ pc'[w] = stage /\ mem'[w] = m
<1>1. /\ pc' \in [Worker -> Stage] /\ mem' \in [Worker -> Memory]
      /\ pc'[w] = stage /\ mem'[w] = m
      /\ \A x \in Worker : x # w => pc'[x] = pc[x] /\ mem'[x] = mem[x]
  BY GotoFacts
<1>2. QED
  BY <1>1 DEF TypeOK, OthersWait

\* A worker that returns forgets the record.
LEMMA Returned ==
  ASSUME NEW w \in Worker, pc'[w] = "idle", mem'[w] = NoMemory, v'.revision \in Nat,
         v'.revision = 0 => v' = AbsentRecord
  PROVE  Remembers(w)' /\ WriterOK(w)' /\ ReaderOK(w)'
<1>1. Shaped(AbsentRecord)
  BY AbsentRecordFacts, ConstantsAssumption DEF Shaped, Effects
<1>2. Remembers(w)'
  BY <1>1, AbsentRecordFacts, ConstantsAssumption DEF Remembers
<1>3. QED
  BY <1>2 DEF WriterOK, ReaderOK

\* A call that returns and changes no store.
LEMMA QuietReturn ==
  ASSUME IInv, NEW w \in Worker, Return(w), permit' \in [Worker -> Permit],
         now' = now, resource' = resource,
         v' = v, exec' = exec, ledger' = ledger, sends' = sends, applied' = applied
  PROVE  IInv'
<1>1. TypeOK /\ NoMemory \in Memory /\ "idle" \in Stage
  BY AbsentRecordFacts, ConstantsAssumption DEF IInv, Stage
<1>2. v \in Record /\ exec \in Exec /\ ledger \subseteq EntryKind
  BY <1>1 DEF TypeOK
<1>3. TypeOK' /\ OthersWait(w) /\ pc'[w] = "idle" /\ mem'[w] = NoMemory
  BY <1>1, <1>2, Arrival DEF Return
<1>4. v'.revision \in Nat /\ (v'.revision = 0 => v' = AbsentRecord)
  BY <1>2 DEF Record, IInv, StoresOK
<1>5. Remembers(w)' /\ WriterOK(w)' /\ ReaderOK(w)'
  BY <1>3, <1>4, Returned
<1>6. pc'[w] \notin BehindFence
  BY <1>3 DEF BehindFence
<1>7. QED
  BY <1>3, <1>5, <1>6, QuietCall

\* A call that moves on, changes no store, and keeps or refreshes the record.
LEMMA QuietGoto ==
  ASSUME IInv, NEW w \in Worker, NEW stage \in Stage, NEW m \in Memory, Goto(w, stage, m),
         permit' \in [Worker -> Permit], now' = now, resource' = resource,
         v' = v, exec' = exec, ledger' = ledger, sends' = sends, applied' = applied,
         m.rec = v \/ m.rec = mem[w].rec \/ m.rec = AbsentRecord,
         stage \in BehindFence => pc[w] \in BehindFence
  PROVE  /\ pc'[w] = stage /\ mem'[w] = m
         /\ WriterOK(w)' /\ ReaderOK(w)' => IInv'
<1>1. TypeOK
  BY DEF IInv
<1>2. v \in Record /\ exec \in Exec /\ ledger \subseteq EntryKind
  BY <1>1 DEF TypeOK
<1>3. TypeOK' /\ OthersWait(w) /\ pc'[w] = stage /\ mem'[w] = m
  BY <1>1, <1>2, Arrival
<1>4. Remembers(w)'
  <2>1. v.revision \in Nat /\ Remembers(w) /\ Shaped(v) /\ (v.revision = 0 => v = AbsentRecord)
    BY <1>2 DEF Record, IInv, StoresOK
  <2>2. Shaped(AbsentRecord) /\ AbsentRecord.revision = 0
    BY AbsentRecordFacts, ConstantsAssumption DEF Shaped, Effects
  <2>3. QED
    BY <1>3, <2>1, <2>2 DEF Remembers
<1>5. QED
  BY <1>3, <1>4, QuietCall

-----------------------------------------------------------------------------
(* Calls that change no store                                               *)

LEMMA RunActionKeeps == ASSUME IInv, NEW w \in Worker, RunAction(w) PROVE IInv'
<1>1. "ensure" \in Stage /\ NoMemory \in Memory /\ NoMemory.rec = AbsentRecord
  BY AbsentRecordFacts, ConstantsAssumption DEF Stage
<1>2. "ensure" \notin BehindFence /\ permit \in [Worker -> Permit]
  BY DEF BehindFence, IInv, TypeOK
<1>3. pc'[w] = "ensure" /\ (WriterOK(w)' /\ ReaderOK(w)' => IInv')
  BY <1>1, <1>2, QuietGoto DEF RunAction, world, store
<1>4. QED
  BY <1>3 DEF WriterOK, ReaderOK

LEMMA RunReadbackKeeps == ASSUME IInv, NEW w \in Worker, RunReadback(w) PROVE IInv'
<1>1. "readback" \in Stage /\ NoMemory \in Memory /\ NoMemory.rec = AbsentRecord
  BY AbsentRecordFacts, ConstantsAssumption DEF Stage
<1>2. "readback" \notin BehindFence /\ permit \in [Worker -> Permit]
  BY DEF BehindFence, IInv, TypeOK
<1>3. pc'[w] = "readback" /\ (WriterOK(w)' /\ ReaderOK(w)' => IInv')
  BY <1>1, <1>2, QuietGoto DEF RunReadback, world, store
<1>4. QED
  BY <1>3 DEF WriterOK, ReaderOK

\* Where a worker goes with a record it has just read.
LEMMA StageFacts ==
  ASSUME NEW w \in Worker, NEW r \in Record
  PROVE  /\ ActionStage(w, r) \in {"observe-before", "claim", "recover", "fence",
                                   "claim-readback", "observe-after", "idle"}
         /\ ReadbackStage(w, r) \in {"recover", "claim-readback", "observe-after", "idle"}
         /\ ActionStage(w, r) = "recover" => r.status = "ready-to-write"
         /\ ReadbackStage(w, r) = "recover" => r.status = "verifying"
  BY DEF ActionStage, AfterPrecheck, ReadbackStage

LEMMA ReadStage ==
  ASSUME IInv, NEW w \in Worker,
         NEW stage \in {"observe-before", "claim", "recover", "fence", "claim-readback",
                        "observe-after", "idle"},
         stage = "recover" => v.status \in {"ready-to-write", "verifying"},
         Continue(w, stage, With(w, v)), UNCHANGED <<world, store>>
  PROVE  IInv'
<1>1. TypeOK /\ v \in Record /\ permit \in [Worker -> Permit]
  BY DEF IInv, TypeOK
<1>2. CASE stage = "idle"
  <2>1. Return(w)
    BY <1>2 DEF Continue
  <2>2. QED
    BY <1>1, <2>1, QuietReturn DEF world, store
<1>3. CASE stage # "idle"
  <2>1. Goto(w, stage, With(w, v))
    BY <1>3 DEF Continue
  <2>2. With(w, v) \in Memory /\ With(w, v).rec = v
    BY <1>1, WithFacts
  <2>3. stage \in Stage /\ stage \notin BehindFence
    BY DEF Stage, BehindFence
  <2>4. /\ pc'[w] = stage /\ mem'[w] = With(w, v)
        /\ WriterOK(w)' /\ ReaderOK(w)' => IInv'
    BY <1>1, <2>1, <2>2, <2>3, QuietGoto DEF world, store
  <2>5. WriterOK(w)'
    BY <2>4 DEF WriterOK
  <2>6. ReaderOK(w)'
    BY <2>2, <2>4 DEF ReaderOK
  <2>7. QED
    BY <2>4, <2>5, <2>6
<1>4. QED
  BY <1>2, <1>3

LEMMA EnsureKeeps == ASSUME IInv, NEW w \in Worker, Ensure(w) PROVE IInv'
<1>1. TypeOK /\ v \in Record /\ permit \in [Worker -> Permit]
  BY DEF IInv, TypeOK
<1>2. CASE v.status = "absent"
  <2>1. "create" \in Stage /\ NoMemory \in Memory /\ NoMemory.rec = AbsentRecord
    BY AbsentRecordFacts, ConstantsAssumption DEF Stage
  <2>2. Goto(w, "create", NoMemory) /\ "create" \notin BehindFence
    BY <1>2 DEF Ensure, BehindFence
  <2>3. pc'[w] = "create" /\ (WriterOK(w)' /\ ReaderOK(w)' => IInv')
    BY <1>1, <2>1, <2>2, QuietGoto DEF Ensure, world, store
  <2>4. QED
    BY <2>3 DEF WriterOK, ReaderOK
<1>3. CASE v.status # "absent"
  <2>1. Continue(w, ActionStage(w, v), With(w, v)) /\ UNCHANGED <<world, store>>
    BY <1>3 DEF Ensure
  <2>2. QED
    BY <1>1, <2>1, StageFacts, ReadStage
<1>4. QED
  BY <1>2, <1>3

LEMMA ReadForReadbackKeeps == ASSUME IInv, NEW w \in Worker, ReadForReadback(w) PROVE IInv'
<1>1. v \in Record
  BY DEF IInv, TypeOK
<1>2. Continue(w, ReadbackStage(w, v), With(w, v)) /\ UNCHANGED <<world, store>>
  BY DEF ReadForReadback
<1>3. QED
  BY <1>1, <1>2, StageFacts, ReadStage

LEMMA ObserveBeforeKeeps == ASSUME IInv, NEW w \in Worker, ObserveBefore(w) PROVE IInv'
<1>1. TypeOK /\ permit \in [Worker -> Permit] /\ mem[w] \in Memory
  BY DEF IInv, TypeOK
<1>2. PICK seen \in {-1, resource.version} : Goto(w, "precheck", [mem[w] EXCEPT !.seenBefore = seen])
  BY DEF ObserveBefore
<1>3. seen \in Nat \cup {-1}
  BY <1>1 DEF TypeOK
<1> DEFINE m == [mem[w] EXCEPT !.seenBefore = seen]
<1>4. m \in Memory /\ m.rec = mem[w].rec
  BY <1>1, <1>3 DEF Memory
<1>5. "precheck" \in Stage /\ "precheck" \notin BehindFence
  BY DEF Stage, BehindFence
<1>6. Goto(w, "precheck", m)
  BY <1>2
<1> HIDE DEF m
<1>7. pc'[w] = "precheck" /\ (WriterOK(w)' /\ ReaderOK(w)' => IInv')
  BY <1>1, <1>4, <1>5, <1>6, QuietGoto DEF ObserveBefore, world, store
<1>8. QED
  BY <1>7 DEF WriterOK, ReaderOK

LEMMA ObserveAfterKeeps == ASSUME IInv, NEW w \in Worker, ObserveAfter(w) PROVE IInv'
<1>1. TypeOK /\ permit \in [Worker -> Permit] /\ mem[w] \in Memory
  BY DEF IInv, TypeOK
<1>2. PICK seen \in {"unavailable", resource.content} :
        Goto(w, "complete", [mem[w] EXCEPT !.seenAfter = seen])
  BY DEF ObserveAfter
<1>3. seen \in Content \cup {"unavailable"}
  BY <1>1 DEF TypeOK
<1> DEFINE m == [mem[w] EXCEPT !.seenAfter = seen]
<1>4. m \in Memory /\ m.rec = mem[w].rec
  BY <1>1, <1>3 DEF Memory
<1>5. "complete" \in Stage /\ "complete" \notin BehindFence
  BY DEF Stage, BehindFence
<1>6. Goto(w, "complete", m)
  BY <1>2
<1> HIDE DEF m
<1>7. pc'[w] = "complete" /\ (WriterOK(w)' /\ ReaderOK(w)' => IInv')
  BY <1>1, <1>4, <1>5, <1>6, QuietGoto DEF ObserveAfter, world, store
<1>8. QED
  BY <1>7 DEF WriterOK, ReaderOK

\* A request that is not sent has changed nothing.
LEMMA WriteNotSentKeeps == ASSUME IInv, NEW w \in Worker, WriteNotSent(w) PROVE IInv'
<1>1. TypeOK /\ permit \in [Worker -> Permit] /\ mem[w] \in Memory /\ WriterOK(w)
  BY DEF IInv, TypeOK
<1> DEFINE m == [mem[w] EXCEPT !.answer = "uncertain"]
<1>2. m \in Memory /\ m.rec = mem[w].rec /\ m.answer = "uncertain"
  BY <1>1 DEF Memory, Answer
<1>3. "outcome" \in Stage /\ pc[w] = "write" /\ "write" \in BehindFence
  BY DEF Stage, BehindFence, WriteNotSent
<1>4. Goto(w, "outcome", m)
  BY DEF WriteNotSent
<1> HIDE DEF m
<1>5. pc'[w] = "outcome" /\ mem'[w] = m /\ (WriterOK(w)' /\ ReaderOK(w)' => IInv')
  BY <1>1, <1>2, <1>3, <1>4, QuietGoto DEF WriteNotSent, world, store
<1>6. WriterOK(w)'
  BY <1>1, <1>2, <1>3, <1>5 DEF WriterOK, WriteNotSent, world, store
<1>7. QED
  BY <1>5, <1>6 DEF ReaderOK

LEMMA RefusedKeeps == ASSUME IInv, NEW w \in Worker, Refused(w) PROVE IInv'
  BY QuietReturn DEF Refused, world, store, IInv, TypeOK

LEMMA AbandonKeeps == ASSUME IInv, NEW w \in Worker, Abandon(w) PROVE IInv'
<1>1. permit' \in [Worker -> Permit]
  BY DEF Abandon, IInv, TypeOK, Permit, NoPermit
<1>2. QED
  BY <1>1, QuietReturn DEF Abandon, world

-----------------------------------------------------------------------------
(* Ledger appends                                                           *)

LEMMA EffectKindFacts ==
  /\ \A s \in Effects : EffectKind(s) \notin
       {"provider.precondition.observed", "provider.precondition.mismatch",
        "provider.dispatch.started", "provider.dispatch.accepted",
        "provider.dispatch.rejected", "provider.dispatch.uncertain",
        "provider.postcondition.observed", "provider.effect.uncertain"}
  /\ \A s, t \in Effects : EffectKind(s) = EffectKind(t) => s = t
  /\ EffectKind("uncertain") = "provider.effect.uncertain"
  /\ \A s \in Effects \cup {"uncertain"} :
       EffectKind(s) \notin {"provider.precondition.mismatch", "provider.dispatch.rejected"}
  BY DEF EffectKind, Effects

\* An entry is right when the record already says what it says.
LEMMA Entry ==
  ASSUME IInv, NEW w \in Worker, NEW stage \in Stage, NEW m \in Memory, Goto(w, stage, m),
         NEW kind \in EntryKind, Append(kind),
         UNCHANGED <<world, exec, permit, v>>,
         m = mem[w] \/ m = NoMemory,
         stage \in BehindFence => pc[w] \in BehindFence,
         \A s \in Effects : EffectKind(s) = kind => v.status = s,
         kind = "provider.dispatch.rejected" =>
           v.status \in {"manual", "precondition-mismatch"} /\ applied = -1,
         kind = "provider.precondition.mismatch" =>
           v.status = "precondition-mismatch" /\ ~ v.written
  PROVE  /\ pc'[w] = stage /\ mem'[w] = m
         /\ WriterOK(w)' /\ ReaderOK(w)' => IInv'
<1>1. TypeOK
  BY DEF IInv
<1>2. /\ v \in Record /\ exec \in Exec /\ ledger \subseteq EntryKind
      /\ permit \in [Worker -> Permit] /\ sends \in Nat
  BY <1>1 DEF TypeOK
<1>3. /\ now' = now /\ resource' = resource /\ sends' = sends /\ applied' = applied
      /\ exec' = exec /\ permit' = permit /\ v' = v /\ ledger' = ledger \cup {kind}
  BY DEF world, Append
<1>4. TypeOK' /\ OthersWait(w) /\ pc'[w] = stage /\ mem'[w] = m
  BY <1>1, <1>2, <1>3, Arrival
<1>5. Remembers(w)'
  <2>1. v.revision \in Nat /\ Remembers(w) /\ (v.revision = 0 => v = AbsentRecord)
    BY <1>2 DEF Record, IInv, StoresOK
  <2>2. Shaped(AbsentRecord) /\ AbsentRecord.revision = 0 /\ NoMemory.rec = AbsentRecord
    BY AbsentRecordFacts, ConstantsAssumption DEF Shaped, Effects
  <2>3. QED
    BY <1>3, <1>4, <2>1, <2>2 DEF Remembers
<1>6. OneBehindFence'
  BY <1>3, <1>4, FenceKept
<1>7. \A x \in Worker : x # w => Remembers(x)' /\ WriterOK(x)' /\ ReaderOK(x)'
  BY <1>3, <1>4, OthersUndisturbed DEF OthersWait
<1>8. AtMostOneSend' /\ NoForeignOverwrite'
  BY <1>3 DEF IInv, AtMostOneSend, NoForeignOverwrite
<1>9. SendIsOnRecord' /\ EffectHasTrail' /\ ExecutionFollowsVerification'
  BY <1>3 DEF IInv, StoresAgree, SendIsOnRecord, EffectHasTrail, ExecutionFollowsVerification
<1>10. LedgerTellsTheRecord'
  <2>1. ~ v.written => sends = 0
    BY <1>2 DEF IInv, StoresAgree, SendIsOnRecord
  <2>2. QED
    BY <1>3, <2>1 DEF IInv, StoresAgree, LedgerTellsTheRecord
<1>11. StoresOK'
  BY <1>3 DEF IInv, StoresOK, Shaped
<1>12. QED
  BY <1>4, <1>5, <1>6, <1>7, <1>8, <1>9, <1>10, <1>11 DEF IInv, StoresAgree

LEMMA PrecheckEntryKeeps == ASSUME IInv, NEW w \in Worker, PrecheckEntry(w) PROVE IInv'
<1>1. mem[w] \in Memory /\ ReaderOK(w) /\ NoMemory \in Memory /\ "claim" \in Stage /\ "idle" \in Stage
  BY AbsentRecordFacts, ConstantsAssumption DEF IInv, TypeOK, Stage
<1>2. CASE mem[w].rec.status = "ready-to-write"
  <2>1. Append("provider.precondition.observed") /\ Goto(w, "claim", mem[w])
    BY <1>2 DEF PrecheckEntry
  <2>2. pc'[w] = "claim" /\ (WriterOK(w)' /\ ReaderOK(w)' => IInv')
    BY <1>1, <2>1, Entry, EntryKinds, EffectKindFacts DEF PrecheckEntry, BehindFence
  <2>3. QED
    BY <2>2 DEF WriterOK, ReaderOK
<1>3. CASE mem[w].rec.status # "ready-to-write"
  <2>1. Append("provider.precondition.mismatch") /\ Goto(w, "idle", NoMemory)
    BY <1>3 DEF PrecheckEntry, Return
  <2>2. v.status = "precondition-mismatch" /\ ~ v.written
    BY <1>1, <1>3 DEF ReaderOK, PrecheckEntry
  <2>3. pc'[w] = "idle" /\ (WriterOK(w)' /\ ReaderOK(w)' => IInv')
    BY <1>1, <2>1, <2>2, Entry, EntryKinds, EffectKindFacts DEF PrecheckEntry, BehindFence
  <2>4. QED
    BY <2>3 DEF WriterOK, ReaderOK
<1>4. QED
  BY <1>2, <1>3

LEMMA StartedEntryKeeps == ASSUME IInv, NEW w \in Worker, StartedEntry(w) PROVE IInv'
<1>1. mem[w] \in Memory /\ WriterOK(w) /\ "write" \in Stage /\ pc[w] \in BehindFence
  BY DEF IInv, TypeOK, Stage, StartedEntry, BehindFence
<1>2. Append("provider.dispatch.started") /\ Goto(w, "write", mem[w])
  BY DEF StartedEntry
<1>3. pc'[w] = "write" /\ mem'[w] = mem[w] /\ (WriterOK(w)' /\ ReaderOK(w)' => IInv')
  BY <1>1, <1>2, Entry, EntryKinds, EffectKindFacts DEF StartedEntry
<1>4. WriterOK(w)'
  BY <1>1, <1>3 DEF WriterOK, StartedEntry, Append, world
<1>5. QED
  BY <1>3, <1>4 DEF ReaderOK

LEMMA AcceptedEntryKeeps == ASSUME IInv, NEW w \in Worker, AcceptedEntry(w) PROVE IInv'
<1>1. mem[w] \in Memory /\ WriterOK(w) /\ "begin" \in Stage /\ pc[w] \in BehindFence
  BY DEF IInv, TypeOK, Stage, AcceptedEntry, BehindFence
<1>2. Append("provider.dispatch.accepted") /\ Goto(w, "begin", mem[w])
  BY DEF AcceptedEntry
<1>3. pc'[w] = "begin" /\ mem'[w] = mem[w] /\ (WriterOK(w)' /\ ReaderOK(w)' => IInv')
  BY <1>1, <1>2, Entry, EntryKinds, EffectKindFacts DEF AcceptedEntry
<1>4. WriterOK(w)'
  BY <1>1, <1>3 DEF WriterOK, AcceptedEntry, Append, world
<1>5. QED
  BY <1>3, <1>4 DEF ReaderOK

LEMMA LateEntryKeeps == ASSUME IInv, NEW w \in Worker, LateEntry(w) PROVE IInv'
<1>1. WriterOK(w) /\ NoMemory \in Memory /\ "idle" \in Stage /\ pc[w] = "late-entry"
  BY AbsentRecordFacts, ConstantsAssumption DEF IInv, Stage, LateEntry
<1> DEFINE kind == IF mem[w].answer = "uncertain" THEN "provider.dispatch.uncertain"
                                                  ELSE "provider.dispatch.rejected"
<1>2. Append(kind) /\ Goto(w, "idle", NoMemory) /\ UNCHANGED <<world, exec, permit, v>>
  BY DEF LateEntry, Return
<1>3. kind \in {"provider.dispatch.uncertain", "provider.dispatch.rejected"}
  OBVIOUS
<1>4. kind = "provider.dispatch.rejected" =>
        v.status \in {"manual", "precondition-mismatch"} /\ applied = -1
  BY <1>1 DEF WriterOK, StatusOfAnswer
<1> HIDE DEF kind
<1>5. kind \in EntryKind /\ \A s \in Effects : EffectKind(s) # kind
  BY <1>3, EntryKinds, EffectKindFacts
<1>6. pc'[w] = "idle" /\ (WriterOK(w)' /\ ReaderOK(w)' => IInv')
  BY <1>1, <1>2, <1>3, <1>4, <1>5, Entry DEF BehindFence
<1>7. QED
  BY <1>6 DEF WriterOK, ReaderOK

LEMMA ObservedEntryKeeps == ASSUME IInv, NEW w \in Worker, ObservedEntry(w) PROVE IInv'
<1>1. mem[w] \in Memory /\ ReaderOK(w) /\ "truth-entry" \in Stage /\ "truth-entry" \notin BehindFence
  BY DEF IInv, TypeOK, Stage, BehindFence
<1>2. Append("provider.postcondition.observed") /\ Goto(w, "truth-entry", mem[w])
  BY DEF ObservedEntry
<1>3. pc'[w] = "truth-entry" /\ mem'[w] = mem[w] /\ (WriterOK(w)' /\ ReaderOK(w)' => IInv')
  BY <1>1, <1>2, Entry, EntryKinds, EffectKindFacts DEF ObservedEntry
<1>4. ReaderOK(w)'
  BY <1>1, <1>3 DEF ReaderOK, ObservedEntry
<1>5. QED
  BY <1>3, <1>4 DEF WriterOK

LEMMA TruthEntryKeeps == ASSUME IInv, NEW w \in Worker, TruthEntry(w) PROVE IInv'
<1>1. ReaderOK(w) /\ NoMemory \in Memory /\ "idle" \in Stage /\ "idle" \notin BehindFence
  BY AbsentRecordFacts, ConstantsAssumption DEF IInv, Stage, BehindFence
<1> DEFINE kind == EffectKind(mem[w].rec.status)
<1>2. Append(kind) /\ Goto(w, "idle", NoMemory) /\ UNCHANGED <<world, exec, permit, v>>
  BY DEF TruthEntry, Return
<1>3. \/ mem[w].rec.status = "uncertain"
      \/ mem[w].rec.status \in Effects /\ v.status = mem[w].rec.status
  BY <1>1 DEF ReaderOK, TruthEntry
<1>4. \A s \in Effects : EffectKind(s) = kind => v.status = s
  BY <1>3, EffectKindFacts
<1>5. kind \in EntryKind \ {"provider.precondition.mismatch", "provider.dispatch.rejected"}
  BY <1>3, EntryKinds, EffectKindFacts
<1> HIDE DEF kind
<1>6. pc'[w] = "idle" /\ (WriterOK(w)' /\ ReaderOK(w)' => IInv')
  BY <1>1, <1>2, <1>4, <1>5, Entry
<1>7. QED
  BY <1>6 DEF WriterOK, ReaderOK

-----------------------------------------------------------------------------
(* Transactions on the verification record                                  *)

LEMMA TransitionGoto ==
  ASSUME IInv, NEW w \in Worker, NEW stage \in Stage, NEW m \in Memory, Goto(w, stage, m),
         UNCHANGED <<world, exec, permit, ledger>>,
         v' \in Record, m.rec = v' \/ m = NoMemory,
         stage \in BehindFence => pc[w] \in BehindFence,
         v.status \notin Final, v'.revision = v.revision + 1, Shaped(v'),
         v.status = "write-dispatched" => pc[w] \in BehindFence,
         v.status = "verifying" => v'.status \in {"verifying", "uncertain"} \cup Effects,
         v.written => v'.written,
         v'.written => exec.dispatch = "started",
         v'.status \in {"verifying"} \cup Effects =>
           /\ applied = Expected
           /\ {"provider.dispatch.started", "provider.dispatch.accepted"} \subseteq ledger
  PROVE  /\ pc'[w] = stage /\ mem'[w] = m
         /\ WriterOK(w)' /\ ReaderOK(w)' => IInv'
<1>1. /\ TypeOK /\ exec \in Exec /\ ledger \subseteq EntryKind
      /\ permit \in [Worker -> Permit] /\ v.revision \in Nat
  BY DEF IInv, TypeOK, Record
<1>2. /\ now' = now /\ resource' = resource /\ sends' = sends /\ applied' = applied
      /\ exec' = exec /\ permit' = permit /\ ledger' = ledger
  BY DEF world
<1>3. TypeOK' /\ OthersWait(w) /\ pc'[w] = stage /\ mem'[w] = m
  BY <1>1, <1>2, Arrival
<1>4. Remembers(w)'
  <2>1. Shaped(AbsentRecord) /\ AbsentRecord.revision = 0 /\ NoMemory.rec = AbsentRecord
    BY AbsentRecordFacts, ConstantsAssumption DEF Shaped, Effects
  <2>2. CASE m.rec = v'
    BY <1>1, <1>3, <2>2 DEF Remembers, Shaped
  <2>3. CASE m = NoMemory
    BY <1>1, <1>3, <2>1, <2>3 DEF Remembers
  <2>4. QED
    BY <2>2, <2>3
<1>5. pc'[w] \in BehindFence => pc[w] \in BehindFence
  BY <1>3
<1>6. ASSUME WriterOK(w)', ReaderOK(w)' PROVE IInv'
  BY <1>2, <1>3, <1>4, <1>5, <1>6, Transition
<1>7. QED
  BY <1>3, <1>6

\* A record that a worker remembers at its current revision is the record.
LEMMA CurrentRecord ==
  ASSUME IInv, NEW w \in Worker
  PROVE  /\ mem[w] \in Memory /\ v \in Record /\ now \in Nat
         /\ Shaped(v) /\ WriterOK(w) /\ ReaderOK(w)
         /\ v.written => exec.dispatch = "started"
         /\ IsCurrent(w) => mem[w].rec = v
         /\ v.status \in {"verifying"} \cup Effects =>
              /\ applied = Expected
              /\ {"provider.dispatch.started", "provider.dispatch.accepted"} \subseteq ledger
<1>1. TypeOK /\ Remembers(w) /\ WriterOK(w) /\ ReaderOK(w) /\ StoresOK /\ EffectHasTrail
  BY DEF IInv, StoresAgree
<1>2. mem[w] \in Memory /\ v \in Record /\ now \in Nat
  BY <1>1 DEF TypeOK
<1>3. IsCurrent(w) => mem[w].rec = v
  BY <1>1 DEF Remembers, IsCurrent
<1>4. v.status \in {"verifying"} \cup Effects =>
        /\ applied = Expected
        /\ {"provider.dispatch.started", "provider.dispatch.accepted"} \subseteq ledger
  BY <1>1 DEF EffectHasTrail
<1>5. QED
  BY <1>1, <1>2, <1>3, <1>4 DEF StoresOK

LEMMA CreateKeeps == ASSUME IInv, NEW w \in Worker, Create(w) PROVE IInv'
<1>1. /\ TypeOK /\ mem[w] \in Memory /\ v \in Record /\ now \in Nat /\ Shaped(v)
      /\ NoMemory \in Memory /\ NoMemory.rec = AbsentRecord
  BY CurrentRecord, AbsentRecordFacts, ConstantsAssumption DEF IInv
<1>2. CASE CanCreate
  <2> DEFINE r == NewRecord(w)
  <2>1. v' = r /\ Goto(w, "observe-before", With(w, r)) /\ UNCHANGED <<world, exec, permit, ledger>>
    BY <1>2 DEF Create
  <2>2. r \in Record /\ r.status = "pending-precheck" /\ r.revision = 1 /\ ~ r.written
    BY <1>1, NewRecordFacts, ConstantsAssumption
  <2> HIDE DEF r
  <2>3. With(w, r) \in Memory /\ With(w, r).rec = r
    BY <1>1, <2>2, WithFacts
  <2>4. v.status = "absent" /\ v.revision = 0 /\ ~ v.written
    BY <1>1, <1>2 DEF CanCreate, Shaped
  <2>5. Shaped(r)
    BY <2>2 DEF Shaped, Effects
  <2>6. "observe-before" \in Stage /\ "observe-before" \notin BehindFence /\ v.status \notin Final
    BY <2>4 DEF Stage, BehindFence, Final, Effects
  <2>7. r.status \notin {"verifying"} \cup Effects
    BY <2>2 DEF Effects
  <2>8. pc'[w] = "observe-before" /\ (WriterOK(w)' /\ ReaderOK(w)' => IInv')
    BY <2>1, <2>2, <2>3, <2>4, <2>5, <2>6, <2>7, TransitionGoto
  <2>9. QED
    BY <2>8 DEF WriterOK, ReaderOK
<1>3. CASE ~ CanCreate
  <2>1. Goto(w, "ensure", NoMemory) /\ UNCHANGED <<world, store>>
    BY <1>3 DEF Create, store
  <2>2. "ensure" \in Stage /\ "ensure" \notin BehindFence /\ permit \in [Worker -> Permit]
    BY <1>1 DEF Stage, BehindFence, TypeOK
  <2>3. pc'[w] = "ensure" /\ (WriterOK(w)' /\ ReaderOK(w)' => IInv')
    BY <1>1, <2>1, <2>2, QuietGoto DEF world, store
  <2>4. QED
    BY <2>3 DEF WriterOK, ReaderOK
<1>4. QED
  BY <1>2, <1>3

LEMMA RecordPrecheckKeeps == ASSUME IInv, NEW w \in Worker, RecordPrecheck(w) PROVE IInv'
<1>1. TypeOK /\ mem[w] \in Memory /\ v \in Record /\ Shaped(v) /\ NoMemory \in Memory
  BY CurrentRecord, AbsentRecordFacts, ConstantsAssumption DEF IInv
<1> DEFINE seen == mem[w].seenBefore
           status == PrecheckStatus(seen)
           r == Prechecked(v, status, seen)
<1>2. seen \in Nat \cup {-1} /\ status \in VStatus
  BY <1>1, StatusFacts, StatusesAreStatuses DEF Memory
<1>3. /\ v' = r /\ v.status = "pending-precheck"
      /\ UNCHANGED <<world, exec, permit, ledger>>
      /\ IF seen = -1 THEN Goto(w, "idle", NoMemory) ELSE Goto(w, "precheck-entry", With(w, r))
  BY DEF RecordPrecheck, CanPrecheck, Return, Prechecked
<1>4. /\ r \in Record /\ r.status = status /\ r.revision = v.revision + 1
      /\ r.before = seen /\ r.written = v.written
  BY <1>1, <1>2, PrecheckedFacts
<1>5. /\ status \in {"uncertain", "ready-to-write", "precondition-mismatch"}
      /\ status = "ready-to-write" => seen = Expected
  BY StatusFacts
<1> HIDE DEF r, status
<1>6. ~ v.written /\ v.revision \in Nat
  BY <1>1, <1>3 DEF Shaped, Record
<1>7. Shaped(r)
  BY <1>4, <1>5, <1>6 DEF Shaped, Effects
<1>8. v.status \notin Final /\ r.status \notin {"verifying"} \cup Effects
  BY <1>3, <1>4, <1>5 DEF Final, Effects
<1>9. CASE seen = -1
  <2>1. Goto(w, "idle", NoMemory) /\ "idle" \in Stage /\ "idle" \notin BehindFence
    BY <1>3, <1>9 DEF Stage, BehindFence
  <2>2. pc'[w] = "idle" /\ (WriterOK(w)' /\ ReaderOK(w)' => IInv')
    BY <1>1, <1>3, <1>4, <1>6, <1>7, <1>8, <2>1, TransitionGoto
  <2>3. QED
    BY <2>2 DEF WriterOK, ReaderOK
<1>10. CASE seen # -1
  <2>1. With(w, r) \in Memory /\ With(w, r).rec = r
    BY <1>1, <1>4, WithFacts
  <2>2. /\ Goto(w, "precheck-entry", With(w, r))
        /\ "precheck-entry" \in Stage /\ "precheck-entry" \notin BehindFence
    BY <1>3, <1>10 DEF Stage, BehindFence
  <2>3. /\ pc'[w] = "precheck-entry" /\ mem'[w] = With(w, r)
        /\ WriterOK(w)' /\ ReaderOK(w)' => IInv'
    BY <1>3, <1>4, <1>6, <1>7, <1>8, <2>1, <2>2, TransitionGoto
  <2>4. status # "uncertain"
    BY <1>10, StatusFacts DEF status
  <2>5. ReaderOK(w)'
    BY <1>3, <1>4, <1>5, <1>6, <2>1, <2>3, <2>4 DEF ReaderOK
  <2>6. QED
    BY <2>3, <2>5 DEF WriterOK
<1>11. QED
  BY <1>9, <1>10

LEMMA RecoverExpiredKeeps == ASSUME IInv, NEW w \in Worker, RecoverExpired(w) PROVE IInv'
<1>1. TypeOK /\ mem[w] \in Memory /\ v \in Record /\ Shaped(v) /\ mem[w].rec = v /\ ReaderOK(w)
  BY CurrentRecord DEF IInv, RecoverExpired, CanRecover
<1> DEFINE status == StatusAfterExpiry(v)
           r == Released(v, status)
           stage == IF r.status = "ready-to-write" THEN "claim" ELSE "claim-readback"
<1>2. status \in VStatus
  BY StatusFacts, StatusesAreStatuses
<1>3. v' = r /\ UNCHANGED <<world, exec, permit, ledger>> /\ Goto(w, stage, With(w, r))
  BY DEF RecoverExpired
<1>4. v.status \in {"ready-to-write", "verifying"}
  BY <1>1 DEF ReaderOK, RecoverExpired
<1>5. /\ r \in Record /\ r.status = status /\ r.revision = v.revision + 1
      /\ r.before = v.before /\ r.written = v.written
  BY <1>1, <1>2, ReleasedFacts
<1>6. status = v.status
  BY <1>1, <1>4, StatusFacts DEF Shaped
<1>7. stage \in Stage /\ stage \notin BehindFence /\ stage \in {"claim", "claim-readback"}
  BY DEF Stage, BehindFence
<1> HIDE DEF r, status, stage
<1>8. Shaped(r)
  BY <1>1, <1>4, <1>5, <1>6 DEF Shaped, Record
<1>9. With(w, r) \in Memory /\ With(w, r).rec = r
  BY <1>1, <1>5, WithFacts
<1>10. v.status \notin Final /\ v.status # "write-dispatched"
  BY <1>4 DEF Final, Effects
<1>11. /\ v.written => exec.dispatch = "started"
       /\ r.status \in {"verifying"} \cup Effects =>
            /\ applied = Expected
            /\ {"provider.dispatch.started", "provider.dispatch.accepted"} \subseteq ledger
  BY <1>5, <1>6, CurrentRecord
<1>12. pc'[w] = stage /\ (WriterOK(w)' /\ ReaderOK(w)' => IInv')
  BY <1>3, <1>5, <1>6, <1>7, <1>8, <1>9, <1>10, <1>11, TransitionGoto
<1>13. QED
  BY <1>7, <1>12 DEF WriterOK, ReaderOK

LEMMA ClaimWriteKeeps == ASSUME IInv, NEW w \in Worker, ClaimWrite(w) PROVE IInv'
<1>1. TypeOK /\ v \in Record /\ now \in Nat /\ Shaped(v) /\ v.status = "ready-to-write"
  BY CurrentRecord DEF IInv, ClaimWrite, CanClaim
<1> DEFINE r == Leased(v, w)
<1>2. v' = r /\ UNCHANGED <<world, exec, permit, ledger>> /\ Goto(w, "fence", With(w, r))
  BY DEF ClaimWrite
<1>3. /\ r \in Record /\ r.status = v.status /\ r.revision = v.revision + 1
      /\ r.before = v.before /\ r.written = v.written
  BY <1>1, LeasedFacts, ConstantsAssumption
<1>4. "fence" \in Stage /\ "fence" \notin BehindFence
  BY DEF Stage, BehindFence
<1> HIDE DEF r
<1>5. Shaped(r) /\ ~ r.written /\ ~ v.written
  BY <1>1, <1>3 DEF Shaped, Record
<1>6. With(w, r) \in Memory /\ With(w, r).rec = r
  BY <1>1, <1>3, WithFacts
<1>7. v.status \notin Final /\ r.status \notin {"verifying"} \cup Effects
  BY <1>1, <1>3 DEF Final, Effects
<1>8. pc'[w] = "fence" /\ (WriterOK(w)' /\ ReaderOK(w)' => IInv')
  BY <1>1, <1>2, <1>3, <1>4, <1>5, <1>6, <1>7, TransitionGoto
<1>9. QED
  BY <1>8 DEF WriterOK, ReaderOK

LEMMA ClaimReadbackKeeps == ASSUME IInv, NEW w \in Worker, ClaimReadback(w) PROVE IInv'
<1>1. TypeOK /\ v \in Record /\ now \in Nat /\ Shaped(v) /\ v.status = "verifying"
  BY CurrentRecord DEF IInv, ClaimReadback, CanClaimReadback
<1> DEFINE r == Leased(v, w)
<1>2. v' = r /\ UNCHANGED <<world, exec, permit, ledger>> /\ Goto(w, "observe-after", With(w, r))
  BY DEF ClaimReadback
<1>3. /\ r \in Record /\ r.status = v.status /\ r.revision = v.revision + 1
      /\ r.before = v.before /\ r.written = v.written
  BY <1>1, LeasedFacts, ConstantsAssumption
<1>4. "observe-after" \in Stage /\ "observe-after" \notin BehindFence
  BY DEF Stage, BehindFence
<1> HIDE DEF r
<1>5. Shaped(r)
  BY <1>1, <1>3 DEF Shaped, Record
<1>6. With(w, r) \in Memory /\ With(w, r).rec = r
  BY <1>1, <1>3, WithFacts
<1>7. v.status \notin Final
  BY <1>1 DEF Final, Effects
<1>8. pc'[w] = "observe-after" /\ (WriterOK(w)' /\ ReaderOK(w)' => IInv')
  BY <1>1, <1>2, <1>3, <1>4, <1>5, <1>6, <1>7, CurrentRecord, TransitionGoto
<1>9. QED
  BY <1>8 DEF WriterOK, ReaderOK

\* The write may go out only after the execution said so.
LEMMA MarkWriteDispatchedKeeps ==
  ASSUME IInv, NEW w \in Worker, MarkWriteDispatched(w) PROVE IInv'
<1>1. /\ TypeOK /\ v \in Record /\ Shaped(v) /\ v.status = "ready-to-write"
      /\ WriterOK(w) /\ pc[w] = "dispatch" /\ exec.dispatch = "started"
  BY CurrentRecord DEF IInv, OneBehindFence, BehindFence, MarkWriteDispatched, CanDispatch
<1> DEFINE r == Dispatched(v)
<1>2. v' = r /\ UNCHANGED <<world, exec, permit, ledger>> /\ Goto(w, "started-entry", With(w, r))
  BY DEF MarkWriteDispatched
<1>3. /\ r \in Record /\ r.status = "write-dispatched" /\ r.revision = v.revision + 1
      /\ r.before = v.before /\ r.written
  BY <1>1, DispatchedFacts
<1>4. "started-entry" \in Stage /\ pc[w] \in BehindFence
  BY <1>1 DEF Stage, BehindFence
<1> HIDE DEF r
<1>5. Shaped(r) /\ r.before = Expected
  BY <1>1, <1>3 DEF Shaped, Record, Effects
<1>6. With(w, r) \in Memory /\ With(w, r).rec = r
  BY <1>1, <1>3, WithFacts
<1>7. v.status \notin Final /\ r.status \notin {"verifying"} \cup Effects
  BY <1>1, <1>3 DEF Final, Effects
<1>8. /\ pc'[w] = "started-entry" /\ mem'[w] = With(w, r)
      /\ WriterOK(w)' /\ ReaderOK(w)' => IInv'
  BY <1>1, <1>2, <1>3, <1>4, <1>5, <1>6, <1>7, TransitionGoto
<1>9. WriterOK(w)'
  BY <1>1, <1>2, <1>3, <1>5, <1>6, <1>8 DEF WriterOK, world
<1>10. QED
  BY <1>8, <1>9 DEF ReaderOK

LEMMA RecordWriteOutcomeKeeps ==
  ASSUME IInv, NEW w \in Worker, RecordWriteOutcome(w) PROVE IInv'
<1>1. /\ TypeOK /\ v \in Record /\ Shaped(v) /\ v.status = "write-dispatched"
      /\ WriterOK(w) /\ pc[w] = "outcome" /\ exec.dispatch = "started"
  BY CurrentRecord DEF IInv, OneBehindFence, BehindFence, RecordWriteOutcome, CanRecord
<1> DEFINE status == StatusOfAnswer(mem[w].answer)
           r == Released(v, status)
<1>2. v' = r /\ UNCHANGED <<world, exec, permit, ledger>> /\ Goto(w, "exec-outcome", With(w, r))
  BY DEF RecordWriteOutcome
<1>3. status \in {"precondition-mismatch", "manual", "uncertain"} /\ status \in VStatus
  BY StatusFacts, StatusesAreStatuses
<1>4. /\ r \in Record /\ r.status = status /\ r.revision = v.revision + 1 /\ r.written = v.written
  BY <1>1, <1>3, ReleasedFacts
<1>5. "exec-outcome" \in Stage /\ pc[w] \in BehindFence
  BY <1>1 DEF Stage, BehindFence
<1> HIDE DEF r
<1>6. Shaped(r) /\ r.written
  BY <1>1, <1>3, <1>4 DEF Shaped, Record, Effects
<1>7. With(w, r) \in Memory /\ With(w, r).rec = r /\ With(w, r).answer = mem[w].answer
  BY <1>1, <1>4, WithFacts
<1>8. v.status \notin Final /\ r.status \notin {"verifying"} \cup Effects
  BY <1>1, <1>3, <1>4 DEF Final, Effects
<1>9. /\ pc'[w] = "exec-outcome" /\ mem'[w] = With(w, r)
      /\ WriterOK(w)' /\ ReaderOK(w)' => IInv'
  BY <1>1, <1>2, <1>4, <1>5, <1>6, <1>7, <1>8, TransitionGoto
<1>10. WriterOK(w)'
  BY <1>1, <1>2, <1>4, <1>6, <1>7, <1>9 DEF WriterOK, world
<1>11. QED
  BY <1>9, <1>10 DEF ReaderOK

LEMMA BeginPostconditionKeeps ==
  ASSUME IInv, NEW w \in Worker, BeginPostcondition(w) PROVE IInv'
<1>1. /\ TypeOK /\ v \in Record /\ Shaped(v) /\ v.status = "write-dispatched"
      /\ WriterOK(w) /\ pc[w] = "begin" /\ exec.dispatch = "started"
  BY CurrentRecord DEF IInv, OneBehindFence, BehindFence, BeginPostcondition, CanRecord
<1> DEFINE r == AdvancedTo(v, "verifying")
<1>2. v' = r /\ UNCHANGED <<world, exec, permit, ledger>> /\ Goto(w, "exec-accepted", With(w, r))
  BY DEF BeginPostcondition, AdvancedTo
<1>3. "verifying" \in VStatus
  BY StatusesAreStatuses
<1>4. /\ r \in Record /\ r.status = "verifying" /\ r.revision = v.revision + 1
      /\ r.before = v.before /\ r.written = v.written
  BY <1>1, <1>3, AdvancedFacts
<1>5. "exec-accepted" \in Stage /\ pc[w] \in BehindFence
  BY <1>1 DEF Stage, BehindFence
<1> HIDE DEF r
<1>6. Shaped(r) /\ r.written
  BY <1>1, <1>4 DEF Shaped, Record, Effects
<1>7. With(w, r) \in Memory /\ With(w, r).rec = r /\ With(w, r).answer = mem[w].answer
  BY <1>1, <1>4, WithFacts
<1>8. v.status \notin Final
  BY <1>1 DEF Final, Effects
<1>9. /\ mem[w].answer = "accepted" /\ applied = Expected
      /\ {"provider.dispatch.started", "provider.dispatch.accepted"} \subseteq ledger
  BY <1>1 DEF WriterOK
<1>10. /\ pc'[w] = "exec-accepted" /\ mem'[w] = With(w, r)
       /\ WriterOK(w)' /\ ReaderOK(w)' => IInv'
  BY <1>1, <1>2, <1>4, <1>5, <1>6, <1>7, <1>8, <1>9, TransitionGoto
<1>11. WriterOK(w)'
  BY <1>2, <1>4, <1>7, <1>9, <1>10 DEF WriterOK
<1>12. QED
  BY <1>10, <1>11 DEF ReaderOK

LEMMA CompletePostconditionKeeps ==
  ASSUME IInv, NEW w \in Worker, CompletePostcondition(w) PROVE IInv'
<1>1. TypeOK /\ v \in Record /\ Shaped(v) /\ v.status = "verifying" /\ v.written
  BY CurrentRecord DEF IInv, Shaped, CompletePostcondition, CanComplete
<1> DEFINE seen == mem[w].seenAfter
           status == IF seen = "unavailable" THEN "uncertain" ELSE StatusOfContent(seen)
           stage == IF seen = "unavailable" THEN "uncertain-entry" ELSE "observed-entry"
           r == Released(v, status)
<1>2. v' = r /\ UNCHANGED <<world, exec, permit, ledger>> /\ Goto(w, stage, With(w, r))
  BY DEF CompletePostcondition
<1>3. /\ status \in VStatus
      /\ \/ stage = "uncertain-entry" /\ status = "uncertain"
         \/ stage = "observed-entry" /\ status \in Effects
  BY StatusFacts, StatusesAreStatuses
<1>4. /\ r \in Record /\ r.status = status /\ r.revision = v.revision + 1
      /\ r.before = v.before /\ r.written = v.written
  BY <1>1, <1>3, ReleasedFacts
<1> HIDE DEF r, status, stage
<1>5. stage \in Stage /\ stage \notin BehindFence
  BY <1>3 DEF Stage, BehindFence
<1>6. Shaped(r)
  BY <1>1, <1>3, <1>4 DEF Shaped, Record, Effects
<1>7. With(w, r) \in Memory /\ With(w, r).rec = r
  BY <1>1, <1>4, WithFacts
<1>8. v.status \notin Final
  BY <1>1 DEF Final, Effects
<1>9. /\ pc'[w] = stage /\ mem'[w] = With(w, r)
      /\ WriterOK(w)' /\ ReaderOK(w)' => IInv'
  BY <1>1, <1>2, <1>3, <1>4, <1>5, <1>6, <1>7, <1>8, CurrentRecord, TransitionGoto
<1>10. ReaderOK(w)'
  BY <1>2, <1>3, <1>4, <1>7, <1>9 DEF ReaderOK
<1>11. WriterOK(w)'
  BY <1>3, <1>9 DEF WriterOK
<1>12. QED
  BY <1>9, <1>10, <1>11

-----------------------------------------------------------------------------
(* The execution row                                                        *)

\* Recovery and outcome drop the lease of the execution.
EndedExecution(e, status) ==
  [e EXCEPT !.status = status, !.revision = @ + 1, !.holder = NoWorker, !.expires = 0]

LEMMA EndedExecutionFacts ==
  ASSUME NEW e \in Exec, NEW status \in {"ready", "executing", "verifying", "manual", "uncertain"}
  PROVE  /\ EndedExecution(e, status) \in Exec
         /\ EndedExecution(e, status).status = status
         /\ EndedExecution(e, status).dispatch = e.dispatch
<1> DEFINE full ==
      [status |-> status, revision |-> e.revision + 1, epoch |-> e.epoch,
       holder |-> NoWorker, expires |-> 0, dispatch |-> e.dispatch]
<1>1. ASSUME NEW x, x = EndedExecution(e, status)
      PROVE  x = full
  BY <1>1, Zenon DEF EndedExecution, Exec
<1>2. EndedExecution(e, status) = full
  BY <1>1
<1>3. QED
  BY <1>2 DEF Exec

LEMMA StartedExecution ==
  ASSUME NEW e \in Exec, NEW x, x = [e EXCEPT !.dispatch = "started", !.revision = @ + 1]
  PROVE  x \in Exec /\ x.status = e.status /\ x.dispatch = "started" /\ x.revision = e.revision + 1
<1>1. x = [status |-> e.status, revision |-> e.revision + 1, epoch |-> e.epoch,
           holder |-> e.holder, expires |-> e.expires, dispatch |-> "started"]
  BY Zenon DEF Exec
<1>2. QED
  BY <1>1 DEF Exec

\* A transaction on the execution row only.
LEMMA ExecutionMoved ==
  ASSUME IInv, TypeOK', v' = v, ledger' = ledger, sends' = sends, applied' = applied,
         exec.dispatch = "started" => exec'.dispatch = "started",
         exec'.status = "ready" => exec'.dispatch = "not-started",
         ExecutionFollowsVerification', OneBehindFence',
         \A w \in Worker : Remembers(w)' /\ WriterOK(w)' /\ ReaderOK(w)'
  PROVE  IInv'
<1>1. AtMostOneSend' /\ NoForeignOverwrite'
  BY DEF IInv, AtMostOneSend, NoForeignOverwrite
<1>2. SendIsOnRecord' /\ EffectHasTrail' /\ LedgerTellsTheRecord'
  BY DEF IInv, StoresAgree, SendIsOnRecord, EffectHasTrail, LedgerTellsTheRecord
<1>3. StoresOK'
  BY DEF IInv, StoresOK, Shaped
<1>4. QED
  BY <1>1, <1>2, <1>3 DEF IInv, StoresAgree

LEMMA WorkersWait ==
  ASSUME IInv, UNCHANGED <<pc, mem, v, ledger, sends, applied>>
  PROVE  \A w \in Worker : Remembers(w)' /\ WriterOK(w)' /\ ReaderOK(w)'
  BY OthersUndisturbed

LEMMA TakePermitKeeps == ASSUME IInv, NEW w \in Worker, TakePermit(w) PROVE IInv'
<1>1. TypeOK /\ exec \in Exec /\ now \in Nat /\ now + ExecLeaseMs \in Nat
  BY ConstantsAssumption DEF IInv, TypeOK
<1>2. exec.status = "ready" /\ UNCHANGED <<world, v, ledger, pc, mem>>
  BY DEF TakePermit
<1>3. exec' = [status |-> "executing", revision |-> exec.revision + 1, epoch |-> exec.epoch + 1,
               holder |-> w, expires |-> now + ExecLeaseMs, dispatch |-> "not-started"]
  BY DEF TakePermit
<1>4. exec' \in Exec /\ exec'.status = "executing"
  BY <1>1, <1>3 DEF Exec
<1>5. permit' \in [Worker -> Permit]
  <2>1. permit' = [permit EXCEPT ![w] = [epoch |-> exec'.epoch, revision |-> exec'.revision]]
    BY DEF TakePermit
  <2>2. [epoch |-> exec'.epoch, revision |-> exec'.revision] \in Permit
    BY <1>4 DEF Exec, Permit
  <2>3. QED
    BY <1>1, <2>1, <2>2 DEF TypeOK
<1>6. TypeOK'
  BY <1>1, <1>2, <1>4, <1>5 DEF TypeOK, world
<1>7. exec.dispatch = "not-started"
  BY <1>2 DEF IInv, StoresOK
<1>8. OneBehindFence'
  BY <1>2, <1>7 DEF IInv, OneBehindFence
<1>9. ExecutionFollowsVerification'
  BY <1>4 DEF ExecutionFollowsVerification
<1>10. \A x \in Worker : Remembers(x)' /\ WriterOK(x)' /\ ReaderOK(x)'
  BY <1>2, WorkersWait DEF world
<1>11. QED
  BY <1>2, <1>4, <1>6, <1>7, <1>8, <1>9, <1>10, ExecutionMoved DEF world

LEMMA RecoverExecutionKeeps == ASSUME IInv, RecoverExecution PROVE IInv'
<1>1. TypeOK /\ exec \in Exec /\ UNCHANGED <<world, permit, v, ledger, pc, mem>>
  BY DEF IInv, TypeOK, RecoverExecution
<1> DEFINE status == IF exec.dispatch = "started" THEN "uncertain" ELSE "ready"
<1>2. exec' = EndedExecution(exec, status)
  BY DEF RecoverExecution, EndedExecution
<1>3. /\ status \in {"ready", "uncertain"}
      /\ status = "ready" => exec.dispatch = "not-started"
  BY <1>1 DEF Exec
<1> HIDE DEF status
<1>4. exec' \in Exec /\ exec'.status = status /\ exec'.dispatch = exec.dispatch
  BY <1>1, <1>2, <1>3, EndedExecutionFacts
<1>5. TypeOK'
  BY <1>1, <1>4 DEF TypeOK, world
<1>6. OneBehindFence'
  BY <1>1, <1>4 DEF IInv, OneBehindFence
<1>7. ExecutionFollowsVerification'
  <2>1. exec.dispatch = "not-started" => ~ v.written /\ sends = 0
    BY <1>1 DEF IInv, StoresAgree, SendIsOnRecord, StoresOK, TypeOK
  <2>2. QED
    BY <1>1, <1>3, <1>4, <2>1 DEF ExecutionFollowsVerification, world
<1>8. \A x \in Worker : Remembers(x)' /\ WriterOK(x)' /\ ReaderOK(x)'
  BY <1>1, WorkersWait DEF world
<1>9. QED
  BY <1>1, <1>3, <1>4, <1>5, <1>6, <1>7, <1>8, ExecutionMoved DEF world

\* The fence opens once: what it looks for, it removes.
LEMMA MarkDispatchStartedKeeps ==
  ASSUME IInv, NEW w \in Worker, MarkDispatchStarted(w) PROVE IInv'
<1>1. /\ TypeOK /\ exec \in Exec /\ mem[w] \in Memory /\ permit \in [Worker -> Permit]
      /\ v \in Record /\ ledger \subseteq EntryKind
      /\ UNCHANGED <<world, permit, v, ledger>>
      /\ exec.status = "executing" /\ exec.dispatch = "not-started"
  BY DEF IInv, TypeOK, MarkDispatchStarted, CanStart
<1> DEFINE m == [mem[w] EXCEPT !.execRevision = exec.revision + 1]
<1>2. exec' = [exec EXCEPT !.dispatch = "started", !.revision = @ + 1] /\ Goto(w, "dispatch", m)
  BY DEF MarkDispatchStarted
<1>3. exec' \in Exec /\ exec'.status = "executing" /\ exec'.dispatch = "started"
  BY <1>1, <1>2, StartedExecution
<1>4. m \in Memory /\ m.rec = mem[w].rec
  BY <1>1 DEF Memory, Exec
<1>5. "dispatch" \in Stage
  BY DEF Stage
<1> HIDE DEF m
<1>6. TypeOK' /\ OthersWait(w) /\ pc'[w] = "dispatch" /\ mem'[w] = m
  BY <1>1, <1>2, <1>3, <1>4, <1>5, Arrival DEF world
<1>7. OneBehindFence'
  <2>1. \A x \in Worker : pc[x] \notin BehindFence
    BY <1>1 DEF IInv, OneBehindFence
  <2>2. \A x \in Worker : pc'[x] \in BehindFence => x = w
    BY <1>6, <2>1 DEF OthersWait
  <2>3. QED
    BY <1>3, <2>2 DEF OneBehindFence
<1>8. ExecutionFollowsVerification'
  BY <1>3 DEF ExecutionFollowsVerification
<1>9. \A x \in Worker : x # w => Remembers(x)' /\ WriterOK(x)' /\ ReaderOK(x)'
  BY <1>1, <1>6, OthersUndisturbed DEF OthersWait, world
<1>10. Remembers(w)'
  <2>1. Remembers(w)
    BY DEF IInv
  <2>2. QED
    BY <1>1, <1>4, <1>6, <2>1 DEF Remembers
<1>11. WriterOK(w)'
  <2>1. sends = 0
    BY <1>1 DEF IInv, StoresAgree, SendIsOnRecord, TypeOK
  <2>2. QED
    BY <1>1, <1>6, <2>1 DEF WriterOK, world
<1>12. ReaderOK(w)'
  BY <1>6 DEF ReaderOK
<1>13. QED
  BY <1>1, <1>3, <1>6, <1>7, <1>8, <1>9, <1>10, <1>11, <1>12, ExecutionMoved DEF world

\* The execution is told what the record already says.
LEMMA OutcomeRecorded ==
  ASSUME IInv, NEW w \in Worker, NEW stage \in Stage, Goto(w, stage, mem[w]),
         RecordExecution(w), exec.dispatch = "started", UNCHANGED <<world, permit, v, ledger>>,
         pc[w] \in {"exec-outcome", "exec-accepted"},
         stage \in BehindFence => pc[w] \in BehindFence
  PROVE  /\ pc'[w] = stage /\ mem'[w] = mem[w]
         /\ WriterOK(w)' /\ ReaderOK(w)' => IInv'
<1>1. /\ TypeOK /\ exec \in Exec /\ mem[w] \in Memory /\ permit \in [Worker -> Permit]
      /\ v \in Record /\ ledger \subseteq EntryKind
  BY DEF IInv, TypeOK
<1> DEFINE status == ExecStatusOf(mem[w].answer)
<1>2. exec' = EndedExecution(exec, status)
  BY DEF RecordExecution, EndedExecution
<1>3. status \in {"verifying", "uncertain", "manual"}
  BY DEF ExecStatusOf
<1>4. /\ status = "verifying" => v.status \in {"verifying", "uncertain"} \cup Effects
      /\ status = "manual" => v.status \in {"manual", "precondition-mismatch"} /\ v.written
  <2>1. WriterOK(w)
    BY DEF IInv
  <2>2. QED
    BY <2>1 DEF WriterOK, ExecStatusOf, StatusOfAnswer
<1> HIDE DEF status
<1>5. exec' \in Exec /\ exec'.status = status /\ exec'.dispatch = exec.dispatch
  BY <1>1, <1>2, <1>3, EndedExecutionFacts
<1>6. TypeOK' /\ OthersWait(w) /\ pc'[w] = stage /\ mem'[w] = mem[w]
  BY <1>1, <1>5, Arrival DEF world
<1>7. OneBehindFence'
  BY <1>5, <1>6, FenceKept
<1>8. ExecutionFollowsVerification'
  BY <1>3, <1>4, <1>5 DEF ExecutionFollowsVerification
<1>9. \A x \in Worker : x # w => Remembers(x)' /\ WriterOK(x)' /\ ReaderOK(x)'
  BY <1>6, OthersUndisturbed DEF OthersWait, world
<1>10. Remembers(w)'
  <2>1. Remembers(w)
    BY DEF IInv
  <2>2. QED
    BY <1>6, <2>1 DEF Remembers
<1>11. ASSUME WriterOK(w)', ReaderOK(w)' PROVE IInv'
  BY <1>3, <1>5, <1>6, <1>7, <1>8, <1>9, <1>10, <1>11, ExecutionMoved DEF world
<1>12. QED
  BY <1>6, <1>11

LEMMA RecordExecutionOutcomeKeeps ==
  ASSUME IInv, NEW w \in Worker, RecordExecutionOutcome(w) PROVE IInv'
<1>1. WriterOK(w) /\ pc[w] = "exec-outcome" /\ exec.dispatch = "started" /\ "late-entry" \in Stage
  BY DEF IInv, RecordExecutionOutcome, CanRecordExecution, Stage
<1>2. pc'[w] = "late-entry" /\ mem'[w] = mem[w] /\ (WriterOK(w)' /\ ReaderOK(w)' => IInv')
  BY <1>1, OutcomeRecorded DEF RecordExecutionOutcome, BehindFence
<1>3. WriterOK(w)'
  BY <1>1, <1>2 DEF WriterOK, RecordExecutionOutcome, world
<1>4. QED
  BY <1>2, <1>3 DEF ReaderOK

LEMMA RecordExecutionAcceptedKeeps ==
  ASSUME IInv, NEW w \in Worker, RecordExecutionAccepted(w) PROVE IInv'
<1>1. pc[w] = "exec-accepted" /\ exec.dispatch = "started" /\ "observe-after" \in Stage
  BY DEF RecordExecutionAccepted, CanRecordExecution, Stage
<1>2. pc'[w] = "observe-after" /\ (WriterOK(w)' /\ ReaderOK(w)' => IInv')
  BY <1>1, OutcomeRecorded DEF RecordExecutionAccepted, BehindFence
<1>3. QED
  BY <1>2 DEF WriterOK, ReaderOK

-----------------------------------------------------------------------------
(* The request itself                                                       *)

\* The one request, applied or not.
LEMMA RequestSent ==
  ASSUME IInv, NEW w \in Worker, pc[w] = "write", NEW a \in Answer,
         Goto(w, AnswerStage(a), [mem[w] EXCEPT !.answer = a]),
         sends' = sends + 1, UNCHANGED <<now, store>>,
         resource' \in [version : Nat, content : Content],
         \/ applied' = Expected /\ a \in {"accepted", "uncertain"}
         \/ applied' = applied /\ a # "accepted"
  PROVE  IInv'
<1>1. /\ TypeOK /\ mem[w] \in Memory /\ permit \in [Worker -> Permit] /\ sends \in Nat
      /\ WriterOK(w) /\ v \in Record
  BY DEF IInv, TypeOK
<1>2. /\ sends = 0 /\ v.status = "write-dispatched" /\ "provider.dispatch.started" \in ledger
      /\ exec.dispatch = "started" /\ applied = -1
  BY <1>1 DEF WriterOK, IInv, OneBehindFence, BehindFence, StoresOK
<1>3. v.written /\ v' = v /\ exec' = exec /\ ledger' = ledger /\ permit' = permit /\ now' = now
  BY <1>2 DEF IInv, StoresOK, Shaped, store
<1> DEFINE m == [mem[w] EXCEPT !.answer = a]
           stage == AnswerStage(a)
<1>4. m \in Memory /\ m.rec = mem[w].rec /\ m.answer = a
  BY <1>1 DEF Memory
<1>5. /\ stage \in Stage /\ stage \in {"accepted-entry", "outcome"}
      /\ stage = "accepted-entry" <=> a = "accepted"
  BY DEF AnswerStage, Stage
<1> HIDE DEF m, stage
<1>6. /\ pc' \in [Worker -> Stage] /\ mem' \in [Worker -> Memory] /\ OthersWait(w)
      /\ pc'[w] = stage /\ mem'[w] = m
  BY <1>1, <1>4, <1>5, GotoFacts DEF m, stage, OthersWait
<1>7. TypeOK'
  BY <1>1, <1>3, <1>6 DEF TypeOK, Expected
<1>8. OneBehindFence'
  BY <1>3, <1>5, <1>6, FenceKept DEF BehindFence
<1>9. \A x \in Worker : x # w => Remembers(x)' /\ WriterOK(x)' /\ ReaderOK(x)'
  <2>1. ASSUME NEW x \in Worker, x # w
        PROVE  Remembers(x)' /\ WriterOK(x)' /\ ReaderOK(x)'
    <3>1. pc'[x] = pc[x] /\ mem'[x] = mem[x] /\ Remembers(x) /\ WriterOK(x) /\ ReaderOK(x)
      BY <1>6, <2>1 DEF OthersWait, IInv
    <3>2. pc[x] \notin BehindFence
      BY <2>1 DEF IInv, OneBehindFence, BehindFence
    <3>3. Remembers(x)' /\ ReaderOK(x)'
      BY <1>3, <3>1 DEF Remembers, ReaderOK
    <3>4. WriterOK(x)'
      BY <3>1, <3>2 DEF WriterOK, BehindFence
    <3>5. QED
      BY <3>3, <3>4
  <2>2. QED
    BY <2>1
<1>10. Remembers(w)'
  <2>1. Remembers(w)
    BY DEF IInv
  <2>2. QED
    BY <1>3, <1>4, <1>6, <2>1 DEF Remembers
<1>11. WriterOK(w)'
  BY <1>2, <1>3, <1>4, <1>5, <1>6 DEF WriterOK, Answer
<1>12. ReaderOK(w)'
  BY <1>5, <1>6 DEF ReaderOK
<1>13. AtMostOneSend' /\ NoForeignOverwrite'
  BY <1>2 DEF AtMostOneSend, NoForeignOverwrite
<1>14. StoresAgree'
  <2>1. SendIsOnRecord'
    BY <1>2, <1>3 DEF SendIsOnRecord
  <2>2. EffectHasTrail'
    BY <1>2, <1>3 DEF EffectHasTrail, Effects
  <2>3. ExecutionFollowsVerification'
    BY <1>2, <1>3 DEF IInv, StoresAgree, StoresOK, ExecutionFollowsVerification
  <2>4. LedgerTellsTheRecord'
    BY <1>2, <1>3 DEF IInv, StoresAgree, LedgerTellsTheRecord, Effects
  <2>5. QED
    BY <2>1, <2>2, <2>3, <2>4 DEF StoresAgree
<1>15. StoresOK'
  BY <1>1, <1>2, <1>3 DEF IInv, StoresOK, Shaped
<1>16. QED
  BY <1>7, <1>8, <1>9, <1>10, <1>11, <1>12, <1>13, <1>14, <1>15 DEF IInv

LEMMA WriteAppliedKeeps == ASSUME IInv, NEW w \in Worker, WriteApplied(w) PROVE IInv'
<1>1. TypeOK /\ WriterOK(w) /\ pc[w] = "write" /\ sends' = sends + 1 /\ UNCHANGED <<now, store>>
  BY DEF IInv, WriteApplied
<1>2. resource.version = Expected /\ applied' = Expected
  BY <1>1 DEF WriterOK, WriteApplied, Token
<1>3. resource' \in [version : Nat, content : Content]
  BY <1>1 DEF WriteApplied, TypeOK
<1>4. PICK a \in {"accepted", "uncertain"} :
        Goto(w, AnswerStage(a), [mem[w] EXCEPT !.answer = a])
  BY DEF WriteApplied
<1>5. QED
  BY <1>1, <1>2, <1>3, <1>4, RequestSent DEF Answer

LEMMA WriteRefusedKeeps == ASSUME IInv, NEW w \in Worker, WriteRefused(w) PROVE IInv'
<1>1. /\ TypeOK /\ pc[w] = "write" /\ sends' = sends + 1 /\ UNCHANGED <<now, store>>
      /\ applied' = applied /\ resource' = resource
  BY DEF IInv, WriteRefused
<1>2. PICK a \in {"rejected", "uncertain", "conflict"} :
        Goto(w, AnswerStage(a), [mem[w] EXCEPT !.answer = a])
  BY DEF WriteRefused
<1>3. QED
  BY <1>1, <1>2, RequestSent DEF Answer, TypeOK

-----------------------------------------------------------------------------
(* The world                                                                *)

LEMMA WorldKeeps ==
  ASSUME IInv, UNCHANGED <<sends, applied, store, pc, mem>>,
         now' \in Nat, resource' \in [version : Nat, content : Content]
  PROVE  IInv'
<1>1. TypeOK'
  BY DEF IInv, TypeOK, store
<1>2. \A w \in Worker : Remembers(w)' /\ WriterOK(w)' /\ ReaderOK(w)'
  BY WorkersWait DEF store
<1>3. OneBehindFence'
  BY DEF IInv, OneBehindFence, store
<1>4. AtMostOneSend' /\ NoForeignOverwrite'
  BY DEF IInv, AtMostOneSend, NoForeignOverwrite
<1>5. StoresAgree'
  BY DEF IInv, store, StoresAgree, SendIsOnRecord, EffectHasTrail, ExecutionFollowsVerification,
         LedgerTellsTheRecord
<1>6. StoresOK'
  BY DEF IInv, StoresOK, Shaped, store
<1>7. QED
  BY <1>1, <1>2, <1>3, <1>4, <1>5, <1>6 DEF IInv

-----------------------------------------------------------------------------
(* The theorems                                                             *)

LEMMA InitIInv == Init => IInv
<1> SUFFICES ASSUME Init PROVE IInv
  OBVIOUS
<1>1. AbsentRecord \in Record /\ NoMemory \in Memory /\ NoMemory.rec = AbsentRecord
  BY AbsentRecordFacts, ConstantsAssumption
<1>2. /\ AbsentRecord.status = "absent" /\ AbsentRecord.revision = 0 /\ ~ AbsentRecord.written
      /\ Shaped(AbsentRecord)
  BY AbsentRecordFacts, ConstantsAssumption DEF Shaped, Effects
<1>3. TypeOK
  BY <1>1 DEF Init, TypeOK, Exec, NoPermit, Permit, Content, Expected, Stage
<1>4. AtMostOneSend /\ NoForeignOverwrite
  BY DEF Init, AtMostOneSend, NoForeignOverwrite
<1>5. StoresAgree
  BY <1>2 DEF Init, StoresAgree, SendIsOnRecord, EffectHasTrail, ExecutionFollowsVerification,
              LedgerTellsTheRecord, Effects
<1>6. StoresOK
  BY <1>2 DEF Init, StoresOK
<1>7. OneBehindFence
  BY DEF Init, OneBehindFence, BehindFence
<1>8. \A w \in Worker : Remembers(w) /\ WriterOK(w) /\ ReaderOK(w)
  BY <1>1, <1>2 DEF Init, Remembers, WriterOK, ReaderOK
<1>9. QED
  BY <1>3, <1>4, <1>5, <1>6, <1>7, <1>8 DEF IInv

LEMMA NextIInv == IInv /\ [Next]_vars => IInv'
<1> SUFFICES ASSUME IInv, [Next]_vars PROVE IInv'
  OBVIOUS
<1>1. CASE UNCHANGED vars
  <2>1. UNCHANGED <<sends, applied, store, pc, mem>> /\ now' = now /\ resource' = resource
    BY <1>1 DEF vars, store
  <2>2. QED
    BY <2>1, WorldKeeps DEF IInv, TypeOK
<1>2. CASE Edit
  <2>1. resource' \in [version : Nat, content : Content]
    BY <1>2 DEF Edit, IInv, TypeOK
  <2>2. QED
    BY <1>2, <2>1, WorldKeeps DEF Edit, IInv, TypeOK
<1>3. CASE Tick
  <2>1. now' \in Nat
    BY <1>3 DEF Tick, IInv, TypeOK
  <2>2. QED
    BY <1>3, <2>1, WorldKeeps DEF Tick, IInv, TypeOK
<1>4. CASE RecoverExecution
  BY <1>4, RecoverExecutionKeeps
<1>5. ASSUME NEW w \in Worker, TakePermit(w) \/ RunAction(w) \/ RunReadback(w) \/ Abandon(w)
      PROVE  IInv'
  BY <1>5, TakePermitKeeps, RunActionKeeps, RunReadbackKeeps, AbandonKeeps
<1>6. ASSUME NEW w \in Worker, Call(w) PROVE IInv'
  <2>1. CASE Ensure(w) \/ Create(w) \/ ObserveBefore(w) \/ RecordPrecheck(w) \/ PrecheckEntry(w)
    BY <2>1, EnsureKeeps, CreateKeeps, ObserveBeforeKeeps, RecordPrecheckKeeps, PrecheckEntryKeeps
  <2>2. CASE \/ RecoverExpired(w) \/ ClaimWrite(w) \/ MarkDispatchStarted(w)
             \/ MarkWriteDispatched(w) \/ StartedEntry(w)
    BY <2>2, RecoverExpiredKeeps, ClaimWriteKeeps, MarkDispatchStartedKeeps,
       MarkWriteDispatchedKeeps, StartedEntryKeeps
  <2>3. CASE WriteNotSent(w) \/ WriteApplied(w) \/ WriteRefused(w)
    BY <2>3, WriteNotSentKeeps, WriteAppliedKeeps, WriteRefusedKeeps
  <2>4. CASE RecordWriteOutcome(w) \/ RecordExecutionOutcome(w) \/ LateEntry(w)
    BY <2>4, RecordWriteOutcomeKeeps, RecordExecutionOutcomeKeeps, LateEntryKeeps
  <2>5. CASE AcceptedEntry(w) \/ BeginPostcondition(w) \/ RecordExecutionAccepted(w)
    BY <2>5, AcceptedEntryKeeps, BeginPostconditionKeeps, RecordExecutionAcceptedKeeps
  <2>6. CASE ReadForReadback(w) \/ ClaimReadback(w) \/ ObserveAfter(w) \/ CompletePostcondition(w)
    BY <2>6, ReadForReadbackKeeps, ClaimReadbackKeeps, ObserveAfterKeeps,
       CompletePostconditionKeeps
  <2>7. CASE ObservedEntry(w) \/ TruthEntry(w) \/ Refused(w)
    BY <2>7, ObservedEntryKeeps, TruthEntryKeeps, RefusedKeeps
  <2>8. QED
    BY <1>6, <2>1, <2>2, <2>3, <2>4, <2>5, <2>6, <2>7 DEF Call
<1>7. QED
  BY <1>1, <1>2, <1>3, <1>4, <1>5, <1>6 DEF Next, Step

\* The inductive invariant: what each worker remembers of the row and of what it read of
\* the provider is still behind the fence of the lease it holds.
THEOREM Invariance == Spec => []IInv
<1>1. Init => IInv
  BY InitIInv
<1>2. IInv /\ [Next]_vars => IInv'
  BY NextIInv
<1>3. QED
  BY <1>1, <1>2, PTL DEF Spec

\* Rows, memories and histories keep the shape the tables and types give them,
\* for any number of workers and any clocks.
THEOREM TypeCorrect == Spec => []TypeOK
<1>1. IInv => TypeOK
  BY DEF IInv
<1>2. QED
  BY <1>1, Invariance, PTL

\* However many workers take the execution over, one write request at most
\* reaches the provider: the fence of the execution row opens once, and only
\* the worker it let through ever comes to the write.
THEOREM OneSend == Spec => []AtMostOneSend
<1>1. IInv => AtMostOneSend
  BY DEF IInv
<1>2. QED
  BY <1>1, Invariance, PTL

\* An edit made after the plan was frozen is never overwritten: the request is
\* conditional on the version of the plan, whichever worker sends it.
THEOREM OnlyExpectedIsReplaced == Spec => []NoForeignOverwrite
<1>1. IInv => NoForeignOverwrite
  BY DEF IInv
<1>2. QED
  BY <1>1, Invariance, PTL

\* The verification record, the execution row and the ledger, written in
\* separate transactions by workers that may die between any two, never
\* contradict each other.
THEOREM StoresNeverDisagree == Spec => []StoresAgree
<1>1. IInv => StoresAgree
  BY DEF IInv
<1>2. QED
  BY <1>1, Invariance, PTL

\* A step keeps final statuses, and the mark that a write may be out.
LEMMA NextRecordIsFinal ==
  ASSUME IInv, [Next]_vars
  PROVE  /\ v.status \in Final => v'.status = v.status
         /\ v.written => v'.written
<1>1. v \in Record /\ Shaped(v)
  BY DEF IInv, TypeOK, StoresOK
<1>2. ASSUME NEW w \in Worker, RecordPrecheck(w)
      PROVE  v.status \notin Final /\ v'.written = v.written
  <2>1. v' = Prechecked(v, PrecheckStatus(mem[w].seenBefore), mem[w].seenBefore)
    BY <1>2 DEF RecordPrecheck, Prechecked
  <2>2. mem[w].seenBefore \in Nat \cup {-1} /\ PrecheckStatus(mem[w].seenBefore) \in VStatus
    BY StatusFacts, StatusesAreStatuses DEF IInv, TypeOK, Memory
  <2>3. v.status = "pending-precheck"
    BY <1>2 DEF RecordPrecheck, CanPrecheck
  <2>4. QED
    BY <1>1, <2>1, <2>2, <2>3, PrecheckedFacts DEF Final, Effects
<1>3. ASSUME NEW w \in Worker, RecoverExpired(w)
      PROVE  v.status \notin Final /\ v'.written = v.written
  <2>1. v' = Released(v, StatusAfterExpiry(v)) /\ StatusAfterExpiry(v) \in VStatus
    BY <1>3, StatusFacts, StatusesAreStatuses DEF RecoverExpired
  <2>2. v.status \in {"ready-to-write", "verifying"}
    BY <1>3, CurrentRecord DEF RecoverExpired, CanRecover, ReaderOK
  <2>3. QED
    BY <1>1, <2>1, <2>2, ReleasedFacts DEF Final, Effects
<1>4. ASSUME NEW w \in Worker, ClaimWrite(w) \/ ClaimReadback(w)
      PROVE  v.status \notin Final /\ v'.written = v.written
  <2>1. v' = Leased(v, w) /\ v.status \in {"ready-to-write", "verifying"} /\ now \in Nat
    BY <1>4 DEF ClaimWrite, ClaimReadback, CanClaim, CanClaimReadback, IInv, TypeOK
  <2>2. QED
    BY <1>1, <2>1, LeasedFacts, ConstantsAssumption DEF Final, Effects
<1>5. ASSUME NEW w \in Worker, MarkWriteDispatched(w)
      PROVE  v.status \notin Final /\ v'.written
  BY <1>1, <1>5, DispatchedFacts DEF MarkWriteDispatched, CanDispatch, Final, Effects
<1>6. ASSUME NEW w \in Worker, RecordWriteOutcome(w)
      PROVE  v.status \notin Final /\ v'.written = v.written
  <2>1. v' = Released(v, StatusOfAnswer(mem[w].answer)) /\ StatusOfAnswer(mem[w].answer) \in VStatus
    BY <1>6, StatusFacts, StatusesAreStatuses DEF RecordWriteOutcome
  <2>2. QED
    BY <1>1, <1>6, <2>1, ReleasedFacts DEF RecordWriteOutcome, CanRecord, Final, Effects
<1>7. ASSUME NEW w \in Worker, BeginPostcondition(w)
      PROVE  v.status \notin Final /\ v'.written = v.written
  <2>1. v' = AdvancedTo(v, "verifying") /\ "verifying" \in VStatus
    BY <1>7, StatusesAreStatuses DEF BeginPostcondition, AdvancedTo
  <2>2. QED
    BY <1>1, <1>7, <2>1, AdvancedFacts, ZenonT(30) DEF BeginPostcondition, CanRecord, Final, Effects
<1>8. ASSUME NEW w \in Worker, CompletePostcondition(w)
      PROVE  v.status \notin Final /\ v'.written = v.written
  <2> DEFINE status == IF mem[w].seenAfter = "unavailable" THEN "uncertain"
                       ELSE StatusOfContent(mem[w].seenAfter)
  <2>1. v' = Released(v, status) /\ status \in VStatus
    BY <1>8, StatusFacts, StatusesAreStatuses DEF CompletePostcondition
  <2> HIDE DEF status
  <2>2. QED
    BY <1>1, <1>8, <2>1, ReleasedFacts DEF CompletePostcondition, CanComplete, Final, Effects
<1>9. ASSUME NEW w \in Worker, Create(w)
      PROVE  v' = v \/ (v.status \notin Final /\ ~ v.written)
  BY <1>1, <1>9 DEF Create, CanCreate, Shaped, Final, Effects
<1>10. ASSUME NEW w \in Worker,
              \/ Ensure(w) \/ ObserveBefore(w) \/ PrecheckEntry(w) \/ MarkDispatchStarted(w)
              \/ StartedEntry(w) \/ WriteNotSent(w) \/ WriteApplied(w) \/ WriteRefused(w)
              \/ RecordExecutionOutcome(w) \/ LateEntry(w) \/ AcceptedEntry(w)
              \/ RecordExecutionAccepted(w) \/ ReadForReadback(w) \/ ObserveAfter(w)
              \/ ObservedEntry(w) \/ TruthEntry(w) \/ Refused(w)
              \/ TakePermit(w) \/ RunAction(w) \/ RunReadback(w) \/ Abandon(w)
       PROVE  v' = v
  BY <1>10 DEF Ensure, ObserveBefore, PrecheckEntry, MarkDispatchStarted, StartedEntry,
     WriteNotSent, WriteApplied, WriteRefused, RecordExecutionOutcome, LateEntry, AcceptedEntry,
     RecordExecutionAccepted, ReadForReadback, ObserveAfter, ObservedEntry, TruthEntry, Refused,
     TakePermit, RunAction, RunReadback, Abandon, store
<1>11. ASSUME RecoverExecution \/ Edit \/ Tick \/ UNCHANGED vars
       PROVE  v' = v
  BY <1>11 DEF RecoverExecution, Edit, Tick, vars, store
<1>12. ASSUME NEW w \in Worker, Call(w)
       PROVE  v' = v \/ (v.status \notin Final /\ (v.written => v'.written))
  BY <1>2, <1>3, <1>4, <1>5, <1>6, <1>7, <1>8, <1>9, <1>10, <1>12 DEF Call
<1>13. v' = v \/ (v.status \notin Final /\ (v.written => v'.written))
  BY <1>10, <1>11, <1>12 DEF Next, Step
<1>14. QED
  BY <1>13

\* A final status stays, and a record that says "written" goes on saying so:
\* no takeover, readback or late answer takes an outcome back.
THEOREM FinalStays == Spec => RecordIsFinal
<1>1. IInv /\ [Next]_vars =>
        [/\ v.status \in Final => v'.status = v.status
         /\ v.written => v'.written]_vars
  BY NextRecordIsFinal
<1>2. QED
  BY <1>1, Invariance, PTL DEF Spec, RecordIsFinal

-----------------------------------------------------------------------------
(* The promise of EffectOnce                                                *)

\* What the abstract view sees of a step.
SameView == EffectPhase' = EffectPhase /\ sends' = sends

Advances(from, to) == EffectPhase = from /\ EffectPhase' = to /\ sends' = sends

\* A record once there is never absent again, whatever a step makes of it.
LEMMA RecordIsKept ==
  ASSUME IInv, IInv', v' = v \/ v'.revision > 0
  PROVE  v.status = "absent" \/ v'.status # "absent"
  BY DEF IInv, StoresOK, Shaped

LEMMA RevisionGrows ==
  ASSUME IInv, IInv', NEW w \in Worker,
         \/ Create(w) \/ RecordPrecheck(w) \/ RecoverExpired(w) \/ ClaimWrite(w)
         \/ MarkWriteDispatched(w) \/ RecordWriteOutcome(w) \/ BeginPostcondition(w)
         \/ ClaimReadback(w) \/ CompletePostcondition(w)
  PROVE  v' = v \/ v'.revision > 0
<1>1. v \in Record /\ v.revision \in Nat /\ now \in Nat
  BY DEF IInv, TypeOK, Record
<1>2. CASE Create(w)
  BY <1>1, <1>2, NewRecordFacts, ConstantsAssumption DEF Create
<1>3. CASE RecordPrecheck(w)
  <2>1. v' = Prechecked(v, PrecheckStatus(mem[w].seenBefore), mem[w].seenBefore)
    BY <1>3 DEF RecordPrecheck, Prechecked
  <2>2. mem[w].seenBefore \in Nat \cup {-1} /\ PrecheckStatus(mem[w].seenBefore) \in VStatus
    BY StatusFacts, StatusesAreStatuses DEF IInv, TypeOK, Memory
  <2>3. QED
    BY <1>1, <2>1, <2>2, PrecheckedFacts
<1>4. CASE RecoverExpired(w)
  <2>1. v' = Released(v, StatusAfterExpiry(v)) /\ StatusAfterExpiry(v) \in VStatus
    BY <1>4, StatusFacts, StatusesAreStatuses DEF RecoverExpired
  <2>2. QED
    BY <1>1, <2>1, ReleasedFacts
<1>5. CASE ClaimWrite(w) \/ ClaimReadback(w)
  BY <1>1, <1>5, LeasedFacts, ConstantsAssumption DEF ClaimWrite, ClaimReadback
<1>6. CASE MarkWriteDispatched(w)
  BY <1>1, <1>6, DispatchedFacts DEF MarkWriteDispatched
<1>7. CASE RecordWriteOutcome(w)
  <2>1. v' = Released(v, StatusOfAnswer(mem[w].answer)) /\ StatusOfAnswer(mem[w].answer) \in VStatus
    BY <1>7, StatusFacts, StatusesAreStatuses DEF RecordWriteOutcome
  <2>2. QED
    BY <1>1, <2>1, ReleasedFacts
<1>8. CASE BeginPostcondition(w)
  <2>1. v' = AdvancedTo(v, "verifying") /\ "verifying" \in VStatus
    BY <1>8, StatusesAreStatuses DEF BeginPostcondition, AdvancedTo
  <2>2. QED
    BY <1>1, <2>1, AdvancedFacts
<1>9. CASE CompletePostcondition(w)
  <2> DEFINE status == IF mem[w].seenAfter = "unavailable" THEN "uncertain"
                       ELSE StatusOfContent(mem[w].seenAfter)
  <2>1. v' = Released(v, status) /\ status \in VStatus
    BY <1>9, StatusFacts, StatusesAreStatuses DEF CompletePostcondition
  <2> HIDE DEF status
  <2>2. QED
    BY <1>1, <2>1, ReleasedFacts
<1>10. QED
  BY <1>2, <1>3, <1>4, <1>5, <1>6, <1>7, <1>8, <1>9

\* A transition of the record announces the effect, or is not seen.
LEMMA RecordStep ==
  ASSUME IInv, IInv', v' = v \/ v'.revision > 0, UNCHANGED <<exec, sends>>
  PROVE  SameView \/ Advances("absent", "pending")
<1>1. v.status = "absent" \/ v'.status # "absent"
  BY RecordIsKept
<1>2. CASE exec.dispatch = "started"
  BY <1>2 DEF SameView, EffectPhase
<1>3. CASE exec.dispatch # "started"
  BY <1>1, <1>3 DEF SameView, Advances, EffectPhase
<1>4. QED
  BY <1>2, <1>3

\* The fence is the commitment: who comes to it remembers a record.
LEMMA FenceStep ==
  ASSUME IInv, NEW w \in Worker, MarkDispatchStarted(w)
  PROVE  Advances("pending", "committed")
<1>1. /\ exec \in Exec /\ exec.status = "executing" /\ exec.dispatch = "not-started"
      /\ mem[w].rec.holder = w /\ UNCHANGED <<v, sends>>
      /\ exec' = [exec EXCEPT !.dispatch = "started", !.revision = @ + 1]
  BY DEF IInv, TypeOK, MarkDispatchStarted, CanStart, world
<1>2. exec'.status = "executing" /\ exec'.dispatch = "started"
  BY <1>1, StartedExecution
<1>3. v.status # "absent"
  <2> SUFFICES ASSUME v.status = "absent" PROVE FALSE
    OBVIOUS
  <2>1. v = AbsentRecord /\ v.revision = 0
    BY DEF IInv, StoresOK, Shaped
  <2>2. mem[w].rec.revision \in Nat /\ mem[w].rec.revision <= v.revision
    BY DEF IInv, TypeOK, Memory, Record, Remembers
  <2>3. mem[w].rec = v
    BY <2>1, <2>2 DEF IInv, Remembers
  <2>4. QED
    BY <1>1, <2>1, <2>3, ConstantsAssumption DEF AbsentRecord
<1>4. QED
  BY <1>1, <1>2, <1>3 DEF Advances, EffectPhase

\* An outcome settles what was committed, and so does the end of the lease; an
\* execution that was not started may be taken again.
LEMMA ExecutionStep ==
  ASSUME IInv
  PROVE  /\ \A w \in Worker : TakePermit(w) => SameView
         /\ RecoverExecution => SameView \/ Advances("committed", "settled")
         /\ \A w \in Worker : RecordExecutionOutcome(w) \/ RecordExecutionAccepted(w) =>
              Advances("committed", "settled")
<1>1. exec \in Exec /\ (exec.status = "ready" => exec.dispatch = "not-started")
  BY DEF IInv, TypeOK, StoresOK
<1>2. ASSUME NEW w \in Worker, TakePermit(w) PROVE SameView
  <2>1. exec.dispatch = "not-started" /\ exec'.dispatch = "not-started" /\ UNCHANGED <<v, sends>>
    BY <1>1, <1>2 DEF TakePermit, world
  <2>2. QED
    BY <2>1 DEF SameView, EffectPhase
<1>3. ASSUME RecoverExecution PROVE SameView \/ Advances("committed", "settled")
  <2>1. /\ exec'.dispatch = exec.dispatch /\ exec.status = "executing"
        /\ exec'.status = IF exec.dispatch = "started" THEN "uncertain" ELSE "ready"
        /\ UNCHANGED <<v, sends>>
    BY <1>1, <1>3 DEF RecoverExecution, Exec, world
  <2>2. QED
    BY <2>1 DEF SameView, Advances, EffectPhase
<1>4. ASSUME NEW w \in Worker, RecordExecutionOutcome(w) \/ RecordExecutionAccepted(w)
      PROVE  Advances("committed", "settled")
  <2>1. /\ exec.status = "executing" /\ exec.dispatch = "started"
        /\ RecordExecution(w) /\ UNCHANGED <<v, sends>>
    BY <1>4 DEF RecordExecutionOutcome, RecordExecutionAccepted, CanRecordExecution, world
  <2>2. exec'.status = ExecStatusOf(mem[w].answer) /\ exec'.dispatch = "started"
    BY <1>1, <2>1 DEF RecordExecution, Exec
  <2>3. exec'.status # "executing"
    BY <2>2 DEF ExecStatusOf
  <2>4. QED
    BY <2>1, <2>2, <2>3 DEF Advances, EffectPhase
<1>5. QED
  BY <1>2, <1>3, <1>4

\* The request goes out behind the fence, and for the first time.
LEMMA RequestStep ==
  ASSUME IInv, NEW w \in Worker, WriteApplied(w) \/ WriteRefused(w)
  PROVE  /\ EffectPhase \in {"committed", "settled"} /\ EffectPhase' = EffectPhase
         /\ sends = 0 /\ sends' = 1
<1>1. pc[w] = "write" /\ UNCHANGED <<exec, v>> /\ sends' = sends + 1
  BY DEF WriteApplied, WriteRefused, store
<1>2. sends = 0 /\ exec.dispatch = "started"
  BY <1>1 DEF IInv, WriterOK, OneBehindFence, BehindFence
<1>3. QED
  BY <1>1, <1>2 DEF EffectPhase

\* Every step is one of EffectOnce, or none.
LEMMA ViewNext ==
  ASSUME IInv, IInv', [Next]_vars
  PROVE  \/ SameView
         \/ \/ Advances("absent", "pending") \/ Advances("pending", "committed")
            \/ Advances("committed", "settled")
         \/ /\ EffectPhase \in {"committed", "settled"} /\ EffectPhase' = EffectPhase
            /\ sends = 0 /\ sends' = 1
<1>1. ASSUME UNCHANGED <<exec, v, sends>> PROVE SameView
  BY <1>1 DEF SameView, EffectPhase
<1>2. CASE Edit \/ Tick \/ UNCHANGED vars
  BY <1>1, <1>2 DEF Edit, Tick, vars, store
<1>3. CASE RecoverExecution
  BY <1>3, ExecutionStep
<1>4. ASSUME NEW w \in Worker, RunAction(w) \/ RunReadback(w) \/ Abandon(w)
      PROVE  SameView
  BY <1>1, <1>4 DEF RunAction, RunReadback, Abandon, world, store
<1>5. ASSUME NEW w \in Worker,
             \/ Ensure(w) \/ ObserveBefore(w) \/ PrecheckEntry(w) \/ StartedEntry(w)
             \/ WriteNotSent(w) \/ LateEntry(w) \/ AcceptedEntry(w) \/ ReadForReadback(w)
             \/ ObserveAfter(w) \/ ObservedEntry(w) \/ TruthEntry(w) \/ Refused(w)
      PROVE  SameView
  BY <1>1, <1>5 DEF Ensure, ObserveBefore, PrecheckEntry, StartedEntry, WriteNotSent, LateEntry,
     AcceptedEntry, ReadForReadback, ObserveAfter, ObservedEntry, TruthEntry, Refused, world, store
<1>6. ASSUME NEW w \in Worker,
             \/ Create(w) \/ RecordPrecheck(w) \/ RecoverExpired(w) \/ ClaimWrite(w)
             \/ MarkWriteDispatched(w) \/ RecordWriteOutcome(w) \/ BeginPostcondition(w)
             \/ ClaimReadback(w) \/ CompletePostcondition(w)
      PROVE  SameView \/ Advances("absent", "pending")
  <2>1. UNCHANGED <<exec, sends>>
    BY <1>6 DEF Create, RecordPrecheck, RecoverExpired, ClaimWrite, MarkWriteDispatched,
       RecordWriteOutcome, BeginPostcondition, ClaimReadback, CompletePostcondition, world
  <2>2. v' = v \/ v'.revision > 0
    BY <1>6, RevisionGrows
  <2>3. QED
    BY <2>1, <2>2, RecordStep
<1>7. CASE \E w \in Worker : Call(w)
  <2>1. PICK w \in Worker : Call(w)
    BY <1>7
  <2>2. CASE MarkDispatchStarted(w)
    BY <2>2, FenceStep
  <2>3. CASE RecordExecutionOutcome(w) \/ RecordExecutionAccepted(w)
    BY <2>3, ExecutionStep
  <2>4. CASE WriteApplied(w) \/ WriteRefused(w)
    BY <2>4, RequestStep
  <2>5. QED
    BY <1>5, <1>6, <2>1, <2>2, <2>3, <2>4 DEF Call
<1>8. CASE \E w \in Worker : TakePermit(w)
  BY <1>8, ExecutionStep
<1>9. QED
  BY <1>2, <1>3, <1>4, <1>7, <1>8 DEF Next, Step

\* The verified write keeps the promise of EffectOnce: the fence is the
\* commitment, the request follows it and goes out once, and neither a death
\* nor a takeover takes a commitment or its outcome back.
THEOREM Refinement == Spec => ImplementsEffectOnce
<1> DEFINE phases == [e \in {Expected} |-> EffectPhase]
           called == [e \in {Expected} |-> sends]
<1>1. Init => Once!Init
  BY DEF Init, Once!Init, EffectPhase, AbsentRecord
<1>2. ASSUME IInv, IInv', [Next]_vars PROVE [Once!Next]_<<phases, called>>
  <2>1. CASE SameView
    BY <2>1 DEF SameView
  <2>2. CASE Advances("absent", "pending")
    BY <2>2 DEF Advances, Once!Next, Once!Submit
  <2>3. CASE Advances("pending", "committed")
    BY <2>3 DEF Advances, Once!Next, Once!Commit, Once!Rival
  <2>4. CASE Advances("committed", "settled")
    BY <2>4 DEF Advances, Once!Next, Once!Settle
  <2>5. CASE /\ EffectPhase \in {"committed", "settled"} /\ EffectPhase' = EffectPhase
             /\ sends = 0 /\ sends' = 1
    BY <2>5 DEF Once!Next, Once!Call, Once!Bound
  <2>6. QED
    BY <1>2, <2>1, <2>2, <2>3, <2>4, <2>5, ViewNext
<1>3. QED
  BY <1>1, <1>2, Invariance, PTL DEF Spec, ImplementsEffectOnce, Once!Spec
=============================================================================

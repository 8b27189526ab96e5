----------------------------- MODULE HumanTask -----------------------------
(***************************************************************************)
(* Human tasks: the handoff of a waiting run to a person, with deadlines   *)
(* on the clock of the process that serves the call.  A task is bound to   *)
(* the run when it is assigned and never looks at it again.                *)
(***************************************************************************)
EXTENDS Integers, ApplicationRun

CONSTANTS
  Caller,      \* processes that call the task service
  TaskId,      \* ids of human tasks
  User,        \* users of the organization
  Result,      \* resultRef and evidenceRef of a completion
  Skew,        \* Skew[p]: clock of caller p minus the true time
  Timing,      \* deadlines that are asked for: [escalateAt, expiresAt]
  MaxRevision, \* bound: a task is not replaced beyond this revision
  MaxTime      \* bound: time stops here

ASSUME TaskConstants ==
  /\ Skew \in [Caller -> Int]
  /\ Timing \subseteq [escalateAt : Nat \cup {Nil}, expiresAt : Nat \cup {Nil}]
  /\ MaxRevision \in Nat /\ MaxTime \in Nat
  /\ Nil \notin User /\ Nil \notin Nat

VARIABLES
  clock,      \* the true time
  tasks,      \* vira.human_task_state
  taskCall,   \* what each caller is about to write to it
  taskAcks    \* history: how many writes of a task were acknowledged

taskVars == <<clock, tasks, taskCall, taskAcks>>
vars     == <<runVars, taskVars>>

TaskStatus == {"assigned", "claimed", "completed", "expired"}
Instant    == Nat \cup {Nil}

Task == [revision : Nat \ {0}, run : RunId, runRevision : Nat \ {0}, wait : {w.id : w \in Wait},
         status : TaskStatus, assignee : User, claimant : User \cup {Nil},
         result : Result \cup {Nil}, escalations : Nat, escalateAt : Instant,
         expiresAt : Instant, escalatedAt : Instant,
         createdAt : Nat, updatedAt : Nat, closedAt : Instant]

ASSUME TaskAssumption == Nil \notin Task

TypeOK ==
  /\ RunTypeOK
  /\ clock \in 0..MaxTime
  /\ tasks \in [TaskId -> Task \cup {Nil}]
  /\ taskCall \in [Caller -> [id : TaskId, next : Task] \cup {Nil}]
  /\ taskAcks \in [TaskId -> Nat]

Init ==
  /\ RunInit
  /\ clock = 0
  /\ tasks = [t \in TaskId |-> Nil]
  /\ taskCall = [p \in Caller |-> Nil]
  /\ taskAcks = [t \in TaskId |-> 0]

-----------------------------------------------------------------------------
(* The record *)

Now(p) == clock + Skew[p]

NotAfter(a, b) == a # Nil /\ b # Nil => a <= b

\* What canonicalStoredTask accepts: a row that fails is refused at every read.
Canonical(t) ==
  /\ t.createdAt <= t.updatedAt
  /\ NotAfter(t.createdAt, t.closedAt) /\ NotAfter(t.closedAt, t.updatedAt)
  /\ t.escalateAt # Nil /\ t.expiresAt # Nil => t.escalateAt < t.expiresAt
  /\ NotAfter(t.createdAt, t.escalateAt) /\ NotAfter(t.createdAt, t.expiresAt)
  /\ t.escalations = 0 <=> t.escalatedAt = Nil
  /\ NotAfter(t.escalatedAt, t.updatedAt)
  /\ t.status = "assigned" => t.claimant = Nil
  /\ t.status \in {"claimed", "completed"} => t.claimant # Nil
  /\ t.status \in {"assigned", "claimed"} <=> t.closedAt = Nil
  /\ t.status # "completed" => t.result = Nil

\* readStored answers with the row.
Readable(id) == tasks[id] # Nil /\ Canonical(tasks[id])

-----------------------------------------------------------------------------
(* The operations: each reads, checks, and holds the record it will write *)

HoldTask(p, id, next) ==
  /\ next.revision <= MaxRevision /\ next.updatedAt >= 0
  /\ taskCall' = [taskCall EXCEPT ![p] = [id |-> id, next |-> next]]
  /\ UNCHANGED <<clock, tasks, taskAcks, runVars>>

\* (mutant) A paused run that kept its wait is handed off too.
AssignPaused(p, id, r, user, due) ==
  /\ taskCall[p] = Nil
  /\ NotAfter(Now(p), due.escalateAt) /\ NotAfter(Now(p), due.expiresAt)
  /\ runs[r] # Nil
  /\ runs[r].wait # Nil
  /\ runs[r].wait.kind = "human-task" /\ runs[r].wait.reference = id
  /\ HoldTask(p, id,
       [revision |-> 1, run |-> r, runRevision |-> runs[r].revision, wait |-> runs[r].wait.id,
        status |-> "assigned", assignee |-> user, claimant |-> Nil, result |-> Nil,
        escalations |-> 0, escalateAt |-> due.escalateAt, expiresAt |-> due.expiresAt,
        escalatedAt |-> Nil, createdAt |-> Now(p), updatedAt |-> Now(p), closedAt |-> Nil])

Assign(p, id, r, user, due) ==
  /\ taskCall[p] = Nil
  /\ NotAfter(Now(p), due.escalateAt) /\ NotAfter(Now(p), due.expiresAt)
  /\ due.escalateAt # Nil /\ due.expiresAt # Nil => due.escalateAt < due.expiresAt
  /\ runs[r] # Nil
  /\ runs[r].status = "waiting" /\ runs[r].wait # Nil
  /\ runs[r].wait.kind = "human-task" /\ runs[r].wait.reference = id
  /\ HoldTask(p, id,
       [revision |-> 1, run |-> r, runRevision |-> runs[r].revision, wait |-> runs[r].wait.id,
        status |-> "assigned", assignee |-> user, claimant |-> Nil, result |-> Nil,
        escalations |-> 0, escalateAt |-> due.escalateAt, expiresAt |-> due.expiresAt,
        escalatedAt |-> Nil, createdAt |-> Now(p), updatedAt |-> Now(p), closedAt |-> Nil])

\* The task as it is read, one revision on, at the time of the caller.
Advanced(p, id) ==
  [tasks[id] EXCEPT !.revision = @ + 1, !.updatedAt = Now(p)]

Open(p, id) == taskCall[p] = Nil /\ Readable(id)

Unclaimed(id) == tasks[id].status = "assigned" /\ tasks[id].claimant = Nil

ClaimedBy(id, user) == tasks[id].status = "claimed" /\ tasks[id].claimant = user

Claim(p, id, user) ==
  /\ Open(p, id) /\ Unclaimed(id)
  /\ tasks[id].assignee = user
  /\ HoldTask(p, id, [Advanced(p, id) EXCEPT !.status = "claimed", !.claimant = user])

\* (mutant) A release drops the assignment with the claim.
ReleaseToNobody(p, id, user) ==
  /\ Open(p, id) /\ ClaimedBy(id, user)
  /\ HoldTask(p, id, [Advanced(p, id) EXCEPT !.status = "assigned", !.claimant = Nil,
                                             !.assignee = Nil])

Release(p, id, user) ==
  /\ Open(p, id) /\ ClaimedBy(id, user)
  /\ HoldTask(p, id, [Advanced(p, id) EXCEPT !.status = "assigned", !.claimant = Nil])

\* (mutant) A claimed task is reassigned.
ReassignAny(p, id, user) ==
  /\ Open(p, id) /\ tasks[id].closedAt = Nil
  /\ tasks[id].assignee # user
  /\ HoldTask(p, id, [Advanced(p, id) EXCEPT !.assignee = user])

Reassign(p, id, user) ==
  /\ Open(p, id) /\ Unclaimed(id)
  /\ tasks[id].assignee # user
  /\ HoldTask(p, id, [Advanced(p, id) EXCEPT !.assignee = user])

Complete(p, id, user, result) ==
  /\ Open(p, id) /\ ClaimedBy(id, user)
  /\ HoldTask(p, id, [Advanced(p, id) EXCEPT !.status = "completed", !.result = result,
                                             !.closedAt = Now(p)])

\* (mutant) Whatever has a deadline expires.
ExpireAny(p, id) ==
  /\ Open(p, id)
  /\ tasks[id].expiresAt # Nil /\ Now(p) >= tasks[id].expiresAt
  /\ HoldTask(p, id, [Advanced(p, id) EXCEPT !.status = "expired", !.result = Nil,
                                             !.closedAt = Now(p)])

Expire(p, id) ==
  /\ Open(p, id)
  /\ tasks[id].status \in {"assigned", "claimed"}
  /\ tasks[id].expiresAt # Nil /\ Now(p) >= tasks[id].expiresAt
  /\ HoldTask(p, id, [Advanced(p, id) EXCEPT !.status = "expired", !.result = Nil,
                                             !.closedAt = Now(p)])

\* (mutant) An escalation does not say when it was.
EscalateUnstamped(p, id, user, escalateAt) ==
  /\ Open(p, id) /\ Unclaimed(id)
  /\ tasks[id].escalateAt # Nil /\ Now(p) >= tasks[id].escalateAt
  /\ tasks[id].assignee # user
  /\ HoldTask(p, id, [Advanced(p, id) EXCEPT !.assignee = user, !.escalations = @ + 1,
                                             !.escalateAt = escalateAt])

Escalate(p, id, user, escalateAt) ==
  /\ Open(p, id) /\ Unclaimed(id)
  /\ tasks[id].escalateAt # Nil /\ Now(p) >= tasks[id].escalateAt
  /\ tasks[id].assignee # user
  /\ escalateAt # Nil => Now(p) < escalateAt
  /\ escalateAt # Nil /\ tasks[id].expiresAt # Nil => escalateAt < tasks[id].expiresAt
  /\ HoldTask(p, id, [Advanced(p, id) EXCEPT !.assignee = user, !.escalations = @ + 1,
                                             !.escalateAt = escalateAt, !.escalatedAt = Now(p)])

\* The store's transaction.  An assignment of an id that exists answers with
\* the row if it is the same assignment, else CONFLICT; both change nothing.
CommitTask(p) ==
  /\ taskCall[p] # Nil
  /\ LET w == taskCall[p] IN
       /\ tasks' = Stored(tasks, w.id, w.next)
       /\ taskAcks' = IF Accepts(tasks, w.id, w.next)
                      THEN [taskAcks EXCEPT ![w.id] = @ + 1] ELSE taskAcks
  /\ taskCall' = [taskCall EXCEPT ![p] = Nil]
  /\ UNCHANGED <<clock, runVars>>

Tick ==
  /\ clock < MaxTime
  /\ clock' = clock + 1
  /\ UNCHANGED <<tasks, taskCall, taskAcks, runVars>>

TaskStep(p, id) ==
  \/ \E r \in RunId, user \in User, d \in Timing : Assign(p, id, r, user, d)
  \/ \E user \in User : Claim(p, id, user)
  \/ \E user \in User : Release(p, id, user)
  \/ \E user \in User : Reassign(p, id, user)
  \/ \E user \in User, result \in Result : Complete(p, id, user, result)
  \/ Expire(p, id)
  \/ \E user \in User, d \in Timing : Escalate(p, id, user, d.escalateAt)

Next ==
  \/ RunNext /\ UNCHANGED taskVars
  \/ \E p \in Caller, id \in TaskId : TaskStep(p, id)
  \/ \E p \in Caller : CommitTask(p)
  \/ Tick

Spec == Init /\ [][Next]_vars

-----------------------------------------------------------------------------
(* Properties *)

\* What the service has written it can read back: canonicalStoredTask accepts
\* every row, so that no task is answered with STORE_FAILURE for good.
TaskIsReadable == \A id \in TaskId : tasks[id] # Nil => Canonical(tasks[id])

\* Work that is claimed is not taken away: escalation, reassignment and the
\* writes of stale callers leave the claimant the assignee until he releases
\* the task, completes it or it expires.
ClaimantIsAssignee ==
  \A id \in TaskId : tasks[id] # Nil /\ tasks[id].claimant # Nil
    => tasks[id].claimant = tasks[id].assignee

\* Every revision of a task answers exactly one call with ok.
OneAnswerPerTaskRevision ==
  \A id \in TaskId : taskAcks[id] = IF tasks[id] = Nil THEN 0 ELSE tasks[id].revision

\* A task is bound to a wait its run really had: at the revision it names the
\* run waits for exactly this task, however late the task is stored.
TaskBindsAWait ==
  \A id \in TaskId : tasks[id] # Nil =>
    LET t == tasks[id] run == runs[t.run] IN
      /\ run # Nil /\ t.runRevision <= run.revision
      /\ run.revision = t.runRevision =>
           run.status = "waiting" /\ run.wait.id = t.wait /\ run.wait.reference = id

\* What the people, the queue and the clock may do to one task.
TasksAreSound ==
  TaskIsReadable /\ ClaimantIsAssignee /\ OneAnswerPerTaskRevision /\ TaskBindsAWait

\* A closed task stays as it is: no late completion, expiry or claim.
ClosedIsFinal ==
  [][\A id \in TaskId : tasks[id] # Nil /\ tasks[id].status \in {"completed", "expired"}
       => tasks'[id] = tasks[id]]_tasks
-----------------------------------------------------------------------------
(* The inductive invariants behind the properties.  A row and a record that  *)
(* a caller is about to write fulfil the same conditions.                    *)

\* The wait that t names is one its run had, and has while it is at that revision.
BindsAWait(id, t) ==
  LET run == runs[t.run] IN
    /\ run # Nil /\ t.runRevision <= run.revision
    /\ run.revision = t.runRevision =>
         run.status = "waiting" /\ run.wait # Nil /\ run.wait.id = t.wait /\ run.wait.reference = id

ClaimFits(t) == t.claimant # Nil => t.claimant = t.assignee

TaskWriteHolds(p) ==
  taskCall[p] # Nil =>
    LET id == taskCall[p].id next == taskCall[p].next IN
      /\ BindsAWait(id, next) /\ ClaimFits(next)
      /\ next.revision > 1 =>
           /\ tasks[id] # Nil /\ next.revision - 1 <= tasks[id].revision
           /\ tasks[id].revision = next.revision - 1 => tasks[id].status \in {"assigned", "claimed"}

\* What holds whatever the clocks of the callers say.
TaskWritesHold ==
  /\ TypeOK
  /\ RunWritesHold
  /\ ClaimantIsAssignee /\ OneAnswerPerTaskRevision
  /\ \A id \in TaskId : tasks[id] # Nil => BindsAWait(id, tasks[id])
  /\ \A p \in Caller : TaskWriteHolds(p)

\* Callers whose clocks agree; the code assumes it where it compares the time of
\* one process with what another has written.
ClocksAgree == \A p, q \in Caller : Skew[p] = Skew[q]

ReadableNow(t) == Canonical(t) /\ \A p \in Caller : t.updatedAt <= Now(p)

\* What is written and what is about to be written is readable, and not of the future.
RecordsAreReadable ==
  /\ \A id \in TaskId : tasks[id] # Nil => ReadableNow(tasks[id])
  /\ \A p \in Caller : taskCall[p] # Nil => ReadableNow(taskCall[p].next)
============================================================================

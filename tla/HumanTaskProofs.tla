--------------------------- MODULE HumanTaskProofs ---------------------------
(***************************************************************************)
(* The proofs about ApplicationRun and HumanTask.  A caller writes what it *)
(* computed from a revision that it read, and the store replaces a row only *)
(* at that revision: so the invariants speak of the row and of every record *)
(* that is about to be written.                                            *)
(***************************************************************************)
EXTENDS HumanTask, TLAPS

(***************************************************************************)
(* The store.                                                              *)
(***************************************************************************)

\* A record is stored where the row has the revision before it, and else the
\* table stays as it is.
LEMMA StoredFacts ==
  ASSUME NEW Key, NEW Rec, NEW table \in [Key -> Rec \cup {Nil}], NEW key \in Key,
         NEW rec \in Rec
  PROVE  \/ /\ Accepts(table, key, rec)
            /\ Stored(table, key, rec) = [table EXCEPT ![key] = rec]
            /\ IF rec.revision = 1 THEN table[key] = Nil
               ELSE table[key] # Nil /\ table[key].revision = rec.revision - 1
         \/ ~Accepts(table, key, rec) /\ Stored(table, key, rec) = table
  BY DEF Stored, Accepts, Inserted, Updated, Matches

(***************************************************************************)
(* Runs.                                                                   *)
(***************************************************************************)

\* The row of r stays, or a later revision takes its place.
RunGrows(r) ==
  \/ runs'[r] = runs[r]
  \/ /\ runs'[r] # Nil
     /\ runs[r] # Nil => runs'[r].revision > runs[r].revision

LEMMA SuccessorFacts ==
  ASSUME NEW rec \in Run, NEW status \in RunStatus, NEW wait \in Wait \cup {Nil}
  PROVE  LET next == Successor(rec, status, wait) IN
           /\ next \in Run
           /\ next.revision = rec.revision + 1
           /\ next.status = status
           /\ next.wait = wait
<1>1. ASSUME NEW x, x = Successor(rec, status, wait)
      PROVE  x = [revision |-> rec.revision + 1, status |-> status, resolution |-> rec.resolution,
                  entrypoint |-> rec.entrypoint, wait |-> wait]
  BY <1>1, Zenon DEF Successor, Run
<1>2. QED
  BY <1>1 DEF Run

LEMMA RunInitHolds == RunInit => RunWritesHold
  BY DEF RunInit, RunWritesHold, RunTypeOK, RunsAreSound, WaitTellsStatus, OneAnswerPerRunRevision,
     RunWriteHolds

\* A caller that reads and holds the record it will write.
LEMMA HoldRunHolds ==
  ASSUME RunWritesHold, NEW p \in RunCaller, NEW r \in RunId, NEW next \in Run, HoldRun(p, r, next),
         WaitFits(next),
         next.revision > 1 => /\ runs[r] # Nil /\ runs[r].revision = next.revision - 1
                              /\ WaitFollows(runs[r], next)
  PROVE  RunWritesHold'
<1>1. RunTypeOK /\ RunsAreSound
  BY DEF RunWritesHold
<1> DEFINE w == [id |-> r, next |-> next]
<1>2. w \in RunWrite /\ w.id = r /\ w.next = next
  BY DEF RunWrite
<1>3. /\ runCall' = [runCall EXCEPT ![p] = w] /\ runs' = runs /\ runAcks' = runAcks
  BY DEF HoldRun
<1> HIDE DEF w
<1>4. RunTypeOK' /\ RunsAreSound'
  BY <1>1, <1>2, <1>3
     DEF RunTypeOK, RunsAreSound, WaitTellsStatus, OneAnswerPerRunRevision
<1>5. ASSUME NEW q \in RunCaller PROVE RunWriteHolds(q)'
  <2>1. CASE q = p
    <3>1. runCall'[q] = w
      BY <1>1, <1>3, <2>1 DEF RunTypeOK
    <3>2. next.revision > 1 => runs[r].revision \in Nat
      BY <1>1 DEF RunTypeOK, Run
    <3>3. next.revision > 1 => next.revision - 1 <= runs[r].revision
      BY <3>2
    <3>4. QED
      BY <1>2, <1>3, <3>1, <3>3 DEF RunWriteHolds
  <2>2. CASE q # p
    BY <1>1, <1>3, <2>2 DEF RunTypeOK, RunWritesHold, RunWriteHolds
  <2>3. QED
    BY <2>1, <2>2
<1>6. QED
  BY <1>4, <1>5 DEF RunWritesHold

LEMMA CreateRunHolds ==
  ASSUME RunWritesHold, NEW p \in RunCaller, NEW r \in RunId, NEW x \in Resolution,
         NEW e \in Entrypoint, CreateRun(p, r, x, e)
  PROVE  RunWritesHold'
<1> DEFINE next == [revision |-> 1, status |-> "running", resolution |-> x, entrypoint |-> e, wait |-> Nil]
<1>1. next \in Run
  BY DEF Run, RunStatus
<1>2. next.revision = 1 /\ WaitFits(next) /\ HoldRun(p, r, next)
  BY DEF WaitFits, CreateRun
<1> HIDE DEF next
<1>3. QED
  BY <1>1, <1>2, HoldRunHolds

\* The operations that replace a run.
LEMMA AdvanceRunHolds ==
  ASSUME RunWritesHold, NEW p \in RunCaller, NEW r \in RunId, runs[r] # Nil,
         NEW status \in RunStatus, NEW wait \in Wait \cup {Nil},
         HoldRun(p, r, Successor(runs[r], status, wait)),
         status = "running" => wait = Nil, status = "waiting" => wait # Nil,
         \/ runs[r].wait = Nil
         \/ wait = runs[r].wait
         \/ runs[r].status = "waiting" /\ status = "running" /\ wait = Nil
  PROVE  RunWritesHold'
<1> DEFINE next == Successor(runs[r], status, wait)
<1>1. runs[r] \in Run
  BY DEF RunWritesHold, RunTypeOK
<1>2. /\ next \in Run /\ next.revision = runs[r].revision + 1 /\ next.status = status
      /\ next.wait = wait
  BY <1>1, SuccessorFacts
<1> HIDE DEF next
<1>3. WaitFits(next) /\ WaitFollows(runs[r], next)
  BY <1>2 DEF WaitFits, WaitFollows
<1>4. runs[r].revision = next.revision - 1
  BY <1>1, <1>2 DEF Run
<1>5. QED
  BY <1>2, <1>3, <1>4, HoldRunHolds DEF next

\* What the transaction of the store does to a run.
LEMMA CommitRunFacts ==
  ASSUME RunWritesHold, NEW p \in RunCaller, CommitRun(p)
  PROVE  LET id == runCall[p].id next == runCall[p].next IN
           /\ id \in RunId /\ next \in Run /\ WaitFits(next)
           /\ \A q \in RunCaller : runCall'[q] = IF q = p THEN Nil ELSE runCall[q]
           /\ \/ runs' = runs /\ runAcks' = runAcks
              \/ /\ runs' = [runs EXCEPT ![id] = next] /\ runAcks' = [runAcks EXCEPT ![id] = @ + 1]
                 /\ IF next.revision = 1 THEN runs[id] = Nil
                    ELSE /\ runs[id] # Nil /\ runs[id].revision = next.revision - 1
                         /\ WaitFollows(runs[id], next)
<1> DEFINE id == runCall[p].id
           next == runCall[p].next
<1>1. RunTypeOK /\ runCall[p] # Nil /\ RunWriteHolds(p)
  BY DEF RunWritesHold, CommitRun
<1>2. id \in RunId /\ next \in Run /\ runs \in [RunId -> Run \cup {Nil}]
  BY <1>1 DEF RunTypeOK, RunWrite
<1>3. WaitFits(next)
  BY <1>1 DEF RunWriteHolds
<1>4. \A q \in RunCaller : runCall'[q] = IF q = p THEN Nil ELSE runCall[q]
  BY <1>1 DEF CommitRun, RunTypeOK
<1>5. /\ runs' = Stored(runs, id, next)
      /\ runAcks' = IF Accepts(runs, id, next) THEN [runAcks EXCEPT ![id] = @ + 1] ELSE runAcks
  BY DEF CommitRun
<1>6. next.revision # 1 => next.revision > 1
  BY <1>2 DEF Run
<1>7. /\ next.revision # 1 /\ runs[id] # Nil /\ runs[id].revision = next.revision - 1
      => WaitFollows(runs[id], next)
  BY <1>1, <1>6 DEF RunWriteHolds
<1> HIDE DEF id, next
<1>8. \/ runs' = runs /\ runAcks' = runAcks
      \/ /\ runs' = [runs EXCEPT ![id] = next] /\ runAcks' = [runAcks EXCEPT ![id] = @ + 1]
         /\ IF next.revision = 1 THEN runs[id] = Nil
            ELSE /\ runs[id] # Nil /\ runs[id].revision = next.revision - 1
                 /\ WaitFollows(runs[id], next)
  <2>1. \/ /\ Accepts(runs, id, next)
           /\ Stored(runs, id, next) = [runs EXCEPT ![id] = next]
           /\ IF next.revision = 1 THEN runs[id] = Nil
              ELSE runs[id] # Nil /\ runs[id].revision = next.revision - 1
        \/ ~Accepts(runs, id, next) /\ Stored(runs, id, next) = runs
    BY <1>2, StoredFacts
  <2>2. QED
    BY <1>5, <1>7, <2>1
<1>9. QED
  BY <1>2, <1>3, <1>4, <1>8 DEF id, next

LEMMA CommitRunGrows ==
  ASSUME RunWritesHold, NEW p \in RunCaller, CommitRun(p), NEW r \in RunId
  PROVE  RunGrows(r)
<1> DEFINE id == runCall[p].id
           next == runCall[p].next
<1>1. id \in RunId /\ next \in Run
  BY CommitRunFacts
<1>2. runs \in [RunId -> Run \cup {Nil}] /\ Nil \notin Run
  BY RunAssumption DEF RunWritesHold, RunTypeOK
<1>3. CASE runs' = runs
  BY <1>3 DEF RunGrows
<1>4. CASE /\ runs' = [runs EXCEPT ![id] = next]
           /\ IF next.revision = 1 THEN runs[id] = Nil
              ELSE runs[id] # Nil /\ runs[id].revision = next.revision - 1
  <2>1. runs'[id] = next /\ next # Nil /\ \A q \in RunId : q # id => runs'[q] = runs[q]
    BY <1>1, <1>2, <1>4
  <2>2. runs[id] # Nil => next.revision > runs[id].revision
    BY <1>1, <1>2, <1>4 DEF Run
  <2> HIDE DEF id, next
  <2>3. QED
    BY <2>1, <2>2 DEF RunGrows
<1>5. QED
  BY <1>3, <1>4, CommitRunFacts

LEMMA CommitRunHolds ==
  ASSUME RunWritesHold, NEW p \in RunCaller, CommitRun(p)
  PROVE  RunWritesHold'
<1> DEFINE id == runCall[p].id
           next == runCall[p].next
<1>1. /\ RunTypeOK /\ RunsAreSound /\ Nil \notin Run
      /\ runs \in [RunId -> Run \cup {Nil}] /\ runAcks \in [RunId -> Nat]
  BY RunAssumption DEF RunWritesHold, RunTypeOK
<1>2. /\ id \in RunId /\ next \in Run /\ WaitFits(next)
      /\ \A q \in RunCaller : runCall'[q] = IF q = p THEN Nil ELSE runCall[q]
      /\ \/ runs' = runs /\ runAcks' = runAcks
         \/ /\ runs' = [runs EXCEPT ![id] = next] /\ runAcks' = [runAcks EXCEPT ![id] = @ + 1]
            /\ IF next.revision = 1 THEN runs[id] = Nil
               ELSE runs[id] # Nil /\ runs[id].revision = next.revision - 1
  BY CommitRunFacts
<1> HIDE DEF id, next
<1>3. RunTypeOK'
  <2>1. runCall' \in [RunCaller -> RunWrite \cup {Nil}]
    BY <1>1 DEF RunTypeOK, CommitRun
  <2>2. QED
    BY <1>1, <1>2, <2>1 DEF RunTypeOK
<1>4. WaitTellsStatus'
  BY <1>1, <1>2 DEF RunsAreSound, WaitTellsStatus, WaitFits
<1>5. OneAnswerPerRunRevision'
  <2>1. ASSUME NEW r \in RunId PROVE runAcks'[r] = IF runs'[r] = Nil THEN 0 ELSE runs'[r].revision
    <3>1. runAcks[r] = IF runs[r] = Nil THEN 0 ELSE runs[r].revision
      BY <1>1 DEF RunsAreSound, OneAnswerPerRunRevision
    <3>2. CASE r = id
      BY <1>1, <1>2, <3>1, <3>2 DEF Run
    <3>3. CASE r # id
      BY <1>1, <1>2, <3>1, <3>3
    <3>4. QED
      BY <3>2, <3>3
  <2>2. QED
    BY <2>1 DEF OneAnswerPerRunRevision
<1>6. ASSUME NEW q \in RunCaller PROVE RunWriteHolds(q)'
  <2>1. CASE q = p
    BY <1>2, <2>1 DEF RunWriteHolds
  <2>2. CASE q # p
    <3>1. runCall'[q] = runCall[q] /\ RunWriteHolds(q)
      BY <1>2, <2>2 DEF RunWritesHold
    <3>2. CASE runCall[q] = Nil
      BY <3>1, <3>2 DEF RunWriteHolds
    <3>3. CASE runCall[q] # Nil
      <4> DEFINE r == runCall[q].id
                 rec == runCall[q].next
      <4>1. r \in RunId /\ rec \in Run
        BY <1>1, <3>3 DEF RunTypeOK, RunWrite
      <4>2. RunGrows(r)
        BY <4>1, CommitRunGrows
      <4>3. /\ WaitFits(rec)
            /\ rec.revision > 1 =>
                 /\ runs[r] # Nil /\ rec.revision - 1 <= runs[r].revision
                 /\ runs[r].revision = rec.revision - 1 => WaitFollows(runs[r], rec)
        BY <3>1, <3>3 DEF RunWriteHolds
      <4> HIDE DEF r, rec
      <4>4. runs[r] # Nil => runs[r] \in Run
        BY <1>1, <4>1
      <4>5. runs'[r] # Nil => runs'[r] \in Run
        BY <1>3, <4>1 DEF RunTypeOK
      <4>6. rec.revision > 1 =>
              /\ runs'[r] # Nil /\ rec.revision - 1 <= runs'[r].revision
              /\ runs'[r].revision = rec.revision - 1 => WaitFollows(runs'[r], rec)
        BY <4>1, <4>2, <4>3, <4>4, <4>5 DEF RunGrows, Run
      <4>7. QED
        BY <3>1, <3>3, <4>3, <4>6 DEF RunWriteHolds, r, rec
    <3>4. QED
      BY <3>2, <3>3
  <2>3. QED
    BY <2>1, <2>2
<1>7. QED
  BY <1>3, <1>4, <1>5, <1>6 DEF RunWritesHold, RunsAreSound

LEMMA RunNextHolds == RunWritesHold /\ [RunNext]_runVars => RunWritesHold'
<1> SUFFICES ASSUME RunWritesHold, [RunNext]_runVars PROVE RunWritesHold'
  OBVIOUS
<1>1. CASE UNCHANGED runVars
  BY <1>1 DEF runVars, RunWritesHold, RunTypeOK, RunsAreSound, WaitTellsStatus,
              OneAnswerPerRunRevision, RunWriteHolds
<1>2. ASSUME NEW p \in RunCaller, RunStep(p) PROVE RunWritesHold'
  <2>1. \A r \in RunId : runs[r] # Nil =>
          runs[r].wait \in Wait \cup {Nil} /\ (runs[r].status = "running" => runs[r].wait = Nil)
    BY DEF RunWritesHold, RunTypeOK, Run, RunsAreSound, WaitTellsStatus
  <2>2. {"running", "waiting", "paused"} \subseteq RunStatus
    BY DEF RunStatus
  <2>3. ASSUME NEW r \in RunId, NEW w \in Wait, WaitRun(p, r, w) PROVE RunWritesHold'
    BY <2>2, <2>3, WaitAssumption, AdvanceRunHolds DEF WaitRun
  <2>4. ASSUME NEW r \in RunId, NEW w \in Wait, ResumeRun(p, r, w.id) PROVE RunWritesHold'
    BY <2>2, <2>4, AdvanceRunHolds DEF ResumeRun
  <2>5. ASSUME NEW r \in RunId, PauseRun(p, r) PROVE RunWritesHold'
    BY <2>1, <2>2, <2>5, AdvanceRunHolds DEF PauseRun
  <2>6. ASSUME NEW r \in RunId, ResumePaused(p, r) PROVE RunWritesHold'
    <3>1. CASE runs[r].wait = Nil
      <4>1. HoldRun(p, r, Successor(runs[r], "running", runs[r].wait)) /\ runs[r] # Nil
        BY <2>6, <3>1 DEF ResumePaused
      <4>2. QED
        BY <2>1, <2>2, <3>1, <4>1, AdvanceRunHolds
    <3>2. CASE runs[r].wait # Nil
      <4>1. HoldRun(p, r, Successor(runs[r], "waiting", runs[r].wait)) /\ runs[r] # Nil
        BY <2>6, <3>2 DEF ResumePaused
      <4>2. QED
        BY <2>1, <2>2, <3>2, <4>1, AdvanceRunHolds
    <3>3. QED
      BY <3>1, <3>2
  <2>7. QED
    BY <1>2, <2>3, <2>4, <2>5, <2>6, CreateRunHolds, CommitRunHolds DEF RunStep
<1>3. QED
  BY <1>1, <1>2 DEF RunNext

\* What no other service changes of a run: a step of the run service replaces a
\* row by a later revision.
LEMMA RunNextGrows ==
  ASSUME RunWritesHold, [RunNext]_runVars, NEW r \in RunId
  PROVE  RunGrows(r)
<1>1. CASE UNCHANGED runs
  BY <1>1 DEF RunGrows
<1>2. ASSUME NEW p \in RunCaller, CommitRun(p) PROVE RunGrows(r)
  BY <1>2, CommitRunGrows
<1>3. UNCHANGED runs \/ \E p \in RunCaller : CommitRun(p)
  BY DEF RunNext, RunStep, CreateRun, WaitRun, ResumeRun, PauseRun, ResumePaused, HoldRun, runVars
<1>4. QED
  BY <1>1, <1>2, <1>3

\* Only the resume of a waiting run takes its wait away.
LEMMA RunNextConsumes ==
  ASSUME RunWritesHold, [RunNext]_runVars, NEW r \in RunId, runs[r] # Nil, runs[r].wait # Nil,
         runs'[r].wait # runs[r].wait
  PROVE  runs[r].status = "waiting" /\ runs'[r].status = "running" /\ runs'[r].wait = Nil
<1>1. CASE UNCHANGED runs
  BY <1>1
<1>2. ASSUME NEW p \in RunCaller, CommitRun(p)
      PROVE  runs[r].status = "waiting" /\ runs'[r].status = "running" /\ runs'[r].wait = Nil
  <2> DEFINE id == runCall[p].id
             next == runCall[p].next
  <2>1. /\ id \in RunId
        /\ \/ runs' = runs
           \/ /\ runs' = [runs EXCEPT ![id] = next]
              /\ IF next.revision = 1 THEN runs[id] = Nil ELSE WaitFollows(runs[id], next)
    BY <1>2, CommitRunFacts
  <2>2. runs \in [RunId -> Run \cup {Nil}]
    BY DEF RunWritesHold, RunTypeOK
  <2> HIDE DEF id, next
  <2>3. QED
    BY <2>1, <2>2 DEF WaitFollows
<1>3. UNCHANGED runs \/ \E p \in RunCaller : CommitRun(p)
  BY DEF RunNext, RunStep, CreateRun, WaitRun, ResumeRun, PauseRun, ResumePaused, HoldRun, runVars
<1>4. QED
  BY <1>1, <1>2, <1>3

\* Whatever operators and events do to a run at the same time, it waits exactly
\* while it says so and every revision of it answers one call.
THEOREM RunsAreSoundAlways == RunSpec => []RunsAreSound
<1>1. RunWritesHold => RunsAreSound
  BY DEF RunWritesHold
<1>2. QED
  BY <1>1, RunInitHolds, RunNextHolds, PTL DEF RunSpec

\* Pausing and resuming by an operator keep the wait that an event will look for.
THEOREM WaitsAreConsumedByResume == RunSpec => WaitIsConsumedByResume
<1> DEFINE Kept == \A r \in RunId :
       runs[r] # Nil /\ runs[r].wait # Nil /\ runs'[r].wait # runs[r].wait
         => runs[r].status = "waiting" /\ runs'[r].status = "running" /\ runs'[r].wait = Nil
<1>1. RunWritesHold /\ [RunNext]_runVars => [Kept]_runs
  BY RunNextConsumes
<1>2. QED
  BY <1>1, RunInitHolds, RunNextHolds, PTL DEF RunSpec, WaitIsConsumedByResume

(***************************************************************************)
(* Tasks.                                                                  *)
(***************************************************************************)

\* The successor of t at instant n.
Made(t, n, status, assignee, claimant, result, escalations, escalateAt, escalatedAt, closedAt) ==
  [revision |-> t.revision + 1, run |-> t.run, runRevision |-> t.runRevision, wait |-> t.wait,
   status |-> status, assignee |-> assignee, claimant |-> claimant, result |-> result,
   escalations |-> escalations, escalateAt |-> escalateAt, expiresAt |-> t.expiresAt,
   escalatedAt |-> escalatedAt, createdAt |-> t.createdAt, updatedAt |-> n, closedAt |-> closedAt]

LEMMA MadeFacts ==
  ASSUME NEW t \in Task, NEW n, NEW status \in TaskStatus, NEW assignee \in User,
         NEW claimant \in User \cup {Nil}, NEW result \in Result \cup {Nil},
         NEW escalations \in Nat, NEW escalateAt \in Instant, NEW escalatedAt, NEW closedAt,
         n \in Nat, escalatedAt \in Instant, closedAt \in Instant
  PROVE  Made(t, n, status, assignee, claimant, result, escalations, escalateAt, escalatedAt,
              closedAt) \in Task
  BY DEF Made, Task

LEMMA TaskFields ==
  ASSUME NEW t \in Task
  PROVE  /\ t.status \in TaskStatus /\ t.assignee \in User /\ t.claimant \in User \cup {Nil}
         /\ t.result \in Result \cup {Nil} /\ t.escalations \in Nat /\ t.escalations + 1 \in Nat
         /\ t.escalateAt \in Instant /\ t.escalatedAt \in Instant /\ t.closedAt \in Instant
         /\ {"assigned", "claimed", "completed", "expired"} \subseteq TaskStatus
         /\ Nil \in Instant /\ Nat \subseteq Instant
  BY DEF Task, TaskStatus, Instant

LEMMA MadeFields ==
  ASSUME NEW t, NEW n, NEW status, NEW assignee, NEW claimant, NEW result, NEW escalations,
         NEW escalateAt, NEW escalatedAt, NEW closedAt
  PROVE  LET x == Made(t, n, status, assignee, claimant, result, escalations, escalateAt,
                       escalatedAt, closedAt) IN
           /\ x.revision = t.revision + 1 /\ x.run = t.run /\ x.runRevision = t.runRevision
           /\ x.wait = t.wait /\ x.status = status /\ x.assignee = assignee
           /\ x.claimant = claimant /\ x.result = result /\ x.escalations = escalations
           /\ x.escalateAt = escalateAt /\ x.expiresAt = t.expiresAt
           /\ x.escalatedAt = escalatedAt /\ x.createdAt = t.createdAt /\ x.updatedAt = n
           /\ x.closedAt = closedAt
  BY DEF Made

(* The records of the operations, as such successors. *)

ClaimedTask(t, n, user) ==
  [[t EXCEPT !.revision = @ + 1, !.updatedAt = n] EXCEPT !.status = "claimed", !.claimant = user]

LEMMA ClaimedMade ==
  ASSUME NEW t \in Task, NEW n, NEW user, NEW x, x = ClaimedTask(t, n, user)
  PROVE  x = Made(t, n, "claimed", t.assignee, user, t.result, t.escalations, t.escalateAt,
                  t.escalatedAt, t.closedAt)
  BY Zenon DEF Task, ClaimedTask, Made

ReleasedTask(t, n) ==
  [[t EXCEPT !.revision = @ + 1, !.updatedAt = n] EXCEPT !.status = "assigned", !.claimant = Nil]

LEMMA ReleasedMade ==
  ASSUME NEW t \in Task, NEW n, NEW x, x = ReleasedTask(t, n)
  PROVE  x = Made(t, n, "assigned", t.assignee, Nil, t.result, t.escalations, t.escalateAt,
                  t.escalatedAt, t.closedAt)
  BY Zenon DEF Task, ReleasedTask, Made

ReassignedTask(t, n, user) ==
  [[t EXCEPT !.revision = @ + 1, !.updatedAt = n] EXCEPT !.assignee = user]

LEMMA ReassignedMade ==
  ASSUME NEW t \in Task, NEW n, NEW user, NEW x, x = ReassignedTask(t, n, user)
  PROVE  x = Made(t, n, t.status, user, t.claimant, t.result, t.escalations, t.escalateAt,
                  t.escalatedAt, t.closedAt)
  BY Zenon DEF Task, ReassignedTask, Made

CompletedTask(t, n, result) ==
  [[t EXCEPT !.revision = @ + 1, !.updatedAt = n]
     EXCEPT !.status = "completed", !.result = result, !.closedAt = n]

LEMMA CompletedMade ==
  ASSUME NEW t \in Task, NEW n, NEW result, NEW x, x = CompletedTask(t, n, result)
  PROVE  x = Made(t, n, "completed", t.assignee, t.claimant, result, t.escalations, t.escalateAt,
                  t.escalatedAt, n)
  BY Zenon DEF Task, CompletedTask, Made

ExpiredTask(t, n) ==
  [[t EXCEPT !.revision = @ + 1, !.updatedAt = n]
     EXCEPT !.status = "expired", !.result = Nil, !.closedAt = n]

LEMMA ExpiredMade ==
  ASSUME NEW t \in Task, NEW n, NEW x, x = ExpiredTask(t, n)
  PROVE  x = Made(t, n, "expired", t.assignee, t.claimant, Nil, t.escalations, t.escalateAt,
                  t.escalatedAt, n)
  BY Zenon DEF Task, ExpiredTask, Made

EscalatedTask(t, n, user, escalateAt) ==
  [[t EXCEPT !.revision = @ + 1, !.updatedAt = n]
     EXCEPT !.assignee = user, !.escalations = @ + 1, !.escalateAt = escalateAt, !.escalatedAt = n]

LEMMA EscalatedMade ==
  ASSUME NEW t \in Task, NEW n, NEW user, NEW escalateAt, NEW x,
         x = EscalatedTask(t, n, user, escalateAt)
  PROVE  x = Made(t, n, t.status, user, t.claimant, t.result, t.escalations + 1, escalateAt, n,
                  t.closedAt)
  BY Zenon DEF Task, EscalatedTask, Made

(***************************************************************************)
(* What a caller holds.                                                    *)
(***************************************************************************)

\* A wait that was bound stays bound while the run goes on.
LEMMA BoundStays ==
  ASSUME NEW id, NEW t \in Task, BindsAWait(id, t), RunGrows(t.run), RunTypeOK, RunTypeOK'
  PROVE  BindsAWait(id, t)'
<1>1. t.run \in RunId /\ t.runRevision \in Nat
  BY DEF Task
<1>2. runs[t.run] # Nil => runs[t.run].revision \in Nat
  BY <1>1 DEF RunTypeOK, Run
<1>3. runs'[t.run] # Nil => runs'[t.run].revision \in Nat
  BY <1>1 DEF RunTypeOK, Run
<1>4. QED
  BY <1>1, <1>2, <1>3 DEF BindsAWait, RunGrows

\* A caller that reads and holds the record it will write.
LEMMA HoldTaskHolds ==
  ASSUME TaskWritesHold, NEW p \in Caller, NEW id \in TaskId, NEW next \in Task,
         HoldTask(p, id, next), BindsAWait(id, next), ClaimFits(next),
         next.revision > 1 =>
           /\ tasks[id] # Nil /\ tasks[id].revision = next.revision - 1
           /\ tasks[id].status \in {"assigned", "claimed"}
  PROVE  TaskWritesHold'
<1> DEFINE w == [id |-> id, next |-> next]
<1>1. TypeOK /\ RunWritesHold
  BY DEF TaskWritesHold
<1>2. w \in [id : TaskId, next : Task] /\ w.id = id /\ w.next = next
  OBVIOUS
<1>3. /\ taskCall' = [taskCall EXCEPT ![p] = w] /\ tasks' = tasks /\ taskAcks' = taskAcks
      /\ clock' = clock /\ UNCHANGED <<runs, runCall, runAcks>>
  BY DEF HoldTask, runVars
<1> HIDE DEF w
<1>4. RunWritesHold'
  BY <1>1, <1>3 DEF RunWritesHold, RunTypeOK, RunsAreSound, WaitTellsStatus,
                    OneAnswerPerRunRevision, RunWriteHolds
<1>5. TypeOK'
  BY <1>1, <1>2, <1>3, <1>4 DEF TypeOK, RunWritesHold
<1>6. ClaimantIsAssignee' /\ OneAnswerPerTaskRevision'
  BY <1>3 DEF TaskWritesHold, ClaimantIsAssignee, OneAnswerPerTaskRevision
<1>7. (\A i \in TaskId : tasks[i] # Nil => BindsAWait(i, tasks[i]))'
  BY <1>3 DEF TaskWritesHold, BindsAWait
<1>8. ASSUME NEW q \in Caller PROVE TaskWriteHolds(q)'
  <2>1. CASE q = p
    <3>1. taskCall'[q] = w
      BY <1>1, <1>3, <2>1 DEF TypeOK
    <3>2. next.revision > 1 => tasks[id].revision \in Nat
      BY <1>1 DEF TypeOK, Task
    <3>3. next.revision > 1 => next.revision - 1 <= tasks[id].revision
      BY <3>2
    <3>4. QED
      BY <1>2, <1>3, <3>1, <3>3 DEF TaskWriteHolds, BindsAWait
  <2>2. CASE q # p
    <3>1. taskCall'[q] = taskCall[q] /\ TaskWriteHolds(q)
      BY <1>1, <1>3, <2>2 DEF TypeOK, TaskWritesHold
    <3>2. QED
      BY <1>3, <3>1 DEF TaskWriteHolds, BindsAWait
  <2>3. QED
    BY <2>1, <2>2
<1>9. QED
  BY <1>4, <1>5, <1>6, <1>7, <1>8 DEF TaskWritesHold

\* An operation on an open task that keeps what it is bound to.
LEMMA AdvanceTaskHolds ==
  ASSUME TaskWritesHold, NEW p \in Caller, NEW id \in TaskId, tasks[id] # Nil,
         tasks[id].status \in {"assigned", "claimed"}, NEW next \in Task, HoldTask(p, id, next),
         next.revision = tasks[id].revision + 1, next.run = tasks[id].run,
         next.runRevision = tasks[id].runRevision, next.wait = tasks[id].wait, ClaimFits(next)
  PROVE  TaskWritesHold'
<1>1. tasks[id] \in Task
  BY DEF TaskWritesHold, TypeOK
<1>2. BindsAWait(id, next)
  BY DEF TaskWritesHold, BindsAWait
<1>3. tasks[id].revision = next.revision - 1
  BY <1>1 DEF Task
<1>4. QED
  BY <1>2, <1>3, HoldTaskHolds

\* It is readable if the task was, and is written at the time of the caller.
LEMMA HoldTaskReadable ==
  ASSUME TypeOK, RecordsAreReadable, ClocksAgree, NEW p \in Caller, NEW id \in TaskId,
         NEW next \in Task, HoldTask(p, id, next), Canonical(next), next.updatedAt = Now(p)
  PROVE  RecordsAreReadable'
<1> DEFINE w == [id |-> id, next |-> next]
<1>1. /\ taskCall' = [taskCall EXCEPT ![p] = w] /\ tasks' = tasks /\ clock' = clock /\ w.next = next
  BY DEF HoldTask
<1> HIDE DEF w
<1>2. \A q \in Caller : Now(q) \in Int /\ Now(q) = Now(p)
  BY TaskConstants DEF TypeOK, ClocksAgree, Now
<1>3. ReadableNow(next)
  BY <1>2 DEF ReadableNow
<1>4. \A t : ReadableNow(t) => ReadableNow(t)'
  BY <1>1 DEF ReadableNow, Canonical, Now
<1>5. \A q \in Caller : taskCall'[q] = IF q = p THEN w ELSE taskCall[q]
  BY <1>1 DEF TypeOK
<1>6. QED
  BY <1>1, <1>3, <1>4, <1>5 DEF RecordsAreReadable

\* What a task must be to be read again (Canonical), in two parts: the order of
\* its instants, and what its status says of the other fields.
InstantsFit(t) ==
  /\ t.createdAt <= t.updatedAt
  /\ NotAfter(t.createdAt, t.closedAt) /\ NotAfter(t.closedAt, t.updatedAt)
  /\ t.escalateAt # Nil /\ t.expiresAt # Nil => t.escalateAt < t.expiresAt
  /\ NotAfter(t.createdAt, t.escalateAt) /\ NotAfter(t.createdAt, t.expiresAt)
  /\ NotAfter(t.escalatedAt, t.updatedAt)
MarksFit(t) ==
  /\ t.escalations = 0 <=> t.escalatedAt = Nil
  /\ t.status = "assigned" => t.claimant = Nil
  /\ t.status \in {"claimed", "completed"} => t.claimant # Nil
  /\ t.status \in {"assigned", "claimed"} <=> t.closedAt = Nil
  /\ t.status # "completed" => t.result = Nil

LEMMA InstantsStayFit ==
  ASSUME NEW t \in Task, NEW n \in Nat, NEW x, InstantsFit(t), t.updatedAt <= n,
         x.createdAt = t.createdAt, x.updatedAt = n, x.expiresAt = t.expiresAt,
         x.closedAt = t.closedAt \/ x.closedAt = n,
         \/ x.escalateAt = t.escalateAt /\ x.escalatedAt = t.escalatedAt
         \/ /\ x.escalatedAt = n /\ x.escalateAt \in Instant
            /\ x.escalateAt # Nil => n < x.escalateAt
            /\ x.escalateAt # Nil /\ t.expiresAt # Nil => x.escalateAt < t.expiresAt
  PROVE  InstantsFit(x)
<1>1. /\ t.createdAt \in Nat /\ t.updatedAt \in Nat
      /\ t.escalateAt \in Nat \cup {Nil} /\ t.expiresAt \in Nat \cup {Nil}
      /\ t.escalatedAt \in Nat \cup {Nil} /\ t.closedAt \in Nat \cup {Nil}
  BY DEF Task, Instant
<1>2. QED
  BY <1>1, TaskConstants DEF InstantsFit, NotAfter, Instant

LEMMA ClaimedHolds ==
  ASSUME TaskWritesHold, NEW p \in Caller, NEW id \in TaskId, NEW user \in User,
         Claim(p, id, user)
  PROVE  TaskWritesHold' /\ (ClocksAgree /\ RecordsAreReadable => RecordsAreReadable')
<1> DEFINE t == tasks[id]
           n == Now(p)
           next == ClaimedTask(t, n, user)
<1>1. /\ Open(p, id) /\ HoldTask(p, id, next) /\ Canonical(t)
      /\ t # Nil /\ t \in Task
      /\ t.status = "assigned" /\ t.claimant = Nil /\ t.assignee = user
  BY DEF Claim, ClaimedTask, Advanced, Unclaimed, Open, Readable, TaskWritesHold, TypeOK
<1>2. /\ next = Made(t, n, "claimed", t.assignee, user, t.result, t.escalations,
                     t.escalateAt, t.escalatedAt, t.closedAt)
      /\ n \in Nat
  <2>1. next = Made(t, n, "claimed", t.assignee, user, t.result, t.escalations,
                     t.escalateAt, t.escalatedAt, t.closedAt)
    BY <1>1, ClaimedMade
  <2>2. next.updatedAt = n
    BY <2>1 DEF Made
  <2>3. n \in Int
    BY TaskConstants DEF TaskWritesHold, TypeOK, Now
  <2>4. n >= 0
    BY <1>1, <2>2 DEF HoldTask
  <2>5. QED
    BY <2>1, <2>3, <2>4
<1> HIDE DEF next, n
<1>3. /\ next \in Task /\ next.revision = t.revision + 1 /\ next.run = t.run
      /\ next.runRevision = t.runRevision /\ next.wait = t.wait /\ next.status = "claimed"
      /\ next.assignee = t.assignee /\ next.claimant = user /\ next.result = t.result
      /\ next.escalations = t.escalations /\ next.escalateAt = t.escalateAt
      /\ next.expiresAt = t.expiresAt /\ next.escalatedAt = t.escalatedAt
      /\ next.createdAt = t.createdAt /\ next.updatedAt = n /\ next.closedAt = t.closedAt
  <2>1. next \in Task
    BY <1>1, <1>2, TaskFields, MadeFacts
  <2>2. QED
    BY <1>2, <2>1 DEF Made
<1>4. ClaimFits(next)
  BY <1>1, <1>3 DEF TaskWritesHold, ClaimantIsAssignee, ClaimFits
<1>5. TaskWritesHold'
  BY <1>1, <1>3, <1>4, AdvanceTaskHolds
<1>6. ASSUME ClocksAgree, RecordsAreReadable PROVE RecordsAreReadable'
  <2>1. t.updatedAt <= n
    BY <1>1, <1>6 DEF RecordsAreReadable, ReadableNow, n
  <2>2. InstantsFit(t) /\ MarksFit(t)
    BY <1>1 DEF Canonical, InstantsFit, MarksFit
  <2>3. InstantsFit(next)
    BY <1>1, <1>2, <1>3, <2>1, <2>2, InstantsStayFit
  <2>4. MarksFit(next)
    BY <1>1, <1>2, <1>3, <2>2, TaskFields, TaskConstants DEF MarksFit
  <2>5. Canonical(next)
    BY <2>3, <2>4 DEF Canonical, InstantsFit, MarksFit
  <2>6. QED
    BY <1>1, <1>3, <1>6, <2>5, HoldTaskReadable DEF n, TaskWritesHold
<1>7. QED
  BY <1>5, <1>6

LEMMA ReleasedHolds ==
  ASSUME TaskWritesHold, NEW p \in Caller, NEW id \in TaskId, NEW user \in User,
         Release(p, id, user)
  PROVE  TaskWritesHold' /\ (ClocksAgree /\ RecordsAreReadable => RecordsAreReadable')
<1> DEFINE t == tasks[id]
           n == Now(p)
           next == ReleasedTask(t, n)
<1>1. /\ Open(p, id) /\ HoldTask(p, id, next) /\ Canonical(t)
      /\ t # Nil /\ t \in Task
      /\ t.status = "claimed" /\ t.claimant = user
  BY DEF Release, ReleasedTask, Advanced, ClaimedBy, Open, Readable, TaskWritesHold, TypeOK
<1>2. /\ next = Made(t, n, "assigned", t.assignee, Nil, t.result, t.escalations,
                     t.escalateAt, t.escalatedAt, t.closedAt)
      /\ n \in Nat
  <2>1. next = Made(t, n, "assigned", t.assignee, Nil, t.result, t.escalations,
                     t.escalateAt, t.escalatedAt, t.closedAt)
    BY <1>1, ReleasedMade
  <2>2. next.updatedAt = n
    BY <2>1 DEF Made
  <2>3. n \in Int
    BY TaskConstants DEF TaskWritesHold, TypeOK, Now
  <2>4. n >= 0
    BY <1>1, <2>2 DEF HoldTask
  <2>5. QED
    BY <2>1, <2>3, <2>4
<1> HIDE DEF next, n
<1>3. /\ next \in Task /\ next.revision = t.revision + 1 /\ next.run = t.run
      /\ next.runRevision = t.runRevision /\ next.wait = t.wait /\ next.status = "assigned"
      /\ next.assignee = t.assignee /\ next.claimant = Nil /\ next.result = t.result
      /\ next.escalations = t.escalations /\ next.escalateAt = t.escalateAt
      /\ next.expiresAt = t.expiresAt /\ next.escalatedAt = t.escalatedAt
      /\ next.createdAt = t.createdAt /\ next.updatedAt = n /\ next.closedAt = t.closedAt
  <2>1. next \in Task
    BY <1>1, <1>2, TaskFields, MadeFacts
  <2>2. QED
    BY <1>2, <2>1 DEF Made
<1>4. ClaimFits(next)
  BY <1>1, <1>3 DEF TaskWritesHold, ClaimantIsAssignee, ClaimFits
<1>5. TaskWritesHold'
  BY <1>1, <1>3, <1>4, AdvanceTaskHolds
<1>6. ASSUME ClocksAgree, RecordsAreReadable PROVE RecordsAreReadable'
  <2>1. t.updatedAt <= n
    BY <1>1, <1>6 DEF RecordsAreReadable, ReadableNow, n
  <2>2. InstantsFit(t) /\ MarksFit(t)
    BY <1>1 DEF Canonical, InstantsFit, MarksFit
  <2>3. InstantsFit(next)
    BY <1>1, <1>2, <1>3, <2>1, <2>2, InstantsStayFit
  <2>4. MarksFit(next)
    BY <1>1, <1>2, <1>3, <2>2, TaskFields, TaskConstants DEF MarksFit
  <2>5. Canonical(next)
    BY <2>3, <2>4 DEF Canonical, InstantsFit, MarksFit
  <2>6. QED
    BY <1>1, <1>3, <1>6, <2>5, HoldTaskReadable DEF n, TaskWritesHold
<1>7. QED
  BY <1>5, <1>6

LEMMA ReassignedHolds ==
  ASSUME TaskWritesHold, NEW p \in Caller, NEW id \in TaskId, NEW user \in User,
         Reassign(p, id, user)
  PROVE  TaskWritesHold' /\ (ClocksAgree /\ RecordsAreReadable => RecordsAreReadable')
<1> DEFINE t == tasks[id]
           n == Now(p)
           next == ReassignedTask(t, n, user)
<1>1. /\ Open(p, id) /\ HoldTask(p, id, next) /\ Canonical(t)
      /\ t # Nil /\ t \in Task
      /\ t.status = "assigned" /\ t.claimant = Nil
  BY DEF Reassign, ReassignedTask, Advanced, Unclaimed, Open, Readable, TaskWritesHold, TypeOK
<1>2. /\ next = Made(t, n, t.status, user, t.claimant, t.result, t.escalations,
                     t.escalateAt, t.escalatedAt, t.closedAt)
      /\ n \in Nat
  <2>1. next = Made(t, n, t.status, user, t.claimant, t.result, t.escalations,
                     t.escalateAt, t.escalatedAt, t.closedAt)
    BY <1>1, ReassignedMade
  <2>2. next.updatedAt = n
    BY <2>1 DEF Made
  <2>3. n \in Int
    BY TaskConstants DEF TaskWritesHold, TypeOK, Now
  <2>4. n >= 0
    BY <1>1, <2>2 DEF HoldTask
  <2>5. QED
    BY <2>1, <2>3, <2>4
<1> HIDE DEF next, n
<1>3. /\ next \in Task /\ next.revision = t.revision + 1 /\ next.run = t.run
      /\ next.runRevision = t.runRevision /\ next.wait = t.wait /\ next.status = t.status
      /\ next.assignee = user /\ next.claimant = t.claimant /\ next.result = t.result
      /\ next.escalations = t.escalations /\ next.escalateAt = t.escalateAt
      /\ next.expiresAt = t.expiresAt /\ next.escalatedAt = t.escalatedAt
      /\ next.createdAt = t.createdAt /\ next.updatedAt = n /\ next.closedAt = t.closedAt
  <2>1. next \in Task
    BY <1>1, <1>2, TaskFields, MadeFacts
  <2>2. QED
    BY <1>2, <2>1 DEF Made
<1>4. ClaimFits(next)
  BY <1>1, <1>3 DEF TaskWritesHold, ClaimantIsAssignee, ClaimFits
<1>5. TaskWritesHold'
  BY <1>1, <1>3, <1>4, AdvanceTaskHolds
<1>6. ASSUME ClocksAgree, RecordsAreReadable PROVE RecordsAreReadable'
  <2>1. t.updatedAt <= n
    BY <1>1, <1>6 DEF RecordsAreReadable, ReadableNow, n
  <2>2. InstantsFit(t) /\ MarksFit(t)
    BY <1>1 DEF Canonical, InstantsFit, MarksFit
  <2>3. InstantsFit(next)
    BY <1>1, <1>2, <1>3, <2>1, <2>2, InstantsStayFit
  <2>4. MarksFit(next)
    BY <1>1, <1>2, <1>3, <2>2, TaskFields, TaskConstants DEF MarksFit
  <2>5. Canonical(next)
    BY <2>3, <2>4 DEF Canonical, InstantsFit, MarksFit
  <2>6. QED
    BY <1>1, <1>3, <1>6, <2>5, HoldTaskReadable DEF n, TaskWritesHold
<1>7. QED
  BY <1>5, <1>6

LEMMA CompletedHolds ==
  ASSUME TaskWritesHold, NEW p \in Caller, NEW id \in TaskId, NEW user \in User, NEW result \in Result,
         Complete(p, id, user, result)
  PROVE  TaskWritesHold' /\ (ClocksAgree /\ RecordsAreReadable => RecordsAreReadable')
<1> DEFINE t == tasks[id]
           n == Now(p)
           next == CompletedTask(t, n, result)
<1>1. /\ Open(p, id) /\ HoldTask(p, id, next) /\ Canonical(t)
      /\ t # Nil /\ t \in Task
      /\ t.status = "claimed" /\ t.claimant = user
  BY DEF Complete, CompletedTask, Advanced, ClaimedBy, Open, Readable, TaskWritesHold, TypeOK
<1>2. /\ next = Made(t, n, "completed", t.assignee, t.claimant, result, t.escalations,
                     t.escalateAt, t.escalatedAt, n)
      /\ n \in Nat
  <2>1. next = Made(t, n, "completed", t.assignee, t.claimant, result, t.escalations,
                     t.escalateAt, t.escalatedAt, n)
    BY <1>1, CompletedMade
  <2>2. next.updatedAt = n
    BY <2>1 DEF Made
  <2>3. n \in Int
    BY TaskConstants DEF TaskWritesHold, TypeOK, Now
  <2>4. n >= 0
    BY <1>1, <2>2 DEF HoldTask
  <2>5. QED
    BY <2>1, <2>3, <2>4
<1> HIDE DEF next, n
<1>3. /\ next \in Task /\ next.revision = t.revision + 1 /\ next.run = t.run
      /\ next.runRevision = t.runRevision /\ next.wait = t.wait /\ next.status = "completed"
      /\ next.assignee = t.assignee /\ next.claimant = t.claimant /\ next.result = result
      /\ next.escalations = t.escalations /\ next.escalateAt = t.escalateAt
      /\ next.expiresAt = t.expiresAt /\ next.escalatedAt = t.escalatedAt
      /\ next.createdAt = t.createdAt /\ next.updatedAt = n /\ next.closedAt = n
  <2>1. next \in Task
    BY <1>1, <1>2, TaskFields, MadeFacts
  <2>2. QED
    BY <1>2, <2>1 DEF Made
<1>4. ClaimFits(next)
  BY <1>1, <1>3 DEF TaskWritesHold, ClaimantIsAssignee, ClaimFits
<1>5. TaskWritesHold'
  BY <1>1, <1>3, <1>4, AdvanceTaskHolds
<1>6. ASSUME ClocksAgree, RecordsAreReadable PROVE RecordsAreReadable'
  <2>1. t.updatedAt <= n
    BY <1>1, <1>6 DEF RecordsAreReadable, ReadableNow, n
  <2>2. InstantsFit(t) /\ MarksFit(t)
    BY <1>1 DEF Canonical, InstantsFit, MarksFit
  <2>3. InstantsFit(next)
    BY <1>1, <1>2, <1>3, <2>1, <2>2, InstantsStayFit
  <2>4. MarksFit(next)
    BY <1>1, <1>2, <1>3, <2>2, TaskFields, TaskConstants DEF MarksFit
  <2>5. Canonical(next)
    BY <2>3, <2>4 DEF Canonical, InstantsFit, MarksFit
  <2>6. QED
    BY <1>1, <1>3, <1>6, <2>5, HoldTaskReadable DEF n, TaskWritesHold
<1>7. QED
  BY <1>5, <1>6

LEMMA ExpiredHolds ==
  ASSUME TaskWritesHold, NEW p \in Caller, NEW id \in TaskId,
         Expire(p, id)
  PROVE  TaskWritesHold' /\ (ClocksAgree /\ RecordsAreReadable => RecordsAreReadable')
<1> DEFINE t == tasks[id]
           n == Now(p)
           next == ExpiredTask(t, n)
<1>1. /\ Open(p, id) /\ HoldTask(p, id, next) /\ Canonical(t)
      /\ t # Nil /\ t \in Task
      /\ t.status \in {"assigned", "claimed"}
  BY DEF Expire, ExpiredTask, Advanced, Open, Readable, TaskWritesHold, TypeOK
<1>2. /\ next = Made(t, n, "expired", t.assignee, t.claimant, Nil, t.escalations,
                     t.escalateAt, t.escalatedAt, n)
      /\ n \in Nat
  <2>1. next = Made(t, n, "expired", t.assignee, t.claimant, Nil, t.escalations,
                     t.escalateAt, t.escalatedAt, n)
    BY <1>1, ExpiredMade
  <2>2. next.updatedAt = n
    BY <2>1 DEF Made
  <2>3. n \in Int
    BY TaskConstants DEF TaskWritesHold, TypeOK, Now
  <2>4. n >= 0
    BY <1>1, <2>2 DEF HoldTask
  <2>5. QED
    BY <2>1, <2>3, <2>4
<1> HIDE DEF next, n
<1>3. /\ next \in Task /\ next.revision = t.revision + 1 /\ next.run = t.run
      /\ next.runRevision = t.runRevision /\ next.wait = t.wait /\ next.status = "expired"
      /\ next.assignee = t.assignee /\ next.claimant = t.claimant /\ next.result = Nil
      /\ next.escalations = t.escalations /\ next.escalateAt = t.escalateAt
      /\ next.expiresAt = t.expiresAt /\ next.escalatedAt = t.escalatedAt
      /\ next.createdAt = t.createdAt /\ next.updatedAt = n /\ next.closedAt = n
  <2>1. next \in Task
    BY <1>1, <1>2, TaskFields, MadeFacts
  <2>2. QED
    BY <1>2, <2>1 DEF Made
<1>4. ClaimFits(next)
  BY <1>1, <1>3 DEF TaskWritesHold, ClaimantIsAssignee, ClaimFits
<1>5. TaskWritesHold'
  BY <1>1, <1>3, <1>4, AdvanceTaskHolds
<1>6. ASSUME ClocksAgree, RecordsAreReadable PROVE RecordsAreReadable'
  <2>1. t.updatedAt <= n
    BY <1>1, <1>6 DEF RecordsAreReadable, ReadableNow, n
  <2>2. InstantsFit(t) /\ MarksFit(t)
    BY <1>1 DEF Canonical, InstantsFit, MarksFit
  <2>3. InstantsFit(next)
    BY <1>1, <1>2, <1>3, <2>1, <2>2, InstantsStayFit
  <2>4. MarksFit(next)
    BY <1>1, <1>2, <1>3, <2>2, TaskFields, TaskConstants DEF MarksFit
  <2>5. Canonical(next)
    BY <2>3, <2>4 DEF Canonical, InstantsFit, MarksFit
  <2>6. QED
    BY <1>1, <1>3, <1>6, <2>5, HoldTaskReadable DEF n, TaskWritesHold
<1>7. QED
  BY <1>5, <1>6

LEMMA EscalatedHolds ==
  ASSUME TaskWritesHold, NEW p \in Caller, NEW id \in TaskId, NEW user \in User, NEW escalateAt \in Instant,
         Escalate(p, id, user, escalateAt)
  PROVE  TaskWritesHold' /\ (ClocksAgree /\ RecordsAreReadable => RecordsAreReadable')
<1> DEFINE t == tasks[id]
           n == Now(p)
           next == EscalatedTask(t, n, user, escalateAt)
<1>1. /\ Open(p, id) /\ HoldTask(p, id, next) /\ Canonical(t)
      /\ t # Nil /\ t \in Task
      /\ t.status = "assigned" /\ t.claimant = Nil
      /\ escalateAt # Nil => n < escalateAt
      /\ escalateAt # Nil /\ t.expiresAt # Nil => escalateAt < t.expiresAt
  BY DEF Escalate, EscalatedTask, Advanced, Unclaimed, Open, Readable, TaskWritesHold, TypeOK
<1>2. /\ next = Made(t, n, t.status, user, t.claimant, t.result, t.escalations + 1,
                     escalateAt, n, t.closedAt)
      /\ n \in Nat
  <2>1. next = Made(t, n, t.status, user, t.claimant, t.result, t.escalations + 1,
                     escalateAt, n, t.closedAt)
    BY <1>1, EscalatedMade
  <2>2. next.updatedAt = n
    BY <2>1 DEF Made
  <2>3. n \in Int
    BY TaskConstants DEF TaskWritesHold, TypeOK, Now
  <2>4. n >= 0
    BY <1>1, <2>2 DEF HoldTask
  <2>5. QED
    BY <2>1, <2>3, <2>4
<1> HIDE DEF next, n
<1>3. /\ next \in Task /\ next.revision = t.revision + 1 /\ next.run = t.run
      /\ next.runRevision = t.runRevision /\ next.wait = t.wait /\ next.status = t.status
      /\ next.assignee = user /\ next.claimant = t.claimant /\ next.result = t.result
      /\ next.escalations = t.escalations + 1 /\ next.escalateAt = escalateAt
      /\ next.expiresAt = t.expiresAt /\ next.escalatedAt = n
      /\ next.createdAt = t.createdAt /\ next.updatedAt = n /\ next.closedAt = t.closedAt
  <2>1. next \in Task
    BY <1>1, <1>2, TaskFields, MadeFacts
  <2>2. QED
    BY <1>2, <2>1 DEF Made
<1>4. ClaimFits(next)
  BY <1>1, <1>3 DEF TaskWritesHold, ClaimantIsAssignee, ClaimFits
<1>5. TaskWritesHold'
  BY <1>1, <1>3, <1>4, AdvanceTaskHolds
<1>6. ASSUME ClocksAgree, RecordsAreReadable PROVE RecordsAreReadable'
  <2>1. t.updatedAt <= n
    BY <1>1, <1>6 DEF RecordsAreReadable, ReadableNow, n
  <2>2. InstantsFit(t) /\ MarksFit(t)
    BY <1>1 DEF Canonical, InstantsFit, MarksFit
  <2>3. InstantsFit(next)
    BY <1>1, <1>2, <1>3, <2>1, <2>2, InstantsStayFit
  <2>4. MarksFit(next)
    BY <1>1, <1>2, <1>3, <2>2, TaskFields, TaskConstants DEF MarksFit
  <2>5. Canonical(next)
    BY <2>3, <2>4 DEF Canonical, InstantsFit, MarksFit
  <2>6. QED
    BY <1>1, <1>3, <1>6, <2>5, HoldTaskReadable DEF n, TaskWritesHold
<1>7. QED
  BY <1>5, <1>6

\* An assignment binds the wait that it reads.
LEMMA AssignHolds ==
  ASSUME TaskWritesHold, NEW p \in Caller, NEW id \in TaskId, NEW r \in RunId,
         NEW user \in User, NEW due \in Timing, Assign(p, id, r, user, due)
  PROVE  TaskWritesHold' /\ (ClocksAgree /\ RecordsAreReadable => RecordsAreReadable')
<1> DEFINE n == Now(p)
           next == [revision |-> 1, run |-> r, runRevision |-> runs[r].revision,
                    wait |-> runs[r].wait.id, status |-> "assigned", assignee |-> user,
                    claimant |-> Nil, result |-> Nil, escalations |-> 0,
                    escalateAt |-> due.escalateAt, expiresAt |-> due.expiresAt,
                    escalatedAt |-> Nil, createdAt |-> n, updatedAt |-> n, closedAt |-> Nil]
<1>1. /\ HoldTask(p, id, next) /\ runs[r] # Nil
      /\ runs[r].status = "waiting" /\ runs[r].wait # Nil /\ runs[r].wait.reference = id
      /\ NotAfter(n, due.escalateAt) /\ NotAfter(n, due.expiresAt)
      /\ due.escalateAt # Nil /\ due.expiresAt # Nil => due.escalateAt < due.expiresAt
  BY DEF Assign
<1>2. /\ next.revision = 1 /\ next.run = r /\ next.runRevision = runs[r].revision
      /\ next.wait = runs[r].wait.id /\ next.status = "assigned" /\ next.claimant = Nil
      /\ next.result = Nil /\ next.escalations = 0 /\ next.escalateAt = due.escalateAt
      /\ next.expiresAt = due.expiresAt /\ next.escalatedAt = Nil /\ next.createdAt = n
      /\ next.updatedAt = n /\ next.closedAt = Nil
  OBVIOUS
<1>3. n \in Nat
  <2>1. n \in Int
    BY TaskConstants DEF TaskWritesHold, TypeOK, Now
  <2>2. n >= 0
    BY <1>1, <1>2 DEF HoldTask
  <2>3. QED
    BY <2>1, <2>2
<1>4. due.escalateAt \in Instant /\ due.expiresAt \in Instant
  BY TaskConstants DEF Instant
<1>5. next \in Task
  <2>1. runs[r].revision \in Nat \ {0} /\ runs[r].wait \in Wait
    BY <1>1 DEF TaskWritesHold, TypeOK, RunTypeOK, Run
  <2>2. runs[r].wait.id \in {w.id : w \in Wait} /\ Nil \in Instant /\ "assigned" \in TaskStatus
    BY <2>1 DEF Instant, TaskStatus
  <2> HIDE DEF n
  <2>3. QED
    BY <1>3, <1>4, <2>1, <2>2 DEF Task
<1> HIDE DEF next, n
<1>6. BindsAWait(id, next)
  <2>1. runs[r].revision \in Nat
    BY <1>1 DEF TaskWritesHold, TypeOK, RunTypeOK, Run
  <2>2. QED
    BY <1>1, <1>2, <2>1 DEF BindsAWait
<1>7. TaskWritesHold'
  BY <1>1, <1>2, <1>5, <1>6, HoldTaskHolds DEF ClaimFits
<1>8. ASSUME ClocksAgree, RecordsAreReadable PROVE RecordsAreReadable'
  <2>1. Canonical(next)
    BY <1>1, <1>2, <1>3 DEF Canonical, NotAfter
  <2>2. QED
    BY <1>1, <1>2, <1>5, <1>8, <2>1, HoldTaskReadable DEF n, TaskWritesHold
<1>9. QED
  BY <1>7, <1>8

\* What the transaction of the store does to a task.
LEMMA CommitTaskFacts ==
  ASSUME TaskWritesHold, NEW p \in Caller, CommitTask(p)
  PROVE  LET id == taskCall[p].id next == taskCall[p].next IN
           /\ id \in TaskId /\ next \in Task /\ BindsAWait(id, next) /\ ClaimFits(next)
           /\ \A q \in Caller : taskCall'[q] = IF q = p THEN Nil ELSE taskCall[q]
           /\ \/ tasks' = tasks /\ taskAcks' = taskAcks
              \/ /\ tasks' = [tasks EXCEPT ![id] = next]
                 /\ taskAcks' = [taskAcks EXCEPT ![id] = @ + 1]
                 /\ IF next.revision = 1 THEN tasks[id] = Nil
                    ELSE /\ tasks[id] # Nil /\ tasks[id].revision = next.revision - 1
                         /\ tasks[id].status \in {"assigned", "claimed"}
<1> DEFINE id == taskCall[p].id
           next == taskCall[p].next
<1>1. TypeOK /\ taskCall[p] # Nil /\ TaskWriteHolds(p)
  BY DEF TaskWritesHold, CommitTask
<1>2. id \in TaskId /\ next \in Task /\ tasks \in [TaskId -> Task \cup {Nil}]
  BY <1>1 DEF TypeOK
<1>3. BindsAWait(id, next) /\ ClaimFits(next)
  BY <1>1 DEF TaskWriteHolds
<1>4. \A q \in Caller : taskCall'[q] = IF q = p THEN Nil ELSE taskCall[q]
  BY <1>1 DEF CommitTask, TypeOK
<1>5. /\ tasks' = Stored(tasks, id, next)
      /\ taskAcks' = IF Accepts(tasks, id, next) THEN [taskAcks EXCEPT ![id] = @ + 1] ELSE taskAcks
  BY DEF CommitTask
<1>6. next.revision # 1 => next.revision > 1
  BY <1>2 DEF Task
<1>7. /\ next.revision # 1 /\ tasks[id] # Nil /\ tasks[id].revision = next.revision - 1
      => tasks[id].status \in {"assigned", "claimed"}
  BY <1>1, <1>6 DEF TaskWriteHolds
<1> HIDE DEF id, next
<1>8. \/ tasks' = tasks /\ taskAcks' = taskAcks
      \/ /\ tasks' = [tasks EXCEPT ![id] = next] /\ taskAcks' = [taskAcks EXCEPT ![id] = @ + 1]
         /\ IF next.revision = 1 THEN tasks[id] = Nil
            ELSE /\ tasks[id] # Nil /\ tasks[id].revision = next.revision - 1
                 /\ tasks[id].status \in {"assigned", "claimed"}
  <2>1. \/ /\ Accepts(tasks, id, next)
           /\ Stored(tasks, id, next) = [tasks EXCEPT ![id] = next]
           /\ IF next.revision = 1 THEN tasks[id] = Nil
              ELSE tasks[id] # Nil /\ tasks[id].revision = next.revision - 1
        \/ ~Accepts(tasks, id, next) /\ Stored(tasks, id, next) = tasks
    BY <1>2, StoredFacts
  <2>2. QED
    BY <1>5, <1>7, <2>1
<1>9. QED
  BY <1>2, <1>3, <1>4, <1>8 DEF id, next

LEMMA CommitTaskHolds ==
  ASSUME TaskWritesHold, NEW p \in Caller, CommitTask(p)
  PROVE  TaskWritesHold' /\ (ClocksAgree /\ RecordsAreReadable => RecordsAreReadable')
<1> DEFINE id == taskCall[p].id
           next == taskCall[p].next
<1>1. /\ TypeOK /\ RunWritesHold /\ Nil \notin Task /\ taskCall[p] # Nil
      /\ tasks \in [TaskId -> Task \cup {Nil}] /\ taskAcks \in [TaskId -> Nat]
      /\ clock' = clock /\ runs' = runs /\ runCall' = runCall /\ runAcks' = runAcks
  BY TaskAssumption DEF TaskWritesHold, TypeOK, CommitTask, runVars
<1>2. /\ id \in TaskId /\ next \in Task /\ BindsAWait(id, next) /\ ClaimFits(next)
      /\ \A q \in Caller : taskCall'[q] = IF q = p THEN Nil ELSE taskCall[q]
      /\ \/ tasks' = tasks /\ taskAcks' = taskAcks
         \/ /\ tasks' = [tasks EXCEPT ![id] = next] /\ taskAcks' = [taskAcks EXCEPT ![id] = @ + 1]
            /\ IF next.revision = 1 THEN tasks[id] = Nil
               ELSE tasks[id] # Nil /\ tasks[id].revision = next.revision - 1
  BY CommitTaskFacts
<1>3. ASSUME ClocksAgree, RecordsAreReadable PROVE RecordsAreReadable'
  <2>1. ReadableNow(next)
    BY <1>1, <1>3 DEF RecordsAreReadable
  <2>2. \A t : ReadableNow(t) => ReadableNow(t)'
    BY <1>1 DEF ReadableNow, Canonical, Now
  <2> HIDE DEF id, next
  <2>3. \A i \in TaskId : tasks'[i] = tasks[i] \/ tasks'[i] = next
    BY <1>1, <1>2
  <2>4. (\A i \in TaskId : tasks[i] # Nil => ReadableNow(tasks[i]))'
    <3>1. ASSUME NEW i \in TaskId, tasks'[i] # Nil PROVE ReadableNow(tasks'[i])
      BY <1>3, <2>1, <2>3, <3>1 DEF RecordsAreReadable
    <3>2. QED
      BY <1>1, <3>1 DEF ReadableNow, Canonical, Now
  <2>5. (\A q \in Caller : taskCall[q] # Nil => ReadableNow(taskCall[q].next))'
    BY <1>2, <1>3, <2>2 DEF RecordsAreReadable
  <2>6. QED
    BY <2>4, <2>5 DEF RecordsAreReadable
<1> HIDE DEF id, next
<1>4. RunWritesHold'
  BY <1>1 DEF RunWritesHold, RunTypeOK, RunsAreSound, WaitTellsStatus, OneAnswerPerRunRevision,
              RunWriteHolds
<1>5. TypeOK'
  <2>1. taskCall' \in [Caller -> [id : TaskId, next : Task] \cup {Nil}]
    BY <1>1 DEF TypeOK, CommitTask
  <2>2. QED
    BY <1>1, <1>2, <1>4, <2>1 DEF TypeOK, RunWritesHold
<1>6. ClaimantIsAssignee'
  BY <1>1, <1>2 DEF TaskWritesHold, ClaimantIsAssignee, ClaimFits
<1>7. OneAnswerPerTaskRevision'
  <2>1. ASSUME NEW i \in TaskId PROVE taskAcks'[i] = IF tasks'[i] = Nil THEN 0 ELSE tasks'[i].revision
    <3>1. taskAcks[i] = IF tasks[i] = Nil THEN 0 ELSE tasks[i].revision
      BY DEF TaskWritesHold, OneAnswerPerTaskRevision
    <3>2. CASE i = id
      BY <1>1, <1>2, <3>1, <3>2 DEF Task
    <3>3. CASE i # id
      BY <1>1, <1>2, <3>1, <3>3
    <3>4. QED
      BY <3>2, <3>3
  <2>2. QED
    BY <2>1 DEF OneAnswerPerTaskRevision
<1>8. ASSUME NEW i \in TaskId, tasks'[i] # Nil PROVE BindsAWait(i, tasks'[i])
  BY <1>1, <1>2, <1>8 DEF TaskWritesHold
<1>9. ASSUME NEW q \in Caller PROVE TaskWriteHolds(q)'
  <2>1. CASE q = p
    BY <1>2, <2>1 DEF TaskWriteHolds
  <2>2. CASE q # p /\ taskCall[q] = Nil
    BY <1>2, <2>2 DEF TaskWriteHolds
  <2>3. CASE q # p /\ taskCall[q] # Nil
    <3> DEFINE i == taskCall[q].id
               rec == taskCall[q].next
    <3>1. taskCall'[q] = taskCall[q] /\ TaskWriteHolds(q) /\ i \in TaskId /\ rec \in Task
      BY <1>1, <1>2, <2>3 DEF TaskWritesHold, TypeOK
    <3>2. /\ BindsAWait(i, rec) /\ ClaimFits(rec)
          /\ rec.revision > 1 =>
               /\ tasks[i] # Nil /\ rec.revision - 1 <= tasks[i].revision
               /\ tasks[i].revision = rec.revision - 1 => tasks[i].status \in {"assigned", "claimed"}
      BY <2>3, <3>1 DEF TaskWriteHolds
    <3> HIDE DEF i, rec
    <3>3. rec.revision > 1 =>
            /\ tasks'[i] # Nil /\ rec.revision - 1 <= tasks'[i].revision
            /\ tasks'[i].revision = rec.revision - 1 => tasks'[i].status \in {"assigned", "claimed"}
      <4>1. CASE tasks'[i] = tasks[i]
        BY <3>2, <4>1
      <4>2. CASE tasks'[i] # tasks[i]
        <5>1. i = id /\ tasks'[i] = next /\ (tasks[i] # Nil => tasks[i].revision = next.revision - 1)
          BY <1>1, <1>2, <3>1, <4>2
        <5>2. next # Nil /\ next.revision \in Nat /\ rec.revision \in Nat
          BY <1>1, <1>2, <3>1 DEF Task
        <5>3. QED
          BY <3>2, <5>1, <5>2
      <4>3. QED
        BY <4>1, <4>2
    <3>4. QED
      BY <1>1, <2>3, <3>1, <3>2, <3>3 DEF TaskWriteHolds, BindsAWait, i, rec
  <2>4. QED
    BY <2>1, <2>2, <2>3
<1>10. (\A i \in TaskId : tasks[i] # Nil => BindsAWait(i, tasks[i]))'
  BY <1>1, <1>8 DEF BindsAWait
<1>11. TaskWritesHold'
  BY <1>4, <1>5, <1>6, <1>7, <1>9, <1>10 DEF TaskWritesHold
<1>12. QED
  BY <1>3, <1>11

(***************************************************************************)
(* The steps that leave the tasks alone.                                   *)
(***************************************************************************)

\* What was not of the future is not of the future later on.
LEMMA TickHolds ==
  ASSUME TaskWritesHold, Tick
  PROVE  TaskWritesHold' /\ (RecordsAreReadable => RecordsAreReadable')
<1>1. /\ TypeOK /\ RunWritesHold /\ clock' = clock + 1 /\ clock < MaxTime
      /\ tasks' = tasks /\ taskCall' = taskCall /\ taskAcks' = taskAcks
      /\ runs' = runs /\ runCall' = runCall /\ runAcks' = runAcks
  BY DEF TaskWritesHold, Tick, runVars
<1>2. RunWritesHold'
  BY <1>1 DEF RunWritesHold, RunTypeOK, RunsAreSound, WaitTellsStatus, OneAnswerPerRunRevision,
              RunWriteHolds
<1>3. TypeOK'
  <2>1. clock' \in 0..MaxTime
    BY <1>1, TaskConstants DEF TypeOK
  <2>2. QED
    BY <1>1, <1>2, <2>1 DEF TypeOK, RunWritesHold
<1>4. TaskWritesHold'
  BY <1>1, <1>2, <1>3 DEF TaskWritesHold, ClaimantIsAssignee, OneAnswerPerTaskRevision, BindsAWait,
                          TaskWriteHolds
<1>5. ASSUME NEW t \in Task, ReadableNow(t)
      PROVE  Canonical(t) /\ \A p \in Caller : t.updatedAt <= clock' + Skew[p]
  <2>1. t.updatedAt \in Nat /\ clock \in Int
    BY <1>1 DEF Task, TypeOK
  <2>2. ASSUME NEW p \in Caller PROVE t.updatedAt <= clock' + Skew[p]
    <3>1. Skew[p] \in Int
      BY TaskConstants
    <3>2. t.updatedAt <= clock + Skew[p]
      BY <1>5 DEF ReadableNow, Now
    <3>3. QED
      BY <1>1, <2>1, <3>1, <3>2
  <2>3. QED
    BY <1>5, <2>2 DEF ReadableNow
<1>6. ASSUME RecordsAreReadable PROVE RecordsAreReadable'
  <2>1. \A id \in TaskId : tasks[id] # Nil => tasks[id] \in Task /\ ReadableNow(tasks[id])
    BY <1>1, <1>6 DEF TypeOK, RecordsAreReadable
  <2>2. \A p \in Caller : taskCall[p] # Nil =>
          taskCall[p].next \in Task /\ ReadableNow(taskCall[p].next)
    BY <1>1, <1>6 DEF TypeOK, RecordsAreReadable
  <2>3. (\A id \in TaskId : tasks[id] # Nil => ReadableNow(tasks[id]))'
    BY <1>1, <1>5, <2>1 DEF ReadableNow, Now, Canonical
  <2>4. (\A p \in Caller : taskCall[p] # Nil => ReadableNow(taskCall[p].next))'
    BY <1>1, <1>5, <2>2 DEF ReadableNow, Now, Canonical
  <2>5. QED
    BY <2>3, <2>4 DEF RecordsAreReadable
<1>7. QED
  BY <1>4, <1>6

\* A run goes on while a task of it is assigned, claimed or about to be written.
LEMMA RunStepHolds ==
  ASSUME TaskWritesHold, [RunNext]_runVars, UNCHANGED taskVars
  PROVE  TaskWritesHold' /\ (RecordsAreReadable => RecordsAreReadable')
<1>1. /\ TypeOK /\ RunWritesHold /\ RunWritesHold' /\ clock' = clock
      /\ tasks' = tasks /\ taskCall' = taskCall /\ taskAcks' = taskAcks
  BY RunNextHolds DEF TaskWritesHold, taskVars
<1>2. RunTypeOK /\ RunTypeOK'
  BY <1>1 DEF RunWritesHold
<1>3. TypeOK'
  BY <1>1, <1>2 DEF TypeOK
<1>4. ASSUME NEW id, NEW t \in Task, BindsAWait(id, t) PROVE BindsAWait(id, t)'
  <2>1. RunGrows(t.run)
    BY <1>1, RunNextGrows DEF Task
  <2>2. QED
    BY <1>2, <1>4, <2>1, BoundStays
<1>5. ClaimantIsAssignee' /\ OneAnswerPerTaskRevision'
  BY <1>1 DEF TaskWritesHold, ClaimantIsAssignee, OneAnswerPerTaskRevision
<1>6. (\A id \in TaskId : tasks[id] # Nil => BindsAWait(id, tasks[id]))'
  <2>1. ASSUME NEW id \in TaskId, tasks[id] # Nil PROVE BindsAWait(id, tasks[id])'
    <3>1. tasks[id] \in Task /\ BindsAWait(id, tasks[id])
      BY <1>1, <2>1 DEF TypeOK, TaskWritesHold
    <3> DEFINE t == tasks[id]
    <3>2. ASSUME NEW u \in Task, u = t PROVE BindsAWait(id, u)'
      BY <1>4, <3>1, <3>2
    <3>3. QED
      BY <1>1, <3>1, <3>2 DEF BindsAWait
  <2>2. QED
    BY <1>1, <2>1
<1>7. ASSUME NEW p \in Caller PROVE TaskWriteHolds(p)'
  <2>1. CASE taskCall[p] = Nil
    BY <1>1, <2>1 DEF TaskWriteHolds
  <2>2. CASE taskCall[p] # Nil
    <3>1. TaskWriteHolds(p) /\ taskCall[p].id \in TaskId /\ taskCall[p].next \in Task
      BY <1>1, <2>2 DEF TypeOK, TaskWritesHold
    <3>2. BindsAWait(taskCall[p].id, taskCall[p].next)
      BY <2>2, <3>1 DEF TaskWriteHolds
    <3>3. ASSUME NEW i, NEW u \in Task, i = taskCall[p].id, u = taskCall[p].next
          PROVE  BindsAWait(i, u)'
      BY <1>4, <3>2, <3>3
    <3>4. QED
      BY <1>1, <2>2, <3>1, <3>3 DEF TaskWriteHolds, BindsAWait
  <2>3. QED
    BY <2>1, <2>2
<1>8. TaskWritesHold'
  BY <1>1, <1>3, <1>5, <1>6, <1>7 DEF TaskWritesHold
<1>9. RecordsAreReadable => RecordsAreReadable'
  BY <1>1 DEF RecordsAreReadable, ReadableNow, Now, Canonical
<1>10. QED
  BY <1>8, <1>9

(***************************************************************************)
(* The inductive invariants.                                               *)
(***************************************************************************)

LEMMA InitHolds == Init => TaskWritesHold /\ RecordsAreReadable
<1> SUFFICES ASSUME Init PROVE TaskWritesHold /\ RecordsAreReadable
  OBVIOUS
<1>1. RunWritesHold
  BY RunInitHolds DEF Init
<1>2. TypeOK
  BY <1>1, TaskConstants DEF Init, TypeOK, RunWritesHold
<1>3. QED
  BY <1>1, <1>2 DEF Init, TaskWritesHold, ClaimantIsAssignee, OneAnswerPerTaskRevision,
                    TaskWriteHolds, RecordsAreReadable

LEMMA NextHolds ==
  TaskWritesHold /\ [Next]_vars
    => TaskWritesHold' /\ (ClocksAgree /\ RecordsAreReadable => RecordsAreReadable')
<1> SUFFICES ASSUME TaskWritesHold, [Next]_vars
             PROVE  TaskWritesHold' /\ (ClocksAgree /\ RecordsAreReadable => RecordsAreReadable')
  OBVIOUS
<1>1. CASE UNCHANGED vars
  BY <1>1, RunStepHolds DEF vars, runVars, taskVars
<1>2. CASE RunNext /\ UNCHANGED taskVars
  BY <1>2, RunStepHolds
<1>3. ASSUME NEW p \in Caller, NEW id \in TaskId, TaskStep(p, id)
      PROVE  TaskWritesHold' /\ (ClocksAgree /\ RecordsAreReadable => RecordsAreReadable')
  <2>1. ASSUME NEW user \in User, NEW d \in Timing, Escalate(p, id, user, d.escalateAt)
        PROVE  TaskWritesHold' /\ (ClocksAgree /\ RecordsAreReadable => RecordsAreReadable')
    <3>1. d.escalateAt \in Instant
      BY TaskConstants DEF Instant
    <3>2. QED
      BY <2>1, <3>1, EscalatedHolds
  <2>2. QED
    BY <1>3, <2>1, AssignHolds, ClaimedHolds, ReleasedHolds, ReassignedHolds, CompletedHolds,
       ExpiredHolds DEF TaskStep
<1>4. ASSUME NEW p \in Caller, CommitTask(p)
      PROVE  TaskWritesHold' /\ (ClocksAgree /\ RecordsAreReadable => RecordsAreReadable')
  BY <1>4, CommitTaskHolds
<1>5. CASE Tick
  BY <1>5, TickHolds
<1>6. QED
  BY <1>1, <1>2, <1>3, <1>4, <1>5 DEF Next

\* What callers hold follows from what they have read, on any clocks.
THEOREM Invariance == Spec => []TaskWritesHold
  BY InitHolds, NextHolds, PTL DEF Spec

\* Rows, and what callers hold of them, keep their shape.
THEOREM TypeCorrect == Spec => []TypeOK
<1>1. TaskWritesHold => TypeOK
  BY DEF TaskWritesHold
<1>2. QED
  BY <1>1, Invariance, PTL

\* On callers whose clocks agree: what the task service has written it can read,
\* a claim is never taken away, every revision answers one call, and a task is
\* bound to a wait that its run really had.
THEOREM TasksAreSoundAlways ==
  ASSUME ClocksAgree
  PROVE  Spec => []TasksAreSound
<1> DEFINE Holds == TaskWritesHold /\ RecordsAreReadable
<1>1. Init => Holds
  BY InitHolds
<1>2. Holds /\ [Next]_vars => Holds'
  BY NextHolds
<1>3. Holds => TasksAreSound
  <2> SUFFICES ASSUME Holds PROVE TasksAreSound
    OBVIOUS
  <2>1. TaskIsReadable
    BY DEF RecordsAreReadable, ReadableNow, TaskIsReadable
  <2>2. TaskBindsAWait
    BY DEF TaskWritesHold, BindsAWait, TaskBindsAWait
  <2>3. QED
    BY <2>1, <2>2 DEF TaskWritesHold, TasksAreSound
<1>4. QED
  BY <1>1, <1>2, <1>3, PTL DEF Spec

\* All of that but readability holds however far the clocks are apart.
THEOREM SoundOnAnyClocks ==
  Spec => [](ClaimantIsAssignee /\ OneAnswerPerTaskRevision /\ TaskBindsAWait)
<1>1. TaskWritesHold => ClaimantIsAssignee /\ OneAnswerPerTaskRevision /\ TaskBindsAWait
  BY DEF TaskWritesHold, BindsAWait, TaskBindsAWait
<1>2. QED
  BY <1>1, Invariance, PTL

\* A completion, an expiry or a claim that was computed from an earlier revision
\* never changes a task that is closed.
THEOREM ClosedStays == Spec => ClosedIsFinal
<1> DEFINE Final == \A id \in TaskId :
       tasks[id] # Nil /\ tasks[id].status \in {"completed", "expired"} => tasks'[id] = tasks[id]
<1>1. ASSUME TaskWritesHold, [Next]_vars PROVE Final
  <2>1. CASE UNCHANGED tasks
    BY <2>1
  <2>2. ASSUME NEW p \in Caller, CommitTask(p) PROVE Final
    <3> DEFINE i == taskCall[p].id
               next == taskCall[p].next
    <3>1. /\ i \in TaskId
          /\ \/ tasks' = tasks
             \/ /\ tasks' = [tasks EXCEPT ![i] = next]
                /\ \/ tasks[i] = Nil
                   \/ tasks[i].status \in {"assigned", "claimed"}
      BY <1>1, <2>2, CommitTaskFacts
    <3>2. tasks \in [TaskId -> Task \cup {Nil}]
      BY <1>1 DEF TaskWritesHold, TypeOK
    <3> HIDE DEF i, next
    <3>3. QED
      BY <3>1, <3>2
  <2>3. UNCHANGED tasks \/ \E p \in Caller : CommitTask(p)
    <3>1. ASSUME NEW p \in Caller, NEW id \in TaskId, NEW next, HoldTask(p, id, next)
          PROVE  UNCHANGED tasks
      BY <3>1 DEF HoldTask
    <3>2. ASSUME NEW p \in Caller, NEW id \in TaskId, TaskStep(p, id) PROVE UNCHANGED tasks
      BY <3>1, <3>2 DEF TaskStep, Assign, Claim, Release, Reassign, Complete, Expire, Escalate
    <3>3. QED
      BY <1>1, <3>2 DEF Next, Tick, taskVars, vars
  <2>4. QED
    BY <2>1, <2>2, <2>3
<1>2. TaskWritesHold /\ [Next]_vars => [Final]_tasks
  BY <1>1
<1>3. QED
  BY <1>2, Invariance, PTL DEF Spec, ClosedIsFinal
=============================================================================

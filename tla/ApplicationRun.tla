--------------------------- MODULE ApplicationRun ---------------------------
(***************************************************************************)
(* Application runs: the record a run is, the service that lets it wait    *)
(* and resume, and the operator controls that pause it.                    *)
(*                                                                         *)
(* Every operation reads the record, checks it and replaces it by a        *)
(* compare-and-swap on the revision; between the read and the swap other   *)
(* callers do the same.  One enterprise scope is modelled, and the scope   *)
(* of a resolution is compared with it.  Times of a run decide nothing     *)
(* (resume does not look at dueAtUnixMs) and are left out.                 *)
(***************************************************************************)
EXTENDS RevisionStore

CONSTANTS
  RunCaller,    \* processes that call the services
  RunId,        \* ids of runs
  Scope,        \* the enterprise scope of the requests
  Resolution,   \* Application resolutions
  ScopeOf,      \* ScopeOf[x]: scope of the binding of resolution x
  Declares,     \* Declares[x]: entrypoints among the flows of x
  Wait,         \* waits that parseWait accepts: [id, kind, reference]
  MaxRunRevision   \* bound: a run is not replaced beyond this revision

ASSUME WaitAssumption == Nil \notin Wait /\ MaxRunRevision \in Nat

VARIABLES
  runs,      \* vira.application_run_state
  runCall,   \* what each caller is about to write to it
  runAcks    \* history: how many writes of a run were acknowledged

runVars == <<runs, runCall, runAcks>>

RunStatus == {"running", "waiting", "paused", "completed", "failed"}

Entrypoint == UNION {Declares[x] : x \in Resolution}

Run == [revision : Nat \ {0}, status : RunStatus, resolution : Resolution,
        entrypoint : Entrypoint, wait : Wait \cup {Nil}]

ASSUME RunAssumption == Nil \notin Run

RunWrite == [id : RunId, next : Run]

RunTypeOK ==
  /\ runs \in [RunId -> Run \cup {Nil}]
  /\ runCall \in [RunCaller -> RunWrite \cup {Nil}]
  /\ runAcks \in [RunId -> Nat]

RunInit ==
  /\ runs = [r \in RunId |-> Nil]
  /\ runCall = [p \in RunCaller |-> Nil]
  /\ runAcks = [r \in RunId |-> 0]

-----------------------------------------------------------------------------
(* The service *)

\* The resolution binds this scope and declares the entrypoint.
Resolves(x, e) == ScopeOf[x] = Scope /\ e \in Declares[x]

\* The read and the checks of an operation: the caller holds `next' and has
\* not written it yet.
HoldRun(p, r, next) ==
  /\ next.revision <= MaxRunRevision
  /\ runCall' = [runCall EXCEPT ![p] = [id |-> r, next |-> next]]
  /\ UNCHANGED <<runs, runAcks>>

CreateRun(p, r, x, e) ==
  /\ runCall[p] = Nil
  /\ Resolves(x, e)
  /\ HoldRun(p, r, [revision |-> 1, status |-> "running", resolution |-> x,
                    entrypoint |-> e, wait |-> Nil])

Successor(rec, status, wait) ==
  [rec EXCEPT !.revision = @ + 1, !.status = status, !.wait = wait]

WaitRun(p, r, w) ==
  /\ runCall[p] = Nil /\ runs[r] # Nil
  /\ runs[r].status = "running" /\ runs[r].wait = Nil
  /\ HoldRun(p, r, Successor(runs[r], "waiting", w))

ResumeRun(p, r, waitId) ==
  /\ runCall[p] = Nil /\ runs[r] # Nil
  /\ runs[r].status = "waiting" /\ runs[r].wait # Nil
  /\ runs[r].wait.id = waitId
  /\ HoldRun(p, r, Successor(runs[r], "running", Nil))

(* Operator control: the authorizer answers between the read and the checks, *)
(* which look at what was read before; a refusal changes nothing.            *)

PauseRun(p, r) ==
  /\ runCall[p] = Nil /\ runs[r] # Nil
  /\ runs[r].status \in {"running", "waiting"}
  /\ HoldRun(p, r, Successor(runs[r], "paused", runs[r].wait))

\* (mutant) A resumed run always runs on.
ResumeRunning(p, r) ==
  /\ runCall[p] = Nil /\ runs[r] # Nil
  /\ runs[r].status = "paused"
  /\ HoldRun(p, r, Successor(runs[r], "running", runs[r].wait))

ResumePaused(p, r) ==
  /\ runCall[p] = Nil /\ runs[r] # Nil
  /\ runs[r].status = "paused"
  /\ HoldRun(p, r, Successor(runs[r], IF runs[r].wait = Nil THEN "running" ELSE "waiting",
                             runs[r].wait))

\* The transaction of the store; a conflict is answered and changes nothing.
CommitRun(p) ==
  /\ runCall[p] # Nil
  /\ LET w == runCall[p] IN
       /\ runs' = Stored(runs, w.id, w.next)
       /\ runAcks' = IF Accepts(runs, w.id, w.next)
                     THEN [runAcks EXCEPT ![w.id] = @ + 1] ELSE runAcks
  /\ runCall' = [runCall EXCEPT ![p] = Nil]

RunStep(p) ==
  \/ \E r \in RunId, x \in Resolution, e \in Entrypoint : CreateRun(p, r, x, e)
  \/ \E r \in RunId, w \in Wait : WaitRun(p, r, w)
  \/ \E r \in RunId, w \in Wait : ResumeRun(p, r, w.id)
  \/ \E r \in RunId : PauseRun(p, r)
  \/ \E r \in RunId : ResumePaused(p, r)
  \/ CommitRun(p)

RunNext == \E p \in RunCaller : RunStep(p)

RunSpec == RunInit /\ [][RunNext]_runVars

-----------------------------------------------------------------------------
(* Properties *)

\* A run has a wait exactly while it waits, or was paused while it waited:
\* nothing that is running carries a wait left behind by a stale caller.
WaitTellsStatus ==
  \A r \in RunId : runs[r] # Nil =>
    /\ runs[r].status = "running" => runs[r].wait = Nil
    /\ runs[r].status = "waiting" => runs[r].wait # Nil

\* "Duplicate completion/resume or stale workers cannot advance semantic
\* state twice" (docs/evidence/PROD-08/Q5_Q9_CLOSURE.md:19): every revision of
\* a run answers exactly one call with ok.
OneAnswerPerRunRevision ==
  \A r \in RunId : runAcks[r] = IF runs[r] = Nil THEN 0 ELSE runs[r].revision

\* What two operators, and an event that arrives, may do to one run.
RunsAreSound == WaitTellsStatus /\ OneAnswerPerRunRevision

\* Pausing and resuming by an operator keep the exact wait, whatever raced
\* with them: only the resume of a waiting run takes it away, and no other
\* wait takes its place before that.
WaitIsConsumedByResume ==
  [][\A r \in RunId :
       runs[r] # Nil /\ runs[r].wait # Nil /\ runs'[r].wait # runs[r].wait
         => runs[r].status = "waiting" /\ runs'[r].status = "running" /\ runs'[r].wait = Nil]_runs
-----------------------------------------------------------------------------
(* The inductive invariant behind the properties: what a caller holds was    *)
(* computed from a revision the row has had, and is its successor while the  *)
(* row is still at it.                                                       *)

\* A record whose status and wait fit together.
WaitFits(rec) == /\ rec.status = "running" => rec.wait = Nil
                 /\ rec.status = "waiting" => rec.wait # Nil

\* The wait of a successor is that of the record, or comes or goes with it.
WaitFollows(rec, next) ==
  \/ rec.wait = Nil
  \/ next.wait = rec.wait
  \/ rec.status = "waiting" /\ next.status = "running" /\ next.wait = Nil

RunWriteHolds(p) ==
  runCall[p] # Nil =>
    LET next == runCall[p].next rec == runs[runCall[p].id] IN
      /\ WaitFits(next)
      /\ next.revision > 1 =>
           /\ rec # Nil /\ next.revision - 1 <= rec.revision
           /\ rec.revision = next.revision - 1 => WaitFollows(rec, next)

\* All of it.
RunWritesHold == /\ RunTypeOK
                 /\ RunsAreSound
                 /\ \A p \in RunCaller : RunWriteHolds(p)
=============================================================================

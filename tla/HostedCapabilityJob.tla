------------------------ MODULE HostedCapabilityJob ------------------------
(***************************************************************************)
(* Asynchronous jobs of hosted capabilities: started at a provider, then   *)
(* completed by a poll or a webhook, cancelled in two stages, or timed out *)
(* at a deadline.  Webhooks come late, twice, and race with all the rest.  *)
(*                                                                         *)
(* Every mutation reads its caller's clock, then the row, then replaces    *)
(* the row by a compare-and-swap, in three steps: a row that is written    *)
(* meanwhile may be younger than the instant the caller took, and the      *)
(* clocks of the callers differ.  The PostgreSQL store refuses to write a  *)
(* record that it could not read back.                                     *)
(***************************************************************************)
EXTENDS Integers, RevisionStore

CONSTANTS
  Caller,      \* processes that call the job service
  JobId,       \* ids of jobs
  Connection,  \* provider connections
  Authority,   \* provider authorities: [connection, validUntil]
  Mode,        \* completion modes: "poll", "webhook"
  Answer,      \* provider completions without their instant: [id, digest, source, outcome]
  MaxRevision, \* bound: a job is not replaced beyond this revision
  MaxSkew,     \* bound: how far a clock is ahead of the slowest at most
  MaxTime      \* bound: time stops here

VARIABLES
  clock,   \* the clock of the slowest caller
  ahead,   \* how far the clock of each caller is ahead of it
  jobs,    \* vira.hosted_capability_job_state
  call,    \* what each caller asked for, and then what it is about to write
  acked    \* history: completions that were answered with ok

vars == <<clock, ahead, jobs, call, acked>>

Terminal == {"completed", "failed", "timed-out", "cancelled"}

Instant == Nat \cup {Nil}

Completion == [answer : Answer, at : Nat]

Job == [revision : Nat \ {0}, status : {"running", "cancel-requested"} \cup Terminal,
        connection : Connection, mode : Mode, deadline : Nat, startedAt : Nat, updatedAt : Nat,
        cancelRequestedAt : Instant, cancelledAt : Instant, timedOutAt : Instant,
        completion : Completion \cup {Nil}]

Operation == {"requestCancel", "confirmCancelled", "timeout", "complete"}

\* A caller that has read the clock and not yet the row.
Asked == [step : {"asked"}, op : Operation, job : JobId, now : Nat, expected : Nat,
          authority : Authority \cup {Nil}, completion : Completion \cup {Nil}]

\* A caller that has read and checked the row and not yet replaced it.
Holding == [step : {"holding"}, job : JobId, next : Job]

\* What the constants must be: an authority is of a connection, and null is
\* none of the things it stands beside.
JobConstants ==
  /\ MaxTime \in Nat \ {0} /\ MaxSkew \in Nat
  /\ Authority \subseteq [connection : Connection, validUntil : Nat]
  /\ Nil \notin Nat \cup Completion \cup Job \cup Asked \cup Holding \cup Authority

TypeOK ==
  /\ clock \in 1..MaxTime /\ ahead \in [Caller -> 0..MaxSkew]
  /\ jobs \in [JobId -> Job \cup {Nil}]
  /\ call \in [Caller -> Asked \cup Holding \cup {Nil}]
  /\ acked \in SUBSET (JobId \X Answer)

Init ==
  /\ clock = 1
  /\ ahead \in [Caller -> 0..MaxSkew]
  /\ jobs = [j \in JobId |-> Nil]
  /\ call = [p \in Caller |-> Nil]
  /\ acked = {}

-----------------------------------------------------------------------------
(* The record *)

NotAfter(a, b) == a # Nil /\ b # Nil => a <= b

\* validateTemporalState
InOrder(j) ==
  /\ j.startedAt < j.deadline /\ j.startedAt <= j.updatedAt
  /\ NotAfter(j.startedAt, j.cancelRequestedAt) /\ NotAfter(j.cancelRequestedAt, j.updatedAt)
  /\ j.cancelledAt # Nil => j.cancelRequestedAt # Nil
  /\ NotAfter(j.cancelRequestedAt, j.cancelledAt) /\ NotAfter(j.cancelledAt, j.updatedAt)
  /\ NotAfter(j.deadline, j.timedOutAt) /\ NotAfter(j.timedOutAt, j.updatedAt)
  /\ j.completion # Nil => j.completion.at >= j.startedAt /\ j.completion.at < j.deadline
                                                    /\ j.completion.at <= j.updatedAt

\* validateStatusState
TellsItsStatus(j) ==
  /\ j.status \in {"completed", "failed"} <=> j.completion # Nil
  /\ j.status = "cancelled" <=> j.cancelledAt # Nil
  /\ j.status = "timed-out" <=> j.timedOutAt # Nil
  /\ j.status = "running" => j.cancelRequestedAt = Nil
  /\ j.status \in {"cancel-requested", "cancelled"} => j.cancelRequestedAt # Nil
  /\ j.status = "completed" => j.completion.answer.outcome # "error"
  /\ j.status = "failed" => j.completion.answer.outcome = "error"

Valid(j) == InOrder(j) /\ TellsItsStatus(j)

-----------------------------------------------------------------------------
(* The service *)

Set(p, what) == call' = [call EXCEPT ![p] = what]

\* serviceNow, in the process of caller p.
Now(p) == clock + ahead[p]

Start(p, id, c, mode, deadline) ==
  /\ call[p] = Nil
  /\ deadline > Now(p)
  /\ c.validUntil > Now(p)
  /\ Set(p, [step |-> "holding", job |-> id, next |->
       [revision |-> 1, status |-> "running", connection |-> c.connection, mode |-> mode,
        deadline |-> deadline, startedAt |-> Now(p), updatedAt |-> Now(p),
        cancelRequestedAt |-> Nil, cancelledAt |-> Nil, timedOutAt |-> Nil,
        completion |-> Nil]])
  /\ UNCHANGED <<clock, ahead, jobs, acked>>

\* A mutation reads its clock; expectedRevision is one its caller has been
\* shown, of a job that exists.
Ask(p, id, op, e, c, completion) ==
  /\ call[p] = Nil
  /\ jobs[id] # Nil /\ e <= jobs[id].revision
  /\ Set(p, [step |-> "asked", op |-> op, job |-> id, now |-> Now(p), expected |-> e,
             authority |-> c, completion |-> completion])
  /\ UNCHANGED <<clock, ahead, jobs, acked>>

Asks(p, op) == call[p] # Nil /\ call[p].step = "asked" /\ call[p].op = op

\* (mutant) The caller's revision is not compared.
AnyRevision(q) == TRUE

\* requireExpectedRevision and requireAuthority
Expected(q) == jobs[q.job].revision = q.expected

Authorized(q) ==
  q.authority.validUntil > q.now /\ q.authority.connection = jobs[q.job].connection

\* What is written is the row as it was read, at the instant of the request.
Hold(p, next) ==
  /\ next.revision <= MaxRevision
  /\ Set(p, [step |-> "holding", job |-> call[p].job, next |-> next])
  /\ UNCHANGED <<clock, ahead, jobs, acked>>

Successor(q, status) ==
  [jobs[q.job] EXCEPT !.revision = @ + 1, !.status = status, !.updatedAt = q.now]

RequestCancel(p) ==
  /\ Asks(p, "requestCancel")
  /\ LET q == call[p] IN
       /\ Expected(q) /\ Authorized(q)
       /\ jobs[q.job].status = "running"
       /\ Hold(p, [Successor(q, "cancel-requested") EXCEPT !.cancelRequestedAt = q.now])

ConfirmCancelled(p) ==
  /\ Asks(p, "confirmCancelled")
  /\ LET q == call[p] IN
       /\ Expected(q)
       /\ jobs[q.job].status = "cancel-requested"
       /\ Hold(p, [Successor(q, "cancelled") EXCEPT !.cancelledAt = q.now])

TimeOut(p) ==
  /\ Asks(p, "timeout")
  /\ LET q == call[p] IN
       /\ Expected(q)
       /\ jobs[q.job].status \notin Terminal
       /\ q.now >= jobs[q.job].deadline
       /\ Hold(p, [Successor(q, "timed-out") EXCEPT !.timedOutAt = q.now])

\* (mutant) A replay is known by its id alone.
HasItsId(q) ==
  LET c == jobs[q.job].completion IN c # Nil /\ c.answer.id = q.completion.answer.id

\* The completion on record has the id and the digest of this one.
IsReplay(q) ==
  LET c == jobs[q.job].completion IN
    /\ c # Nil
    /\ c.answer.id = q.completion.answer.id /\ c.answer.digest = q.completion.answer.digest

Complete(p) ==
  /\ Asks(p, "complete")
  /\ LET q == call[p] job == jobs[q.job] IN
       /\ ~IsReplay(q)
       /\ job.status \notin Terminal
       /\ Expected(q)
       /\ q.completion.answer.source = job.mode
       /\ q.completion.at >= job.startedAt /\ q.completion.at <= q.now
       /\ q.completion.at < job.deadline
       /\ Hold(p, [Successor(q, IF q.completion.answer.outcome = "error"
                                THEN "failed" ELSE "completed")
                    EXCEPT !.completion = q.completion])

\* A completion that was recorded before is acknowledged again.
AcknowledgeReplay(p) ==
  /\ Asks(p, "complete") /\ IsReplay(call[p])
  /\ acked' = acked \cup {<<call[p].job, call[p].completion.answer>>}
  /\ Set(p, Nil)
  /\ UNCHANGED <<clock, ahead, jobs>>

\* Any other request is answered without a write: stale, late, not
\* authorized, or what was asked for is done already.  A caller may also die.
Refuse(p) ==
  /\ call[p] # Nil /\ call[p].step = "asked"
  /\ Set(p, Nil)
  /\ UNCHANGED <<clock, ahead, jobs, acked>>

\* The store parses the record, throwing for one it would not read, and
\* inserts it or swaps it in.
Commit(p) ==
  /\ call[p] # Nil /\ call[p].step = "holding"
  /\ LET id == call[p].job next == call[p].next
         done == Valid(next) /\ Accepts(jobs, id, next)
     IN /\ jobs' = IF done THEN [jobs EXCEPT ![id] = next] ELSE jobs
        /\ acked' = IF done /\ next.completion # Nil
                    THEN acked \cup {<<id, next.completion.answer>>} ELSE acked
  /\ Set(p, Nil)
  /\ UNCHANGED <<clock, ahead>>

Tick ==
  /\ clock < MaxTime
  /\ clock' = clock + 1
  /\ UNCHANGED <<ahead, jobs, call, acked>>

Request(p, id, e) ==
  \/ \E c \in Authority : Ask(p, id, "requestCancel", e, c, Nil)
  \/ Ask(p, id, "confirmCancelled", e, Nil, Nil)
  \/ Ask(p, id, "timeout", e, Nil, Nil)
  \/ \E a \in Answer, t \in 1..MaxTime : Ask(p, id, "complete", e, Nil, [answer |-> a, at |-> t])

Serve(p) ==
  \/ RequestCancel(p)
  \/ ConfirmCancelled(p)
  \/ TimeOut(p)
  \/ Complete(p)
  \/ AcknowledgeReplay(p)
  \/ Refuse(p)
  \/ Commit(p)

Next ==
  \/ \E p \in Caller, id \in JobId, c \in Authority, m \in Mode, d \in 1..MaxTime :
       Start(p, id, c, m, d)
  \/ \E p \in Caller, id \in JobId, e \in 1..MaxRevision : Request(p, id, e)
  \/ \E p \in Caller : Serve(p)
  \/ Tick

Spec == Init /\ [][Next]_vars

-----------------------------------------------------------------------------
(* Properties *)

\* A provider is told ok for one result of a job only, the one on record,
\* however often and late it delivers.
OneResult == \A id \in JobId, a \in Answer : <<id, a>> \in acked =>
  /\ jobs[id].completion # Nil
  /\ jobs[id].completion.answer.id = a.id /\ jobs[id].completion.answer.digest = a.digest

ClocksAgree == \A p, q \in Caller : ahead[p] = ahead[q]

\* If the callers' clocks agree, none ever holds a record that the store's own
\* parser refuses, though its instant may be older than the row it read; one
\* that lags may date a change before the start, and the store throws.
NoWriteThrows == ClocksAgree => \A p \in Caller :
  call[p] # Nil /\ call[p].step = "holding" => Valid(call[p].next)

\* What completions, cancellations and timeouts may do to one job: it has one
\* result whatever the clocks, and on clocks that agree no write is refused as out
\* of order.
JobsAreSound == OneResult /\ NoWriteThrows

\* A job that has ended stays as it ended: a completion, cancellation or
\* timeout that raced with it has no effect.
EndedIsFinal ==
  [][\A id \in JobId : jobs[id] # Nil /\ jobs[id].status \in Terminal
       => jobs'[id] = jobs[id]]_jobs
============================================================================

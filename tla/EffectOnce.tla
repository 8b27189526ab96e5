----------------------------- MODULE EffectOnce -----------------------------
(***************************************************************************)
(* What durable execution promises to whoever approved an Action: of all   *)
(* the executions that stand for one effect at most one is ever committed  *)
(* to it, the provider is called at most once, and only after the          *)
(* commitment; a commitment is settled, and never taken back.              *)
(*                                                                         *)
(* Leases, clocks, workers and tables do not appear here.  The call may    *)
(* come after the settlement: a worker that stalls between its dispatch    *)
(* record and the call is not stopped by the loss of its lease.            *)
(***************************************************************************)
EXTENDS Naturals

CONSTANTS
  Execution,  \* ids of executions
  Rivals      \* pairs of executions that stand for one effect

VARIABLES
  phase,      \* how far each execution has come
  calls       \* calls of the provider made for it

Phase == {"absent", "pending", "committed", "settled"}

Rival(e, f) == <<e, f>> \in Rivals \/ <<f, e>> \in Rivals

Bound(e) == phase[e] \in {"committed", "settled"}

Init == /\ phase = [e \in Execution |-> "absent"]
        /\ calls = [e \in Execution |-> 0]

Submit(e) == /\ phase[e] = "absent"
             /\ phase' = [phase EXCEPT ![e] = "pending"]
             /\ UNCHANGED calls

Commit(e) == /\ phase[e] = "pending"
             /\ \A f \in Execution : Rival(e, f) => ~ Bound(f)
             /\ phase' = [phase EXCEPT ![e] = "committed"]
             /\ UNCHANGED calls

Call(e) == /\ Bound(e)
           /\ calls[e] = 0
           /\ calls' = [calls EXCEPT ![e] = 1]
           /\ UNCHANGED phase

Settle(e) == /\ phase[e] = "committed"
             /\ phase' = [phase EXCEPT ![e] = "settled"]
             /\ UNCHANGED calls

Next == \E e \in Execution : Submit(e) \/ Commit(e) \/ Call(e) \/ Settle(e)

Spec == Init /\ [][Next]_<<phase, calls>>

-----------------------------------------------------------------------------
TypeOK == /\ phase \in [Execution -> Phase]
          /\ calls \in [Execution -> {0, 1}]

\* One effect is never produced twice, neither by one execution nor by two
\* rivals: the promise of consumeGrantAndReserveEffect and of the fence.
OneCallPerEffect ==
  \A e, f \in Execution : calls[e] > 0 /\ calls[f] > 0 /\ Rival(e, f) => e = f

\* Behind it: whoever was called is bound, and bound rivals are one.
OneBoundPerEffect ==
  /\ \A e \in Execution : calls[e] > 0 => Bound(e)
  /\ \A e, f \in Execution : Bound(e) /\ Bound(f) /\ Rival(e, f) => e = f
=============================================================================

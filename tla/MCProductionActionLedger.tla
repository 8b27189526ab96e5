---------------------- MODULE MCProductionActionLedger ----------------------
(* Small instances of ProductionActionLedger, with a bounded number of      *)
(* failures: that something comes about cannot be said of workers that fail *)
(* for ever.                                                                *)
EXTENDS ProductionActionLedger

CONSTANTS w1, w2, c1, c2

Apart  == [p \in Worker \cup Signer |-> IF p \in {w1, c2} THEN 1 ELSE 0]

CONSTANT MaxFailures  \* bound: rollbacks and abandoned runs

VARIABLE failures

Fail == (\E w \in Worker : Rollback(w)) \/ (\E c \in Signer : Abandon(c))

Work ==
  \/ \E w \in Worker : BeginAppend(w) \/ AppendStep(w)
  \/ \E c \in Signer : ReadEntries(c) \/ CadenceStep(c)
  \/ Tick

FewFailures ==
  /\ failures = 0 /\ Init
  /\ [][\/ Work /\ UNCHANGED failures
        \/ Fail /\ failures < MaxFailures /\ failures' = failures + 1]_<<vars, failures>>
  /\ Fairness
=============================================================================

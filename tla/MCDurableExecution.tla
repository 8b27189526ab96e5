------------------------- MODULE MCDurableExecution -------------------------
(* Small instances of DurableExecution: which executions compete, and how   *)
(* far the clocks of workers and API hosts are from the database's.         *)
EXTENDS DurableExecution

CONSTANTS e1, e2, w1, w2

\* Two executions of one operation, each with a grant and a key of its own.
OneOperation   == [e \in Execution |-> "charge"]
OwnKeys        == [e \in Execution |-> e]
OwnNonces      == [e \in Execution |-> e]

\* Two executions that have nothing in common but the idempotency key.
OwnOperations  == [e \in Execution |-> e]
OneKey         == [e \in Execution |-> "key"]

FromStart      == [e \in Execution |-> 0]
NeverExpires   == [e \in Execution |-> 99]
SecondExpires  == [e \in Execution |-> IF e = e2 THEN 2 ELSE 99]

NoSkew         == [w \in Worker |-> 0]
SecondLags     == [w \in Worker |-> IF w = w2 THEN -1 ELSE 0]
BothWays       == [w \in Worker |-> IF w = w1 THEN 1 ELSE -1]
FirstLeads     == [w \in Worker |-> IF w = w1 THEN 1 ELSE 0]
=============================================================================

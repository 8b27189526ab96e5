---------------------- MODULE MCVerifiedProviderAction ----------------------
(* Small instances of VerifiedProviderAction; and one where workers die only *)
(* so often, so that liveness can be asked for.                              *)
EXTENDS VerifiedProviderAction

CONSTANTS
  w1, w2,
  MaxDeaths  \* bound: how often a call is abandoned where deaths are few

VARIABLE deaths

NoSkew    == [w \in Worker |-> 0]
OneBehind == [w \in Worker |-> IF w = w2 THEN -1 ELSE 0]
Apart     == [w \in Worker |-> IF w = w1 THEN 1 ELSE -1]

AnyDeaths == /\ deaths = 0 /\ Init
             /\ [][Next /\ UNCHANGED deaths]_<<vars, deaths>>

FewDeaths ==
  /\ deaths = 0 /\ Init
  /\ [][\/ Step /\ UNCHANGED deaths
        \/ /\ deaths < MaxDeaths
           /\ \E w \in Worker : Abandon(w)
           /\ deaths' = deaths + 1]_<<vars, deaths>>
  /\ Fairness
=============================================================================

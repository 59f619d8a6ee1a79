------------------------------ MODULE MCIntake ------------------------------
(***************************************************************************)
(* Instances of Intake for TLC: a configuration at the edge of the legal   *)
(* values, and illegal ones, one value out of bounds at a time.            *)
(***************************************************************************)
EXTENDS Intake

Lowest == [priceA |-> 0, priceScaleA |-> 0, priceB |-> 0, priceScaleB |-> 0,
           size |-> 1, sizeScale |-> 0, profit |-> 0, profitScale |-> 0]
Scaled == {"priceScaleA", "priceScaleB", "sizeScale", "profitScale"}
Edge   == [f \in DOMAIN Lowest |-> IF f \in Scaled THEN MaxScale ELSE Lowest[f]]

MCConfigs ==
  {Edge} \cup {[Lowest EXCEPT ![f] = @ - 1] : f \in DOMAIN Lowest}
         \cup {[Edge EXCEPT ![f] = @ + 1] : f \in Scaled}
MCCalls == 1..MaxBatch
=============================================================================

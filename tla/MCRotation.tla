----------------------------- MODULE MCRotation -----------------------------
(***************************************************************************)
(* Instances of RotationFairness: one provider with weights 1, 2 and 3, or *)
(* two providers with two keys each that share a pool.                     *)
(***************************************************************************)
EXTENDS RotationFairness

IndexOrder == [k \in Keys |-> k]
IndexWeight == [k \in Keys |-> IF k = 1 THEN 1 ELSE k - 1]

OneProvider == [k \in Keys |-> "p1"]
TwoProviders == [k \in Keys |-> IF k <= 2 THEN "p1" ELSE "p2"]

=============================================================================

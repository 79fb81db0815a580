----------------------------- MODULE MCKeyPool ------------------------------
(***************************************************************************)
(* Instances of KeyPool for TLC.  Two keys are enough for a retry with     *)
(* another key and for exhaustion after one; two clients for every overlap *)
(* of a request with another.                                              *)
(***************************************************************************)
EXTENDS KeyPool

TwoKeys == {"k1", "k2"}
OneKey == {"k1"}
KeyOrder == [k \in Keys |-> IF k = "k1" THEN 1 ELSE 2]

EqualWeights == [k \in Keys |-> 1]
DoubleFirst == [k \in Keys |-> IF k = "k1" THEN 2 ELSE 1]

NoLimits == [k \in Keys |-> 0]
FirstLimited == [k \in Keys |-> IF k = "k1" THEN 1 ELSE 0]

NoExclusions == {{}}
StickyToFirst == {{}, {"k2"}}

=============================================================================

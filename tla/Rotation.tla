------------------------------ MODULE Rotation ------------------------------
(***************************************************************************)
(* The two scheduling strategies.  Both keep one cursor per pool and serve *)
(* the list of eligible keys, in which a key stands as often as its weight *)
(* (once under round robin); the cursor, taken modulo the length of that   *)
(* list, names the key to serve, and moves on by one.  The list is built   *)
(* anew for every selection and the cursor never goes back, so a position  *)
(* means another key whenever the eligible keys change.                    *)
(***************************************************************************)
EXTENDS Integers, FiniteSets, FiniteSetsExt

CONSTANTS
  Order,     \* [Keys -> Nat], injective: the order of listings (ORDER BY id)
  Strategy,  \* "round_robin" or "weighted_round_robin"
  Weight     \* [Keys -> Nat]

\* How often k stands in the list: max(1, weight).
Slots(k) ==
  IF Strategy = "weighted_round_robin" /\ Weight[k] > 1 THEN Weight[k] ELSE 1

SlotsOf(S) == MapThenSumSet(Slots, S)

\* The list over the keys S holds k at position n (modulo its length).
ServedBy(S, k, n) ==
  LET slot   == n % SlotsOf(S)
      before == SlotsOf({j \in S : Order[j] < Order[k]})
  IN  before <= slot /\ slot < before + Slots(k)

=============================================================================

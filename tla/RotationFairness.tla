-------------------------- MODULE RotationFairness --------------------------
(***************************************************************************)
(* Successive selections from one pool, as the requests of its providers   *)
(* make them: a selection sees only the keys of its provider, but the      *)
(* strategy's cursor belongs to the pool.  No key changes while the        *)
(* selections are watched; how the pool was used before is any cursor.     *)
(***************************************************************************)
EXTENDS Rotation

CONSTANTS
  Keys,
  Providers,
  ProviderOf,      \* [Keys -> Providers]
  MaxCursor        \* bound: the cursor when the watch begins

ASSUME RotationAssumption ==
  /\ IsFiniteSet(Keys)
  /\ Order \in [Keys -> Nat]
  /\ \A j, k \in Keys : Order[j] = Order[k] => j = k
  /\ Weight \in [Keys -> Nat]
  /\ ProviderOf \in [Keys -> Providers]
  /\ MaxCursor \in Nat

VARIABLES
  keys,      \* the eligible keys of the pool
  cursor,    \* the strategy's cursor for the pool
  served,    \* selections of each key since the watch began
  rounds     \* selections for each provider since the watch began

vars == <<keys, cursor, served, rounds>>

KeysOf(p) == {k \in keys : ProviderOf[k] = p}

TypeOK ==
  /\ keys \subseteq Keys
  /\ cursor \in Nat
  /\ served \in [Keys -> Nat]
  /\ rounds \in [Providers -> Nat]

Init ==
  /\ keys \in SUBSET Keys
  /\ cursor \in 0 .. MaxCursor
  /\ served = [k \in Keys |-> 0]
  /\ rounds = [p \in Providers |-> 0]

(* Mutant of Select: the cursor runs backwards. *)
SelectBackwards(p) ==
  /\ rounds[p] < SlotsOf(KeysOf(p))
  /\ \E k \in KeysOf(p) :
       /\ ServedBy(KeysOf(p), k, cursor)
       /\ served' = [served EXCEPT ![k] = @ + 1]
  /\ cursor' = cursor - 1
  /\ rounds' = [rounds EXCEPT ![p] = @ + 1]
  /\ UNCHANGED keys

(* Mutant of Select: looking at the next key moves the cursor, too. *)
SelectSkipping(p) ==
  /\ rounds[p] < SlotsOf(KeysOf(p))
  /\ \E k \in KeysOf(p) :
       /\ ServedBy(KeysOf(p), k, cursor)
       /\ served' = [served EXCEPT ![k] = @ + 1]
  /\ cursor' = cursor + 2
  /\ rounds' = [rounds EXCEPT ![p] = @ + 1]
  /\ UNCHANGED keys

(* One selection for provider p; the watch ends when every provider has had *)
(* as many selections as its list is long.                                  *)
Select(p) ==
  /\ rounds[p] < SlotsOf(KeysOf(p))
  /\ \E k \in KeysOf(p) :
       /\ ServedBy(KeysOf(p), k, cursor)
       /\ served' = [served EXCEPT ![k] = @ + 1]
  /\ cursor' = cursor + 1
  /\ rounds' = [rounds EXCEPT ![p] = @ + 1]
  /\ UNCHANGED keys

Next == \E p \in Providers : Select(p)

Spec == Init /\ [][Next]_vars

-----------------------------------------------------------------------------

(* The promise of the two strategies: as many selections in a row as the    *)
(* list is long serve every key exactly as often as its weight says,        *)
(* wherever the cursor stood.                                               *)
FullRoundIsFair ==
  \A p \in Providers :
    rounds[p] = SlotsOf(KeysOf(p)) => \A k \in KeysOf(p) : served[k] = Slots(k)

=============================================================================

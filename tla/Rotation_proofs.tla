--------------------------- MODULE Rotation_proofs ---------------------------
(***************************************************************************)
(* A full round of a pool with one provider serves each key as often as it *)
(* stands in the list: for any keys, weights and order, wherever the       *)
(* cursor is.                                                              *)
(***************************************************************************)
EXTENDS RotationFairness, Lemmas, FunctionTheorems

-----------------------------------------------------------------------------
(* The length of a list: SlotsOf is a fold, which takes the keys in an      *)
(* order of its own.                                                        *)

Some(S) == CHOOSE x \in S : TRUE

IsFold(g, S) ==
  g = [T \in SUBSET S |-> IF T = {} THEN 0 ELSE Slots(Some(T)) + g[T \ {Some(T)}]]

FoldOver(S) == CHOOSE g : IsFold(g, S)

LEMMA SlotsOfIsFold ==
  ASSUME NEW S
  PROVE  SlotsOf(S) = FoldOver(S)[S]
  BY Zenon DEF SlotsOf, MapThenSumSet, MapThenFoldSet, FoldOver, IsFold, Some

LEMMA SomeIsMember ==
  ASSUME NEW S, S # {}
  PROVE  Some(S) \in S
  BY DEF Some

\* Two folds agree where both are defined.
LEMMA FoldsAgree ==
  ASSUME NEW S, NEW T, IsFiniteSet(S), NEW g, NEW h, IsFold(g, S), IsFold(h, T),
         NEW U \in SUBSET (S \cap T)
  PROVE  g[U] = h[U]
  <1> DEFINE F == {V \in SUBSET S : V \subseteq T => g[V] = h[V]}
  <1>1. {} \in F
    BY DEF IsFold
  <1>2. ASSUME NEW V \in SUBSET S, V # {}, \A x \in V : V \ {x} \in F
        PROVE  V \in F
    <2> SUFFICES ASSUME V \subseteq T
                 PROVE  g[V] = h[V]
      OBVIOUS
    <2>1. Some(V) \in V
      BY <1>2, SomeIsMember
    <2>2. V \ {Some(V)} \in F
      BY <1>2, <2>1
    <2>3. g[V \ {Some(V)}] = h[V \ {Some(V)}]
      BY <2>2
    <2>4. g[V] = Slots(Some(V)) + g[V \ {Some(V)}]
      BY <1>2 DEF IsFold
    <2>5. h[V] = Slots(Some(V)) + h[V \ {Some(V)}]
      BY <1>2 DEF IsFold
    <2> QED BY <2>3, <2>4, <2>5
  <1>3. \A V \in SUBSET S : V \in F
    <2> HIDE DEF F
    <2> QED BY <1>1, <1>2, FiniteSetInduction
  <1> QED BY <1>3

\* The fold over T, from those over T without one member.
LEMMA FoldGrows ==
  ASSUME NEW T, IsFiniteSet(T), T # {}, \A x \in T : \E g : IsFold(g, T \ {x})
  PROVE  \E g : IsFold(g, T)
  <1> DEFINE Outside(U) == Some(T \ U)
             Value(U) == FoldOver(T \ {Outside(U)})[U]
             g == [U \in SUBSET T |->
                     IF U = T THEN Slots(Some(T)) + Value(T \ {Some(T)}) ELSE Value(U)]
  <1>1. \A x \in T : IsFold(FoldOver(T \ {x}), T \ {x})
    BY DEF FoldOver
  <1>2. \A x \in T : IsFiniteSet(T \ {x})
    BY FS_RemoveElement
  <1>3. ASSUME NEW U \in SUBSET T, U # T
        PROVE  Outside(U) \in T /\ U \subseteq T \ {Outside(U)}
    BY <1>3, SomeIsMember, T \ U # {}
  <1>4. ASSUME NEW U \in SUBSET T, NEW x \in T, x \notin U
        PROVE  Value(U) = FoldOver(T \ {x})[U]
    <2>1. Outside(U) \in T /\ U \subseteq T \ {Outside(U)}
      BY <1>3, <1>4
    <2>2. U \subseteq T \ {x}
      BY <1>4
    <2> HIDE DEF Outside
    <2> QED BY <1>1, <1>2, <2>1, <2>2, FoldsAgree
  <1>5. ASSUME NEW U \in SUBSET T, U # T, U # {}
        PROVE  g[U] = Slots(Some(U)) + g[U \ {Some(U)}]
    <2>1. Some(U) \in U /\ Outside(U) \in T /\ U \subseteq T \ {Outside(U)}
      BY <1>3, <1>5, SomeIsMember
    <2>2. FoldOver(T \ {Outside(U)})[U] =
            Slots(Some(U)) + FoldOver(T \ {Outside(U)})[U \ {Some(U)}]
      <3> HIDE DEF Outside
      <3> QED BY <1>1, <1>5, <2>1 DEF IsFold
    <2>3. Value(U \ {Some(U)}) = FoldOver(T \ {Outside(U)})[U \ {Some(U)}]
      <3> HIDE DEF Value, Outside
      <3> QED BY <1>4, <2>1
    <2>4. g[U \ {Some(U)}] = Value(U \ {Some(U)}) /\ g[U] = Value(U)
      <3> HIDE DEF Value
      <3> QED BY <1>5, <2>1
    <2> QED BY <2>2, <2>3, <2>4
  <1>6. g[{}] = 0
    <2>1. {} # T /\ Outside({}) \in T
      BY <1>3
    <2>2. Value({}) = 0
      <3> HIDE DEF Outside
      <3> QED BY <1>1, <2>1 DEF IsFold
    <2> HIDE DEF Value
    <2> QED BY <2>1, <2>2
  <1>7. g[T] = Slots(Some(T)) + g[T \ {Some(T)}]
    <2>1. Some(T) \in T
      BY SomeIsMember
    <2> HIDE DEF Value
    <2> QED BY <2>1
  <1>8. \A U \in SUBSET T :
          g[U] = IF U = {} THEN 0 ELSE Slots(Some(U)) + g[U \ {Some(U)}]
    <2> HIDE DEF g
    <2> QED BY <1>5, <1>6, <1>7
  <1>9. g = [U \in SUBSET T |->
               IF U = {} THEN 0 ELSE Slots(Some(U)) + g[U \ {Some(U)}]]
    <2>1. g = [U \in SUBSET T |-> g[U]]
      OBVIOUS
    <2> HIDE DEF g
    <2> QED BY <1>8, <2>1
  <1> HIDE DEF g
  <1> QED BY <1>9 DEF IsFold

LEMMA FoldExists ==
  ASSUME NEW S, IsFiniteSet(S)
  PROVE  IsFold(FoldOver(S), S)
  <1> DEFINE F == {T \in SUBSET S : \E g : IsFold(g, T)}
  <1>1. {} \in F
    <2>1. IsFold([T \in SUBSET {} |-> 0], {})
      BY DEF IsFold
    <2> QED BY <2>1
  <1>2. ASSUME NEW T \in SUBSET S, T # {}, \A x \in T : T \ {x} \in F
        PROVE  T \in F
    <2>1. IsFiniteSet(T)
      BY FS_Subset
    <2> QED BY <1>2, <2>1, FoldGrows
  <1>3. S \in F
    <2> HIDE DEF F
    <2>1. \A T \in SUBSET S : T # {} /\ (\A x \in T : T \ {x} \in F) => T \in F
      BY <1>2, Zenon
    <2>2. \A T \in SUBSET S : T \in F
      BY <1>1, <2>1, FiniteSetInduction
    <2> QED BY <2>2
  <1> QED BY <1>3 DEF FoldOver

LEMMA SlotsOfEmpty ==
  SlotsOf({}) = 0
  <1>1. IsFold(FoldOver({}), {})
    BY FoldExists, FS_EmptySet
  <1> QED BY <1>1, SlotsOfIsFold DEF IsFold

LEMMA SlotsOfSome ==
  ASSUME NEW S, IsFiniteSet(S), S # {}
  PROVE  SlotsOf(S) = Slots(Some(S)) + SlotsOf(S \ {Some(S)})
  <1> DEFINE T == S \ {Some(S)}
  <1>1. IsFiniteSet(T) /\ T \in SUBSET S
    BY FS_Subset
  <1>2. IsFold(FoldOver(S), S) /\ IsFold(FoldOver(T), T)
    BY <1>1, FoldExists
  <1>3. FoldOver(S)[S] = Slots(Some(S)) + FoldOver(S)[T]
    BY <1>2 DEF IsFold
  <1>4. FoldOver(S)[T] = FoldOver(T)[T]
    <2> HIDE DEF T
    <2> QED BY <1>1, <1>2, FoldsAgree
  <1>5. SlotsOf(T) = FoldOver(T)[T] /\ SlotsOf(S) = FoldOver(S)[S]
    <2> HIDE DEF T
    <2> QED BY SlotsOfIsFold
  <1> QED BY <1>3, <1>4, <1>5

LEMMA SlotsPositive ==
  ASSUME NEW k \in Keys
  PROVE  Slots(k) \in Nat /\ Slots(k) >= 1
  BY RotationAssumption DEF Slots

LEMMA SlotsOfIsNat ==
  ASSUME NEW S \in SUBSET Keys
  PROVE  SlotsOf(S) \in Nat
  <1> DEFINE F == {T \in SUBSET Keys : SlotsOf(T) \in Nat}
  <1>1. {} \in F
    BY SlotsOfEmpty
  <1>2. ASSUME NEW T \in SUBSET Keys, T # {}, \A x \in T : T \ {x} \in F
        PROVE  T \in F
    <2>1. Some(T) \in T
      BY <1>2, SomeIsMember
    <2>2. SlotsOf(T) = Slots(Some(T)) + SlotsOf(T \ {Some(T)})
      BY <1>2, SlotsOfSome, FS_Subset, RotationAssumption
    <2>3. Slots(Some(T)) \in Nat /\ SlotsOf(T \ {Some(T)}) \in Nat
      BY <1>2, <2>1, SlotsPositive
    <2> QED BY <2>2, <2>3
  <1>3. S \in F
    <2> HIDE DEF F
    <2> QED BY <1>1, <1>2, FiniteSetInduction, RotationAssumption
  <1> QED BY <1>3

\* The order in which the fold takes the keys does not matter.
LEMMA SlotsOfRemove ==
  ASSUME NEW S \in SUBSET Keys, NEW x \in S
  PROVE  SlotsOf(S) = Slots(x) + SlotsOf(S \ {x})
  <1> DEFINE F == {T \in SUBSET Keys :
                     \A y \in T : SlotsOf(T) = Slots(y) + SlotsOf(T \ {y})}
  <1>1. {} \in F
    OBVIOUS
  <1>2. ASSUME NEW T \in SUBSET Keys, T # {}, \A y \in T : T \ {y} \in F
        PROVE  T \in F
    <2> SUFFICES ASSUME NEW y \in T
                 PROVE  SlotsOf(T) = Slots(y) + SlotsOf(T \ {y})
      OBVIOUS
    <2> DEFINE z == Some(T)
    <2>1. z \in T
      BY SomeIsMember
    <2>2. SlotsOf(T) = Slots(z) + SlotsOf(T \ {z})
      BY SlotsOfSome, FS_Subset, RotationAssumption
    <2> HIDE DEF z
    <2>3. CASE y = z
      BY <2>2, <2>3
    <2>4. CASE y # z
      <3>1. y \in T \ {z} /\ z \in T \ {y} /\ T \ {z} \in F /\ T \ {y} \in F
        BY <1>2, <2>1, <2>4
      <3>2. SlotsOf(T \ {z}) = Slots(y) + SlotsOf((T \ {z}) \ {y})
        BY <3>1
      <3>3. SlotsOf(T \ {y}) = Slots(z) + SlotsOf((T \ {y}) \ {z})
        BY <3>1
      <3>4. (T \ {z}) \ {y} = (T \ {y}) \ {z}
        OBVIOUS
      <3>5. Slots(y) \in Nat /\ Slots(z) \in Nat /\ SlotsOf((T \ {y}) \ {z}) \in Nat
        BY <2>1, SlotsPositive, SlotsOfIsNat
      <3> QED BY <2>2, <3>2, <3>3, <3>4, <3>5
    <2> QED BY <2>3, <2>4
  <1>3. S \in F
    <2> HIDE DEF F
    <2> QED BY <1>1, <1>2, FiniteSetInduction, RotationAssumption
  <1> QED BY <1>3

LEMMA SlotsOfMonotone ==
  ASSUME NEW S \in SUBSET Keys, NEW R \in SUBSET S
  PROVE  SlotsOf(R) <= SlotsOf(S)
  <1> DEFINE F == {T \in SUBSET Keys : R \subseteq T => SlotsOf(R) <= SlotsOf(T)}
  <1>1. {} \in F
    BY SlotsOfEmpty
  <1>2. ASSUME NEW T \in SUBSET Keys, T # {}, \A y \in T : T \ {y} \in F
        PROVE  T \in F
    <2>1. CASE R = T
      BY <2>1, SlotsOfIsNat
    <2>2. ASSUME R \subseteq T, R # T
          PROVE  SlotsOf(R) <= SlotsOf(T)
      <3>1. PICK y \in T : y \notin R
        BY <2>2
      <3>2. SlotsOf(T) = Slots(y) + SlotsOf(T \ {y})
        BY SlotsOfRemove
      <3>3. SlotsOf(R) <= SlotsOf(T \ {y})
        BY <1>2, <2>2, <3>1
      <3>4. SlotsOf(R) \in Nat /\ SlotsOf(T \ {y}) \in Nat /\ Slots(y) \in Nat
        BY SlotsOfIsNat, SlotsPositive
      <3> QED BY <3>2, <3>3, <3>4
    <2> QED BY <2>1, <2>2
  <1>3. S \in F
    <2> HIDE DEF F
    <2> QED BY <1>1, <1>2, FiniteSetInduction, RotationAssumption
  <1> QED BY <1>3

-----------------------------------------------------------------------------
(* The places of the keys: k has the positions from Before(S, k) on, as     *)
(* many as its slots.                                                       *)

Before(S, k) == SlotsOf({j \in S : Order[j] < Order[k]})

LEMMA BeforeIsNat ==
  ASSUME NEW S \in SUBSET Keys, NEW k \in S
  PROVE  Before(S, k) \in Nat
  BY SlotsOfIsNat DEF Before

\* The places of a key lie inside any list that holds it and the keys before it.
LEMMA PlaceWithin ==
  ASSUME NEW S \in SUBSET Keys, NEW k \in S, NEW T \in SUBSET S,
         k \in T, {j \in S : Order[j] < Order[k]} \subseteq T
  PROVE  Before(S, k) + Slots(k) <= SlotsOf(T)
  <1> DEFINE R == {j \in S : Order[j] < Order[k]}
  <1>1. k \notin R
    BY RotationAssumption
  <1>2. SlotsOf(T) = Slots(k) + SlotsOf(T \ {k})
    BY SlotsOfRemove
  <1>3. SlotsOf(R) <= SlotsOf(T \ {k})
    BY <1>1, SlotsOfMonotone, R \in SUBSET (T \ {k}), T \ {k} \in SUBSET Keys
  <1>4. SlotsOf(R) \in Nat /\ SlotsOf(T \ {k}) \in Nat /\ Slots(k) \in Nat
    BY SlotsOfIsNat, SlotsPositive
  <1> QED BY <1>2, <1>3, <1>4 DEF Before

LEMMA PlacesInOrder ==
  ASSUME NEW S \in SUBSET Keys, NEW j \in S, NEW k \in S, Order[j] < Order[k]
  PROVE  Before(S, j) + Slots(j) <= Before(S, k)
  <1> DEFINE R(x) == {i \in S : Order[i] < Order[x]}
  <1>1. \A i \in S : Order[i] \in Nat
    BY RotationAssumption
  <1>2. j \in R(k) /\ R(j) \subseteq R(k) /\ R(k) \in SUBSET S
    BY <1>1
  <1>3. Before(S, j) + Slots(j) <= SlotsOf(R(k))
    BY <1>2, PlaceWithin
  <1> QED BY <1>3 DEF Before

LEMMA PlaceInList ==
  ASSUME NEW S \in SUBSET Keys, NEW k \in S
  PROVE  Before(S, k) + Slots(k) <= SlotsOf(S)
  BY PlaceWithin

\* The places cover the list.
LEMMA PlacesCover ==
  ASSUME NEW S \in SUBSET Keys, NEW n \in Nat, n < SlotsOf(S)
  PROVE  \E k \in S : Before(S, k) <= n /\ n < Before(S, k) + Slots(k)
  <1> DEFINE Holds(T, k) == Before(T, k) <= n /\ n < Before(T, k) + Slots(k)
             F == {T \in SUBSET Keys : n < SlotsOf(T) => \E k \in T : Holds(T, k)}
  <1>1. {} \in F
    BY SlotsOfEmpty
  <1>2. ASSUME NEW T \in SUBSET Keys, T # {}, \A y \in T : T \ {y} \in F
        PROVE  T \in F
    <2> SUFFICES ASSUME n < SlotsOf(T)
                 PROVE  \E k \in T : Holds(T, k)
      OBVIOUS
    <2>1. PICK m \in T : \A j \in T : Order[j] <= Order[m]
      <3> DEFINE O == {Order[j] : j \in T}
      <3>1. IsFiniteSet(T)
        BY FS_Subset, RotationAssumption
      <3>2. IsFiniteSet(O)
        <4> DEFINE f == [j \in T |-> Order[j]]
        <4>1. f \in Surjection(T, O)
          BY DEF Surjection
        <4> HIDE DEF O, f
        <4> QED BY <3>1, <4>1, FS_Surjection
      <3>4. O \in SUBSET Nat /\ O # {}
        BY <1>2, RotationAssumption
      <3>3. PICK o \in O : \A p \in O : p <= o
        <4> HIDE DEF O
        <4> QED BY <3>2, <3>4, GreatestNatural
      <3> QED BY <3>3
    <2>2. \A j \in T \ {m} : Order[j] < Order[m]
      BY <2>1, RotationAssumption
    <2>3. {j \in T : Order[j] < Order[m]} = T \ {m}
      BY <2>2, RotationAssumption
    <2>4. SlotsOf(T) = Slots(m) + SlotsOf(T \ {m})
      BY SlotsOfRemove
    <2>5. SlotsOf(T \ {m}) \in Nat /\ Slots(m) \in Nat
      BY SlotsOfIsNat, SlotsPositive
    <2>6. CASE n < SlotsOf(T \ {m})
      <3>1. PICK k \in T \ {m} : Holds(T \ {m}, k)
        BY <1>2, <2>6
      <3>2. {j \in T \ {m} : Order[j] < Order[k]} = {j \in T : Order[j] < Order[k]}
        <4>1. ~(Order[m] < Order[k]) /\ Order[m] \in Nat /\ Order[k] \in Nat
          BY <2>2, RotationAssumption
        <4> QED BY <4>1
      <3> QED BY <3>1, <3>2 DEF Before
    <2>7. CASE ~(n < SlotsOf(T \ {m}))
      <3>1. Holds(T, m)
        BY <2>3, <2>4, <2>5, <2>7 DEF Before
      <3> QED BY <3>1
    <2> QED BY <2>6, <2>7
  <1>3. S \in F
    <2> HIDE DEF F
    <2> QED BY <1>1, <1>2, FiniteSetInduction, RotationAssumption
  <1> QED BY <1>3

-----------------------------------------------------------------------------
(* Types, and the key a position serves *)

(* The variables keep their types, for any keys, weights and providers.     *)
THEOREM Typing == Spec => []TypeOK
  <1>1. Init => TypeOK
    BY RotationAssumption DEF Init, TypeOK
  <1>2. TypeOK /\ [Next]_vars => TypeOK'
    <2> SUFFICES ASSUME TypeOK, [Next]_vars
                 PROVE  TypeOK'
      OBVIOUS
    <2>1. ASSUME NEW p \in Providers, Select(p)
          PROVE  TypeOK'
      BY <2>1 DEF Select, TypeOK, KeysOf
    <2>2. CASE UNCHANGED vars
      BY <2>2 DEF vars, TypeOK
    <2> QED BY <2>1, <2>2 DEF Next
  <1> QED BY <1>1, <1>2, PTL DEF Spec

\* ServedBy, in terms of the places.
LEMMA ServedByPlace ==
  ASSUME NEW S, NEW k, NEW n
  PROVE  ServedBy(S, k, n) <=> /\ Before(S, k) <= n % SlotsOf(S)
                               /\ n % SlotsOf(S) < Before(S, k) + Slots(k)
  BY DEF ServedBy, Before

LEMMA ListIsLong ==
  ASSUME NEW S \in SUBSET Keys, S # {}
  PROVE  SlotsOf(S) \in Nat /\ SlotsOf(S) >= 1
  <1>1. PICK x \in S : TRUE
    OBVIOUS
  <1>2. SlotsOf(S) = Slots(x) + SlotsOf(S \ {x})
    BY SlotsOfRemove
  <1> QED BY <1>2, SlotsPositive, SlotsOfIsNat

\* The places tile the list: ServedBy names one key for every cursor.
LEMMA OneKeyServes ==
  ASSUME NEW S \in SUBSET Keys, S # {}, NEW n \in Nat
  PROVE  \E k \in S : \A j \in S : ServedBy(S, j, n) <=> j = k
  <1> DEFINE slot == n % SlotsOf(S)
  <1>1. slot \in Nat /\ slot < SlotsOf(S)
    BY ListIsLong
  <1> HIDE DEF slot
  <1>2. PICK k \in S : Before(S, k) <= slot /\ slot < Before(S, k) + Slots(k)
    BY <1>1, PlacesCover
  <1>3. ServedBy(S, k, n)
    BY <1>2, ServedByPlace DEF slot
  <1>4. ASSUME NEW j \in S, ServedBy(S, j, n), j # k
        PROVE  FALSE
    <2>1. Before(S, j) <= slot /\ slot < Before(S, j) + Slots(j)
      BY <1>4, ServedByPlace DEF slot
    <2>2. Order[j] < Order[k] \/ Order[k] < Order[j]
      BY <1>4, RotationAssumption
    <2>3. /\ Before(S, j) \in Nat /\ Before(S, k) \in Nat
          /\ Slots(j) \in Nat /\ Slots(k) \in Nat
      BY BeforeIsNat, SlotsPositive
    <2>4. CASE Order[j] < Order[k]
      BY <1>1, <1>2, <2>1, <2>3, <2>4, PlacesInOrder
    <2>5. CASE Order[k] < Order[j]
      BY <1>1, <1>2, <2>1, <2>3, <2>5, PlacesInOrder
    <2> QED BY <2>2, <2>4, <2>5
  <1> QED BY <1>3, <1>4

-----------------------------------------------------------------------------
(* A full round *)

\* How many of the positions from x up to y (not included) are from a up to b.
Overlap(x, y, a, b) ==
  LET from == IF x < a THEN a ELSE x
      to   == IF y < b THEN y ELSE b
  IN  IF from < to THEN to - from ELSE 0

\* How often r places of a list of length l, from place s on, meet the n places
\* of a key from a on, in this round of the list or the next.
Met(s, r, a, n, l) == Overlap(s, s + r, a, a + n) + Overlap(s, s + r, a + l, a + n + l)

\* A cursor that is now c began at place s of the list over S and has moved r
\* places; each key was served once for each of its places on the way.
Watched(c, count, S, s, r) ==
  LET l == SlotsOf(S)
  IN  /\ c % l = IF s + r < l THEN s + r ELSE s + r - l
      /\ \A k \in S :
           count[k] = Met(s, r, Before(S, k), Slots(k), l)

WatchInv(p) ==
  /\ TypeOK
  /\ rounds[p] <= SlotsOf(keys)
  /\ keys # {} => \E s \in 0 .. SlotsOf(keys) - 1 : Watched(cursor, served, keys, s, rounds[p])

LEMMA WatchBegins ==
  ASSUME NEW p \in Providers, Init
  PROVE  WatchInv(p)
  <1>1. TypeOK /\ rounds[p] = 0 /\ keys \in SUBSET Keys
    BY RotationAssumption DEF Init, TypeOK
  <1>2. rounds[p] <= SlotsOf(keys)
    BY <1>1, SlotsOfIsNat
  <1>3. ASSUME keys # {}
        PROVE  \E s \in 0 .. SlotsOf(keys) - 1 : Watched(cursor, served, keys, s, 0)
    <2> DEFINE l == SlotsOf(keys)
               s == cursor % l
    <2>1. l \in Nat /\ l >= 1 /\ cursor \in Nat
      BY <1>1, <1>3, ListIsLong DEF TypeOK
    <2>2. s \in 0 .. l - 1
      <3> HIDE DEF l
      <3> QED BY <2>1
    <2>3. ASSUME NEW k \in keys
          PROVE  served[k] = Met(s, 0, Before(keys, k), Slots(k), l)
      <3>1. Before(keys, k) \in Nat /\ Slots(k) \in Nat /\ served[k] = 0
        BY <1>1, BeforeIsNat, SlotsPositive DEF Init
      <3> HIDE DEF l, s
      <3> QED BY <2>1, <2>2, <3>1 DEF Met, Overlap
    <2> HIDE DEF l, s
    <2>4. s = IF s + 0 < l THEN s + 0 ELSE s + 0 - l
      BY <2>1, <2>2
    <2>5. Watched(cursor, served, keys, s, 0)
      BY <2>3, <2>4 DEF Watched, l, s
    <2> QED BY <2>2, <2>5 DEF l
  <1> QED BY <1>1, <1>2, <1>3 DEF WatchInv

\* A whole round meets each place of the list once.
LEMMA MetInRound ==
  ASSUME NEW l \in Nat, NEW s \in 0 .. l - 1,
         NEW a \in Nat, NEW n \in Nat, a + n <= l
  PROVE  Met(s, l, a, n, l) = n
  BY DEF Met, Overlap

LEMMA SelectWatched ==
  ASSUME NEW p, Providers = {p}, WatchInv(p), Select(p)
  PROVE  WatchInv(p)'
  <1> DEFINE l == SlotsOf(keys)
             r == rounds[p]
  <1>1. /\ keys \in SUBSET Keys /\ cursor \in Nat /\ r \in Nat
        /\ served \in [Keys -> Nat]
        /\ rounds \in [Providers -> Nat]
    BY DEF WatchInv, TypeOK
  <1>2. KeysOf(p) = keys
    BY <1>1, RotationAssumption DEF KeysOf
  <1>3. PICK k \in keys : /\ ServedBy(keys, k, cursor)
                          /\ served' = [served EXCEPT ![k] = @ + 1]
    BY <1>2 DEF Select
  <1>4. r < l /\ cursor' = cursor + 1 /\ keys' = keys /\ rounds'[p] = r + 1
    BY <1>1, <1>2 DEF Select
  <1>5. l \in Nat /\ l >= 1
    BY <1>1, <1>3, ListIsLong
  <1>6. PICK s \in 0 .. l - 1 : Watched(cursor, served, keys, s, r)
    BY <1>3 DEF WatchInv
  <1>7. TypeOK'
    BY <1>1, <1>3, <1>4 DEF TypeOK, Select
  <1>8. cursor % l = IF s + r < l THEN s + r ELSE s + r - l
    BY <1>6 DEF Watched
  <1>9. (cursor + 1) % l = IF s + (r + 1) < l THEN s + (r + 1) ELSE s + (r + 1) - l
    <2> HIDE DEF l, r
    <2>1. (cursor + 1) % l = IF (cursor % l) + 1 = l THEN 0 ELSE (cursor % l) + 1
      BY <1>1, <1>5, NextRemainder
    <2> QED BY <1>1, <1>4, <1>5, <1>8, <2>1
  <1>10. ASSUME NEW j \in keys
         PROVE  served'[j] = Met(s, r + 1, Before(keys, j), Slots(j), l)
    <2> DEFINE a == Before(keys, j)
               n == Slots(j)
    <2>1. /\ a \in Nat /\ n \in Nat /\ a + n <= l
          /\ j \in Keys /\ served[j] \in Nat
      BY <1>1, BeforeIsNat, SlotsPositive, PlaceInList
    <2>2. served[j] = Met(s, r, a, n, l)
      BY <1>6 DEF Watched
    <2>3. served'[j] = served[j] + (IF j = k THEN 1 ELSE 0)
      BY <1>1, <1>3, <2>1
    <2>4. j = k <=> ServedBy(keys, j, cursor)
      BY <1>1, <1>3, OneKeyServes
    <2>5. ServedBy(keys, j, cursor) <=> a <= cursor % l /\ cursor % l < a + n
      BY ServedByPlace
    <2>6. Met(s, r + 1, a, n, l) =
            served[j] + (IF a <= cursor % l /\ cursor % l < a + n THEN 1 ELSE 0)
      <3> HIDE DEF l, r, a, n
      <3>1. /\ l \in Nat /\ s \in 0 .. l - 1 /\ r \in Nat /\ r < l
            /\ a \in Nat /\ n \in Nat /\ a + n <= l
        BY <1>1, <1>4, <1>5, <2>1
      <3>2. CASE s + r < l
        <4>1. cursor % l = s + r
          BY <1>8, <3>2
        <4> QED BY <2>2, <3>1, <3>2, <4>1 DEF Met, Overlap
      <3>3. CASE ~(s + r < l)
        <4>1. cursor % l = s + r - l
          BY <1>8, <3>3
        <4> QED BY <2>2, <3>1, <3>3, <4>1 DEF Met, Overlap
      <3> QED BY <3>2, <3>3
    <2> HIDE DEF l, r, a, n
    <2>7. served'[j] = Met(s, r + 1, a, n, l)
      BY <2>3, <2>4, <2>5, <2>6
    <2> QED BY <2>7 DEF a, n
  <1>11. Watched(cursor', served', keys, s, r + 1)
    BY <1>4, <1>9, <1>10 DEF Watched
  <1>12. r + 1 <= l /\ \E t \in 0 .. l - 1 : Watched(cursor', served', keys, t, r + 1)
    <2> HIDE DEF l, r
    <2> QED BY <1>1, <1>4, <1>5, <1>11
  <1> QED BY <1>4, <1>7, <1>12 DEF WatchInv

(* A pool whose keys are of one provider: a full round, from any cursor,    *)
(* serves every key as often as it stands in the list.  (With two providers *)
(* the pool's cursor is shared, and the run "shared" refutes it.)        *)
THEOREM FullRound ==
  ASSUME NEW p, Providers = {p}
  PROVE  Spec => []FullRoundIsFair
  <1>1. Init => WatchInv(p)
    BY WatchBegins
  <1>2. WatchInv(p) /\ [Next]_vars => WatchInv(p)'
    <2>1. ASSUME WatchInv(p), UNCHANGED vars
          PROVE  WatchInv(p)'
      BY <2>1 DEF vars, WatchInv, TypeOK, Watched, Before
    <2> QED BY <2>1, SelectWatched DEF Next
  <1>3. WatchInv(p) => FullRoundIsFair
    <2> SUFFICES ASSUME WatchInv(p), rounds[p] = SlotsOf(KeysOf(p)), NEW k \in KeysOf(p)
                 PROVE  served[k] = Slots(k)
      BY DEF FullRoundIsFair
    <2> DEFINE l == SlotsOf(keys)
    <2>1. keys \in SUBSET Keys /\ KeysOf(p) = keys
      BY RotationAssumption DEF WatchInv, TypeOK, KeysOf
    <2>2. PICK s \in 0 .. l - 1 : Watched(cursor, served, keys, s, l)
      BY <2>1 DEF WatchInv
    <2>3. /\ l \in Nat /\ Before(keys, k) \in Nat /\ Slots(k) \in Nat
          /\ Before(keys, k) + Slots(k) <= l
      BY <2>1, ListIsLong, BeforeIsNat, SlotsPositive, PlaceInList
    <2>4. served[k] = Met(s, l, Before(keys, k), Slots(k), l)
      BY <2>1, <2>2 DEF Watched
    <2> HIDE DEF l
    <2> QED BY <2>3, <2>4, MetInRound
  <1> QED BY <1>1, <1>2, <1>3, PTL DEF Spec

=============================================================================

-------------------------------- MODULE Lemmas --------------------------------
(***************************************************************************)
(* What the proof modules share about numbers and finite sets.  Induction  *)
(* is stated with a set in the place of the predicate: to show P(n) for    *)
(* every n, show that {n \in Nat : P(n)} has the hypotheses of             *)
(* NatSetInduction.  What follows from one of these lemmas is about the    *)
(* functions the models define recursively.                                *)
(***************************************************************************)
EXTENDS FiniteSetTheorems, TLAPS

-----------------------------------------------------------------------------
(* Induction *)

\* A non-empty set of finite sets has a minimal member.
LEMMA MinimalSet ==
  ASSUME NEW F, F # {}, \A T \in F : IsFiniteSet(T)
  PROVE  \E T \in F : \A U \in F : U \subseteq T => U = T
  <1> DEFINE S == UNION F
             R == StrictSubsetOrdering(S)
             D == FiniteSubsetsOf(S)
  <1>1. IsWellFoundedOn(R, D)
    BY FS_StrictSubsetOrderingWellFounded
  <1>2. F \subseteq D
    BY DEF FiniteSubsetsOf
  <1>3. \A T, U \in F : U \subseteq T /\ U # T => <<U, T>> \in R
    BY DEF StrictSubsetOrdering
  <1> HIDE DEF R, D
  <1>4. PICK T \in F : \A U \in F : ~(<<U, T>> \in R)
    BY <1>1, <1>2, WFMin
  <1> QED BY <1>3, <1>4

\* A set of natural numbers that is not empty has a least member.
LEMMA LeastNatural ==
  ASSUME NEW S \in SUBSET Nat, S # {}
  PROVE  \E n \in S : \A m \in S : n <= m
  <1> DEFINE F == {0 .. k : k \in S}
  <1>1. F # {} /\ \A T \in F : IsFiniteSet(T)
    <2>1. \A k \in S : IsFiniteSet(0 .. k)
      BY FS_Interval
    <2> QED BY <2>1
  <1>2. PICK T \in F : \A U \in F : U \subseteq T => U = T
    <2> HIDE DEF F
    <2> QED BY <1>1, MinimalSet
  <1>3. PICK n \in S : T = 0 .. n
    OBVIOUS
  <1>4. ASSUME NEW m \in S, m < n
        PROVE  FALSE
    <2>1. 0 .. m \in F /\ 0 .. m \subseteq T /\ n \in T /\ n \notin 0 .. m
      BY <1>3, <1>4
    <2> QED BY <1>2, <2>1
  <1> QED BY <1>4

LEMMA NatSetInduction ==
  ASSUME NEW S, 0 \in S, \A n \in Nat : n \in S => n + 1 \in S
  PROVE  Nat \subseteq S
  <1> SUFFICES ASSUME Nat \ S # {}
               PROVE  FALSE
    OBVIOUS
  <1>1. PICK n \in Nat \ S : \A m \in Nat \ S : n <= m
    BY LeastNatural
  <1>2. n # 0 /\ n - 1 \in Nat /\ n = (n - 1) + 1
    BY <1>1
  <1>3. n - 1 \in S
    BY <1>1, <1>2
  <1> QED BY <1>2, <1>3

LEMMA IntervalInduction ==
  ASSUME NEW n \in Nat, NEW S,
         0 \in S, \A i \in 0 .. n : i + 1 \in 0 .. n /\ i \in S => i + 1 \in S
  PROVE  0 .. n \subseteq S
  <1> DEFINE T == {i \in Nat : i \in 0 .. n => i \in S}
  <1>1. 0 \in T /\ \A i \in Nat : i \in T => i + 1 \in T
    OBVIOUS
  <1>2. Nat \subseteq T
    <2> HIDE DEF T
    <2> QED BY <1>1, NatSetInduction
  <1> QED BY <1>2

LEMMA FiniteSetInduction ==
  ASSUME NEW S, IsFiniteSet(S), NEW F, {} \in F,
         \A T \in SUBSET S : T # {} /\ (\A x \in T : T \ {x} \in F) => T \in F
  PROVE  \A T \in SUBSET S : T \in F
  <1> DEFINE G == (SUBSET S) \ F
  <1> SUFFICES ASSUME G # {}
               PROVE  FALSE
    OBVIOUS
  <1>1. \A T \in G : IsFiniteSet(T)
    BY FS_Subset
  <1>2. PICK T \in G : \A U \in G : U \subseteq T => U = T
    <2> HIDE DEF G
    <2> QED BY <1>1, MinimalSet
  <1>3. T \in SUBSET S /\ T \notin F /\ T # {}
    OBVIOUS
  <1>4. ASSUME NEW x \in T
        PROVE  T \ {x} \in F
    <2>1. T \ {x} \in SUBSET S /\ T \ {x} \subseteq T /\ T \ {x} # T
      BY <1>3
    <2> QED BY <1>2, <2>1
  <1> QED BY <1>3, <1>4

\* A finite set of natural numbers that is not empty has a greatest member.
LEMMA GreatestNatural ==
  ASSUME NEW S \in SUBSET Nat, IsFiniteSet(S), S # {}
  PROVE  \E n \in S : \A m \in S : m <= n
  <1> DEFINE F == {T \in SUBSET S : T = {} \/ \E n \in T : \A m \in T : m <= n}
  <1>1. ASSUME NEW T \in SUBSET S, T # {}, \A x \in T : T \ {x} \in F
        PROVE  T \in F
    <2>0. PICK x \in T : T \ {x} \in F
      BY <1>1
    <2>1. CASE T \ {x} = {}
      <3>1. \A m \in T : m <= x
        BY <2>1
      <3> QED BY <3>1
    <2>2. CASE T \ {x} # {}
      <3>1. PICK n \in T \ {x} : \A m \in T \ {x} : m <= n
        BY <2>0, <2>2
      <3>2. CASE n <= x
        <4>1. \A m \in T : m <= x
          BY <3>1, <3>2
        <4> QED BY <4>1
      <3>3. CASE ~(n <= x)
        <4>1. \A m \in T : m <= n
          BY <3>1, <3>3
        <4> QED BY <4>1
      <3> QED BY <3>2, <3>3
    <2> QED BY <2>1, <2>2
  <1>2. {} \in F
    OBVIOUS
  <1>3. \A T \in SUBSET S : T \in F
    <2> HIDE DEF F
    <2> QED BY <1>1, <1>2, FiniteSetInduction
  <1> QED BY <1>3

\* f is defined by recursion over an interval: g tells each value from the one
\* before.
IsRecursion(f, n, a, g) == f[0] = a /\ \A i \in 1 .. n : f[i] = g[i][f[i - 1]]

\* Such a function exists.
LEMMA IntervalRecursion ==
  ASSUME NEW n \in Nat, NEW V, NEW a \in V,
         NEW g, \A i \in 1 .. n : \A v \in V : g[i][v] \in V
  PROVE  \E f \in [0 .. n -> V] : IsRecursion(f, n, a, g)
  <1> USE DEF IsRecursion
  <1> DEFINE S == {k \in 0 .. n : \E f \in [0 .. k -> V] : IsRecursion(f, k, a, g)}
  <1>1. 0 \in S
    <2> DEFINE f == [i \in 0 .. 0 |-> a]
    <2>1. f \in [0 .. 0 -> V] /\ f[0] = a /\ 1 .. 0 = {}
      OBVIOUS
    <2>2. IsRecursion(f, 0, a, g)
      BY <2>1
    <2> HIDE DEF f
    <2> QED BY <2>1, <2>2
  <1>2. ASSUME NEW k \in 0 .. n, k + 1 \in 0 .. n, k \in S
        PROVE  k + 1 \in S
    <2>1. PICK f \in [0 .. k -> V] : IsRecursion(f, k, a, g)
      BY <1>2
    <2> DEFINE h == [i \in 0 .. k + 1 |-> IF i = k + 1 THEN g[k + 1][f[k]] ELSE f[i]]
    <2>2. h \in [0 .. k + 1 -> V]
      BY <1>2
    <2>3. IsRecursion(h, k + 1, a, g)
      BY <1>2, <2>1
    <2> HIDE DEF h, IsRecursion
    <2>4. \E e \in [0 .. k + 1 -> V] : IsRecursion(e, k + 1, a, g)
      BY <2>2, <2>3
    <2> QED BY <1>2, <2>4
  <1>3. n \in S
    <2> HIDE DEF S
    <2>1. 0 .. n \subseteq S
      BY <1>1, <1>2, IntervalInduction
    <2> QED BY <2>1
  <1> HIDE DEF IsRecursion
  <1> QED BY <1>3

-----------------------------------------------------------------------------
(* Division with remainder *)

LEMMA MultipleIsLarge ==
  ASSUME NEW l \in Nat, NEW d \in Int, d >= 1
  PROVE  l * d >= l
  <1>1. l * d = l + l * (d - 1)
    OBVIOUS
  <1>2. l * (d - 1) >= 0
    OBVIOUS
  <1> QED BY <1>1, <1>2

LEMMA QuotientRemainder ==
  ASSUME NEW c \in Nat, NEW l \in Nat, l >= 1
  PROVE  /\ c \div l \in Int /\ c % l \in 0 .. l - 1
         /\ c = l * (c \div l) + (c % l)
  OBVIOUS

LEMMA RemainderUnique ==
  ASSUME NEW c \in Nat, NEW l \in Nat, l >= 1,
         NEW q \in Int, NEW r \in 0 .. l - 1, c = l * q + r
  PROVE  c % l = r
  <1> DEFINE p == c \div l
             s == c % l
  <1>1. p \in Int /\ s \in 0 .. l - 1 /\ c = l * p + s
    BY QuotientRemainder
  <1> HIDE DEF p, s
  <1>2. l * (p - q) = r - s /\ l * (q - p) = s - r
    BY <1>1
  <1>3. CASE p = q
    BY <1>1, <1>2, <1>3 DEF s
  <1>4. CASE p - q >= 1
    BY <1>1, <1>2, <1>4, MultipleIsLarge
  <1>5. CASE q - p >= 1
    BY <1>1, <1>2, <1>5, MultipleIsLarge
  <1> QED BY <1>1, <1>3, <1>4, <1>5

\* The remainder moves on by one and wraps round.
LEMMA NextRemainder ==
  ASSUME NEW c \in Nat, NEW l \in Nat, l >= 1
  PROVE  (c + 1) % l = IF (c % l) + 1 = l THEN 0 ELSE (c % l) + 1
  <1> DEFINE p == c \div l
             s == c % l
  <1>1. p \in Int /\ s \in 0 .. l - 1 /\ c = l * p + s
    BY QuotientRemainder
  <1> HIDE DEF p, s
  <1>2. CASE s + 1 = l
    <2>1. c + 1 = l * (p + 1) + 0 /\ p + 1 \in Int
      BY <1>1, <1>2
    <2>2. c + 1 \in Nat /\ 0 \in 0 .. l - 1
      OBVIOUS
    <2>3. (c + 1) % l = 0
      BY <2>1, <2>2, RemainderUnique
    <2> QED BY <1>2, <2>3 DEF s
  <1>3. CASE s + 1 # l
    <2>1. c + 1 = l * p + (s + 1) /\ s + 1 \in 0 .. l - 1
      BY <1>1, <1>3
    <2>2. c + 1 \in Nat
      OBVIOUS
    <2>3. (c + 1) % l = s + 1
      BY <1>1, <2>1, <2>2, RemainderUnique
    <2> QED BY <1>3, <2>3 DEF s
  <1> QED BY <1>2, <1>3

=============================================================================

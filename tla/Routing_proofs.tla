---------------------------- MODULE Routing_proofs ----------------------------
(***************************************************************************)
(* What can be routed, for every config file and every order of console    *)
(* calls, crashes and restarts: a key that is stored is served, the only   *)
(* routes a restart adds are those of entries it opens again, and a        *)
(* running gateway keeps the routes it has.                                *)
(*                                                                         *)
(* The pools only grow by targets of keys, and a start-up grows those of   *)
(* the file again by the targets of the stored keys, in another order: the *)
(* invariant says what of the pools is the file's, and that every stored   *)
(* key found or made its place.                                            *)
(***************************************************************************)
EXTENDS Lifecycle_proofs, Lemmas

-----------------------------------------------------------------------------
(* What the console and a start-up add to the pools.                        *)

AnyModel == Models \cup Optional(STRING)
Entry    == [provider : STRING, models : SUBSET AnyModel]
Pool     == [name : STRING, entries : Seq(Entry)]
Config   == [providers : SUBSET STRING, pools : Seq(Pool), adapters : SUBSET STRING]

\* What is added for a key: its provider and model to its pool.
IsTarget(r) == r.provider \in STRING /\ r.pool \in STRING /\ r.model \in Optional(STRING)

\* Entry j is the first of provider p.
First(es, p, j) ==
  /\ j \in 1 .. Len(es)
  /\ es[j].provider = p
  /\ \A i \in 1 .. j - 1 : es[i].provider # p

\* The entries es are still there, perhaps with more models; others may follow.
EntriesKept(us, es) ==
  /\ Len(us) >= Len(es)
  /\ \A j \in 1 .. Len(es) : /\ us[j].provider = es[j].provider
                             /\ es[j].models \subseteq us[j].models

\* The same of pools; a new pool has a new name.
PoolsKept(qs, ps) ==
  /\ Len(qs) >= Len(ps)
  /\ \A i \in 1 .. Len(ps) : /\ qs[i].name = ps[i].name
                             /\ EntriesKept(qs[i].entries, ps[i].entries)
  /\ \A i \in Len(ps) + 1 .. Len(qs) : \A k \in 1 .. Len(ps) : ps[k].name # qs[i].name

\* An entry open to every model was there before.
OpenKept(qs, ps) ==
  \A i \in 1 .. Len(qs) : \A j \in 1 .. Len(qs[i].entries) :
    qs[i].entries[j].models = {} => i \in 1 .. Len(ps) /\ j \in 1 .. Len(ps[i].entries)

\* A model of an entry was there before, or was added for a record of R.
Explained(qs, ps, R) ==
  \A i \in 1 .. Len(qs) : \A j \in 1 .. Len(qs[i].entries) :
    \A m \in qs[i].entries[j].models :
      \/ /\ i \in 1 .. Len(ps) /\ j \in 1 .. Len(ps[i].entries)
         /\ m \in ps[i].entries[j].models
      \/ \E r \in R : /\ r.pool = qs[i].name /\ r.model = m
                      /\ First(qs[i].entries, r.provider, j)

\* Every pool of its name has the model of r in the first entry of its provider.
Holds(ps, r) ==
  /\ \E i \in 1 .. Len(ps) : ps[i].name = r.pool
  /\ \A i \in 1 .. Len(ps) : ps[i].name = r.pool =>
       \E j \in 1 .. Len(ps[i].entries) : /\ First(ps[i].entries, r.provider, j)
                                          /\ r.model \in ps[i].entries[j].models

\* Nothing of b is gone in c, and c opens no entry that b does not.
Kept(c, b) ==
  /\ PoolsKept(c.pools, b.pools)
  /\ OpenKept(c.pools, b.pools)
  /\ b.providers \subseteq c.providers
  /\ b.adapters \subseteq c.adapters

\* c is b and what was added for the records R.
Grown(c, b, R) ==
  /\ Kept(c, b)
  /\ Explained(c.pools, b.pools, R)
  /\ c.providers \subseteq b.providers \cup {r.provider : r \in R}

LEMMA FirstIsLeast ==
  ASSUME NEW es \in Seq(Entry), NEW p, EntriesOf(es, p) # {}
  PROVE  First(es, p, Least(EntriesOf(es, p)))
  <1>1. EntriesOf(es, p) \in SUBSET Nat
    BY DEF EntriesOf
  <1>2. PICK j \in EntriesOf(es, p) : \A i \in EntriesOf(es, p) : j <= i
    BY <1>1, LeastNatural
  <1> DEFINE l == Least(EntriesOf(es, p))
  <1>3. l \in EntriesOf(es, p) /\ \A i \in EntriesOf(es, p) : l <= i
    BY <1>2 DEF Least
  <1> HIDE DEF l
  <1>4. l \in 1 .. Len(es) /\ es[l].provider = p
    BY <1>3 DEF EntriesOf
  <1>5. ASSUME NEW i \in 1 .. l - 1
        PROVE  es[i].provider # p
    <2>1. i \in DOMAIN es /\ ~(l <= i)
      BY <1>4
    <2> QED BY <1>3, <2>1 DEF EntriesOf
  <1> QED BY <1>4, <1>5 DEF First, l

LEMMA FirstKept ==
  ASSUME NEW es \in Seq(Entry), NEW us \in Seq(Entry), EntriesKept(us, es),
         NEW p, NEW j \in 1 .. Len(es)
  PROVE  First(us, p, j) <=> First(es, p, j)
  BY DEF First, EntriesKept

LEMMA UpsertEntryGrows ==
  ASSUME NEW es \in Seq(Entry), NEW x, IsTarget(x)
  PROVE  LET us == UpsertEntry(es, x) IN
         /\ us \in Seq(Entry)
         /\ EntriesKept(us, es)
         /\ \E j \in 1 .. Len(us) :
              /\ First(us, x.provider, j) /\ x.model \in us[j].models
              /\ j \in 1 .. Len(es) => us[j].models = es[j].models \cup {x.model}
              /\ j \notin 1 .. Len(es) => us[j].models = {x.model}
              /\ \A i \in 1 .. Len(us) : i # j => i \in 1 .. Len(es) /\ us[i] = es[i]
  <1> DEFINE us == UpsertEntry(es, x)
  <1>1. x.model \in AnyModel /\ x.provider \in STRING
    BY DEF IsTarget, AnyModel
  <1>2. CASE EntriesOf(es, x.provider) # {}
    <2> DEFINE j == Least(EntriesOf(es, x.provider))
    <2>1. First(es, x.provider, j)
      BY <1>2, FirstIsLeast
    <2>2. us = [es EXCEPT ![j].models = @ \cup {x.model}]
      BY <1>2 DEF UpsertEntry
    <2> HIDE DEF j, us
    <2>3. j \in 1 .. Len(es) /\ es[j] \in Entry
      BY <2>1 DEF First
    <2>4. [es[j] EXCEPT !.models = @ \cup {x.model}] \in Entry
      BY <1>1, <2>3 DEF Entry
    <2>5. /\ us \in Seq(Entry) /\ Len(us) = Len(es)
          /\ \A i \in 1 .. Len(es) : i # j => us[i] = es[i]
          /\ us[j].provider = es[j].provider
          /\ us[j].models = es[j].models \cup {x.model}
      BY <2>2, <2>3, <2>4 DEF Entry
    <2>6. EntriesKept(us, es)
      BY <2>3, <2>5 DEF EntriesKept
    <2>7. First(us, x.provider, j)
      BY <2>1, <2>3, <2>5, <2>6, FirstKept
    <2> QED BY <2>3, <2>5, <2>6, <2>7 DEF us
  <1>3. CASE EntriesOf(es, x.provider) = {}
    <2> DEFINE e == [provider |-> x.provider, models |-> {x.model}]
               j == Len(es) + 1
    <2>1. us = Append(es, e) /\ e \in Entry
      BY <1>1, <1>3 DEF UpsertEntry, Entry
    <2>2. /\ us \in Seq(Entry) /\ Len(us) = j /\ us[j] = e
          /\ \A i \in 1 .. Len(es) : us[i] = es[i]
      <3> HIDE DEF e, us
      <3> QED BY <2>1
    <2>3. \A i \in 1 .. Len(es) : es[i].provider # x.provider
      BY <1>3 DEF EntriesOf
    <2>4. e.provider = x.provider /\ e.models = {x.model}
      OBVIOUS
    <2> HIDE DEF e, us
    <2>5. First(us, x.provider, j)
      BY <2>2, <2>3, <2>4 DEF First
    <2>6. EntriesKept(us, es)
      BY <2>2 DEF EntriesKept
    <2> QED BY <2>2, <2>4, <2>5, <2>6 DEF us
  <1> QED BY <1>2, <1>3

LEMMA EntriesKeptSelf ==
  ASSUME NEW es \in Seq(Entry)
  PROVE  EntriesKept(es, es)
  BY DEF EntriesKept

\* What UpsertEntry does to one pool, in the words of Grown.
LEMMA UpsertEntryAdds ==
  ASSUME NEW es \in Seq(Entry), NEW x, IsTarget(x)
  PROVE  LET us == UpsertEntry(es, x) IN
         /\ us \in Seq(Entry)
         /\ EntriesKept(us, es)
         /\ \A j \in 1 .. Len(us) : us[j].models = {} => j \in 1 .. Len(es)
         /\ \A j \in 1 .. Len(us) : \A m \in us[j].models :
              \/ j \in 1 .. Len(es) /\ m \in es[j].models
              \/ x.model = m /\ First(us, x.provider, j)
         /\ \E j \in 1 .. Len(us) : First(us, x.provider, j) /\ x.model \in us[j].models
  <1> DEFINE us == UpsertEntry(es, x)
  <1> HIDE DEF us
  <1>1. us \in Seq(Entry) /\ EntriesKept(us, es)
    BY UpsertEntryGrows DEF us
  <1>2. PICK j \in 1 .. Len(us) :
              /\ First(us, x.provider, j) /\ x.model \in us[j].models
              /\ j \in 1 .. Len(es) => us[j].models = es[j].models \cup {x.model}
              /\ j \notin 1 .. Len(es) => us[j].models = {x.model}
              /\ \A i \in 1 .. Len(us) : i # j => i \in 1 .. Len(es) /\ us[i] = es[i]
    BY UpsertEntryGrows DEF us
  <1>3. \A i \in 1 .. Len(us) : us[i].models = {} => i \in 1 .. Len(es)
    BY <1>2
  <1>4. ASSUME NEW i \in 1 .. Len(us), NEW m \in us[i].models
        PROVE  \/ i \in 1 .. Len(es) /\ m \in es[i].models
               \/ x.model = m /\ First(us, x.provider, i)
    BY <1>2, <1>4
  <1> QED BY <1>1, <1>2, <1>3, <1>4 DEF us

LEMMA UpsertPoolGrows ==
  ASSUME NEW ps \in Seq(Pool), NEW x, IsTarget(x)
  PROVE  LET qs == UpsertPool(ps, x) IN
         /\ qs \in Seq(Pool)
         /\ PoolsKept(qs, ps)
         /\ OpenKept(qs, ps)
         /\ Explained(qs, ps, {x})
         /\ Holds(qs, x)
  <1> DEFINE qs == UpsertPool(ps, x)
  <1>0. \A i \in 1 .. Len(ps) : /\ ps[i] \in Pool /\ ps[i].entries \in Seq(Entry)
                                /\ ps[i].name \in STRING
    <2>1. \A i \in 1 .. Len(ps) : ps[i] \in Pool
      OBVIOUS
    <2> QED BY <2>1 DEF Pool
  <1>1. CASE \E i \in DOMAIN ps : ps[i].name = x.pool
    <2> DEFINE Hit(i) == ps[i].name = x.pool
               ues(i) == UpsertEntry(ps[i].entries, x)
    <2>1. qs = [i \in DOMAIN ps |->
                  IF Hit(i) THEN [ps[i] EXCEPT !.entries = ues(i)] ELSE ps[i]]
      BY <1>1 DEF UpsertPool
    <2> HIDE DEF qs
    <2>2. ASSUME NEW i \in 1 .. Len(ps), Hit(i)
          PROVE  /\ ues(i) \in Seq(Entry)
                 /\ EntriesKept(ues(i), ps[i].entries)
                 /\ \A j \in 1 .. Len(ues(i)) :
                      ues(i)[j].models = {} => j \in 1 .. Len(ps[i].entries)
                 /\ \A j \in 1 .. Len(ues(i)) : \A m \in ues(i)[j].models :
                      \/ j \in 1 .. Len(ps[i].entries) /\ m \in ps[i].entries[j].models
                      \/ x.model = m /\ First(ues(i), x.provider, j)
                 /\ \E j \in 1 .. Len(ues(i)) : /\ First(ues(i), x.provider, j)
                                                /\ x.model \in ues(i)[j].models
      BY <1>0, UpsertEntryAdds
    <2> HIDE DEF ues
    <2>3. ASSUME NEW i \in 1 .. Len(ps)
          PROVE  /\ qs[i] \in Pool /\ qs[i].name = ps[i].name
                 /\ Hit(i) => qs[i].entries = ues(i)
                 /\ ~Hit(i) => qs[i] = ps[i]
      <3>1. CASE Hit(i)
        <4>1. qs[i] = [ps[i] EXCEPT !.entries = ues(i)]
          BY <2>1, <3>1
        <4>2. [ps[i] EXCEPT !.entries = ues(i)] \in Pool
          BY <1>0, <2>2, <3>1 DEF Pool
        <4>3. qs[i].name = ps[i].name /\ qs[i].entries = ues(i)
          BY <1>0, <4>1 DEF Pool
        <4> QED BY <3>1, <4>1, <4>2, <4>3
      <3>2. CASE ~Hit(i)
        BY <1>0, <2>1, <3>2
      <3> QED BY <3>1, <3>2
    <2>4. Len(qs) = Len(ps) /\ qs \in Seq(Pool)
      <3>1. DOMAIN ps = 1 .. Len(ps) /\ Len(ps) \in Nat
        OBVIOUS
      <3>2. qs \in [1 .. Len(ps) -> Pool]
        BY <2>1, <2>3, <3>1
      <3> QED BY <3>1, <3>2
    <2>5. PoolsKept(qs, ps)
      <3>1. ASSUME NEW i \in 1 .. Len(ps)
            PROVE  EntriesKept(qs[i].entries, ps[i].entries)
        BY <1>0, <2>2, <2>3, EntriesKeptSelf
      <3> QED BY <2>3, <2>4, <3>1 DEF PoolsKept
    <2>6. OpenKept(qs, ps)
      BY <2>2, <2>3, <2>4 DEF OpenKept
    <2>7. ASSUME NEW i \in 1 .. Len(qs), NEW j \in 1 .. Len(qs[i].entries),
                 NEW m \in qs[i].entries[j].models
          PROVE  \/ /\ i \in 1 .. Len(ps) /\ j \in 1 .. Len(ps[i].entries)
                    /\ m \in ps[i].entries[j].models
                 \/ /\ x.pool = qs[i].name /\ x.model = m
                    /\ First(qs[i].entries, x.provider, j)
      BY <2>2, <2>3, <2>4
    <2>8. Explained(qs, ps, {x})
      BY <2>7 DEF Explained
    <2>9. Holds(qs, x)
      <3>1. \E i \in 1 .. Len(qs) : qs[i].name = x.pool
        BY <1>1, <2>3, <2>4
      <3>2. ASSUME NEW i \in 1 .. Len(qs), qs[i].name = x.pool
            PROVE  \E j \in 1 .. Len(qs[i].entries) :
                       /\ First(qs[i].entries, x.provider, j)
                       /\ x.model \in qs[i].entries[j].models
        <4>1. i \in 1 .. Len(ps) /\ Hit(i) /\ qs[i].entries = ues(i)
          BY <2>3, <2>4, <3>2
        <4> QED BY <2>2, <4>1
      <3> QED BY <3>1, <3>2 DEF Holds
    <2> QED BY <2>4, <2>5, <2>6, <2>8, <2>9 DEF qs
  <1>2. CASE ~ \E i \in DOMAIN ps : ps[i].name = x.pool
    <2> DEFINE us == UpsertEntry(<<>>, x)
               q  == [name |-> x.pool, entries |-> us]
    <2>1. <<>> \in Seq(Entry) /\ Len(<<>>) = 0
      OBVIOUS
    <2>2. /\ us \in Seq(Entry)
          /\ \A j \in 1 .. Len(us) : us[j].models # {}
          /\ \A j \in 1 .. Len(us) : \A m \in us[j].models :
                x.model = m /\ First(us, x.provider, j)
          /\ \E j \in 1 .. Len(us) : First(us, x.provider, j) /\ x.model \in us[j].models
      <3>1. PICK es \in Seq(Entry) : es = <<>> /\ Len(es) = 0
        BY <2>1
      <3>2. LET w == UpsertEntry(es, x) IN
            /\ w \in Seq(Entry)
            /\ \A j \in 1 .. Len(w) : w[j].models = {} => j \in 1 .. Len(es)
            /\ \A j \in 1 .. Len(w) : \A m \in w[j].models :
                 \/ j \in 1 .. Len(es) /\ m \in es[j].models
                 \/ x.model = m /\ First(w, x.provider, j)
            /\ \E j \in 1 .. Len(w) : /\ First(w, x.provider, j)
                                      /\ x.model \in w[j].models
        BY UpsertEntryAdds
      <3>3. us = UpsertEntry(es, x)
        BY <3>1
      <3> HIDE DEF us
      <3>4. \A j : j \notin 1 .. Len(es)
        BY <3>1
      <3> QED BY <3>2, <3>3, <3>4
    <2>3. qs = Append(ps, q)
      BY <1>2 DEF UpsertPool
    <2> HIDE DEF us
    <2>4. q \in Pool /\ q.name = x.pool /\ q.entries = us
      BY <2>2 DEF Pool, IsTarget
    <2> HIDE DEF q, qs
    <2>5. /\ qs \in Seq(Pool) /\ Len(qs) = Len(ps) + 1 /\ qs[Len(ps) + 1] = q
          /\ \A i \in 1 .. Len(ps) : qs[i] = ps[i]
      BY <2>3, <2>4
    <2>6. \A i \in 1 .. Len(ps) : ps[i].name # x.pool
      BY <1>2
    <2>7. PoolsKept(qs, ps)
      BY <1>0, <2>4, <2>5, <2>6, EntriesKeptSelf DEF PoolsKept
    <2>8. OpenKept(qs, ps)
      BY <2>2, <2>4, <2>5 DEF OpenKept
    <2>9. Explained(qs, ps, {x})
      BY <2>2, <2>4, <2>5 DEF Explained
    <2>10. Holds(qs, x)
      <3>1. Len(ps) + 1 \in 1 .. Len(qs) /\ qs[Len(ps) + 1].name = x.pool
        BY <2>4, <2>5
      <3>2. ASSUME NEW i \in 1 .. Len(qs), qs[i].name = x.pool
            PROVE  qs[i].entries = us
        <4>1. i = Len(ps) + 1
          BY <2>5, <2>6, <3>2
        <4> QED BY <2>4, <2>5, <4>1
      <3>3. ASSUME NEW i \in 1 .. Len(qs), qs[i].name = x.pool
            PROVE  \E j \in 1 .. Len(qs[i].entries) :
                       /\ First(qs[i].entries, x.provider, j)
                       /\ x.model \in qs[i].entries[j].models
        BY <2>2, <3>2, <3>3
      <3> QED BY <3>1, <3>3 DEF Holds
    <2> QED BY <2>5, <2>7, <2>8, <2>9, <2>10 DEF qs
  <1> QED BY <1>1, <1>2

LEMMA HoldsKept ==
  ASSUME NEW ps \in Seq(Pool), NEW qs \in Seq(Pool), PoolsKept(qs, ps),
         NEW r, Holds(ps, r)
  PROVE  Holds(qs, r)
  <1>0. /\ \A i \in 1 .. Len(ps) : ps[i].entries \in Seq(Entry)
        /\ \A i \in 1 .. Len(qs) : qs[i].entries \in Seq(Entry)
    <2>1. /\ \A i \in 1 .. Len(ps) : ps[i] \in Pool
          /\ \A i \in 1 .. Len(qs) : qs[i] \in Pool
      OBVIOUS
    <2> QED BY <2>1 DEF Pool
  <1>1. \E i \in 1 .. Len(qs) : qs[i].name = r.pool
    BY DEF Holds, PoolsKept
  <1>2. ASSUME NEW i \in 1 .. Len(qs), qs[i].name = r.pool
        PROVE  \E j \in 1 .. Len(qs[i].entries) : /\ First(qs[i].entries, r.provider, j)
                                                  /\ r.model \in qs[i].entries[j].models
    <2>1. i \in 1 .. Len(ps)
      <3> SUFFICES ASSUME i \notin 1 .. Len(ps)
                   PROVE  FALSE
        OBVIOUS
      <3>1. i \in Len(ps) + 1 .. Len(qs)
        OBVIOUS
      <3> QED BY <1>2, <3>1 DEF Holds, PoolsKept
    <2>2. ps[i].name = r.pool /\ EntriesKept(qs[i].entries, ps[i].entries)
      BY <1>2, <2>1 DEF PoolsKept
    <2>3. PICK j \in 1 .. Len(ps[i].entries) : /\ First(ps[i].entries, r.provider, j)
                                               /\ r.model \in ps[i].entries[j].models
      BY <2>1, <2>2 DEF Holds
    <2>4. First(qs[i].entries, r.provider, j)
      BY <1>0, <2>1, <2>2, <2>3, FirstKept
    <2>5. j \in 1 .. Len(qs[i].entries) /\ r.model \in qs[i].entries[j].models
      BY <1>0, <2>1, <2>2, <2>3 DEF EntriesKept
    <2> QED BY <2>4, <2>5
  <1> QED BY <1>1, <1>2 DEF Holds

LEMMA PoolEntries ==
  ASSUME NEW ps \in Seq(Pool), NEW i \in 1 .. Len(ps)
  PROVE  ps[i].entries \in Seq(Entry)
  <1>1. ps[i] \in Pool
    OBVIOUS
  <1> QED BY <1>1 DEF Pool

LEMMA EntriesKeptTwice ==
  ASSUME NEW es \in Seq(Entry), NEW us \in Seq(Entry), NEW vs \in Seq(Entry),
         EntriesKept(us, es), EntriesKept(vs, us)
  PROVE  EntriesKept(vs, es)
  BY DEF EntriesKept

LEMMA PoolsKeptTwice ==
  ASSUME NEW ps \in Seq(Pool), NEW qs \in Seq(Pool), NEW rs \in Seq(Pool),
         PoolsKept(qs, ps), PoolsKept(rs, qs)
  PROVE  PoolsKept(rs, ps)
  <1>1. ASSUME NEW i \in 1 .. Len(ps)
        PROVE  rs[i].name = ps[i].name /\ EntriesKept(rs[i].entries, ps[i].entries)
    <2>1. i \in 1 .. Len(qs) /\ i \in 1 .. Len(rs)
      BY DEF PoolsKept
    <2>2. EntriesKept(rs[i].entries, qs[i].entries) /\ EntriesKept(qs[i].entries, ps[i].entries)
      BY <2>1 DEF PoolsKept
    <2>4. EntriesKept(rs[i].entries, ps[i].entries)
      BY <2>1, <2>2, PoolEntries, EntriesKeptTwice
    <2> QED BY <2>1, <2>4 DEF PoolsKept
  <1>2. ASSUME NEW i \in Len(ps) + 1 .. Len(rs), NEW k \in 1 .. Len(ps)
        PROVE  ps[k].name # rs[i].name
    <2>1. k \in 1 .. Len(qs) /\ qs[k].name = ps[k].name
      BY DEF PoolsKept
    <2>2. CASE i <= Len(qs)
      <3>1. i \in 1 .. Len(qs) /\ i \in Len(ps) + 1 .. Len(qs)
        BY <2>2
      <3> QED BY <2>1, <3>1 DEF PoolsKept
    <2>3. CASE ~(i <= Len(qs))
      <3>1. i \in Len(qs) + 1 .. Len(rs)
        BY <2>3
      <3> QED BY <2>1, <3>1 DEF PoolsKept
    <2> QED BY <2>2, <2>3
  <1>3. Len(rs) >= Len(ps)
    BY DEF PoolsKept
  <1> QED BY <1>1, <1>2, <1>3 DEF PoolsKept

LEMMA OpenKeptTwice ==
  ASSUME NEW ps \in Seq(Pool), NEW qs \in Seq(Pool), NEW rs \in Seq(Pool),
         PoolsKept(rs, qs), OpenKept(qs, ps), OpenKept(rs, qs)
  PROVE  OpenKept(rs, ps)
  <1> SUFFICES ASSUME NEW i \in 1 .. Len(rs), NEW j \in 1 .. Len(rs[i].entries),
                      rs[i].entries[j].models = {}
               PROVE  i \in 1 .. Len(ps) /\ j \in 1 .. Len(ps[i].entries)
    BY DEF OpenKept
  <1>1. i \in 1 .. Len(qs) /\ j \in 1 .. Len(qs[i].entries)
    BY DEF OpenKept
  <1>2. qs[i].entries[j].models \subseteq rs[i].entries[j].models
    BY <1>1 DEF PoolsKept, EntriesKept
  <1> QED BY <1>1, <1>2 DEF OpenKept

LEMMA ExplainedTwice ==
  ASSUME NEW ps \in Seq(Pool), NEW qs \in Seq(Pool), NEW rs \in Seq(Pool), NEW R,
         PoolsKept(rs, qs), Explained(qs, ps, R), Explained(rs, qs, R)
  PROVE  Explained(rs, ps, R)
  <1> SUFFICES ASSUME NEW i \in 1 .. Len(rs), NEW j \in 1 .. Len(rs[i].entries),
                      NEW m \in rs[i].entries[j].models
               PROVE  \/ /\ i \in 1 .. Len(ps) /\ j \in 1 .. Len(ps[i].entries)
                         /\ m \in ps[i].entries[j].models
                      \/ \E r \in R : /\ r.pool = rs[i].name /\ r.model = m
                                      /\ First(rs[i].entries, r.provider, j)
    BY DEF Explained
  <1>1. CASE \E r \in R : /\ r.pool = rs[i].name /\ r.model = m
                          /\ First(rs[i].entries, r.provider, j)
    BY <1>1
  <1>2. CASE /\ i \in 1 .. Len(qs) /\ j \in 1 .. Len(qs[i].entries)
             /\ m \in qs[i].entries[j].models
    <2>1. rs[i].name = qs[i].name /\ EntriesKept(rs[i].entries, qs[i].entries)
      BY <1>2 DEF PoolsKept
    <2>2. CASE /\ i \in 1 .. Len(ps) /\ j \in 1 .. Len(ps[i].entries)
               /\ m \in ps[i].entries[j].models
      BY <2>2
    <2>3. CASE \E r \in R : /\ r.pool = qs[i].name /\ r.model = m
                            /\ First(qs[i].entries, r.provider, j)
      <3>1. PICK r \in R : /\ r.pool = qs[i].name /\ r.model = m
                           /\ First(qs[i].entries, r.provider, j)
        BY <2>3
      <3>2. First(rs[i].entries, r.provider, j)
        BY <1>2, <2>1, <3>1, PoolEntries, FirstKept
      <3> QED BY <2>1, <3>1, <3>2
    <2> QED BY <1>2, <2>2, <2>3 DEF Explained
  <1> QED BY <1>1, <1>2, SMTT(20) DEF Explained

LEMMA ConfigPools ==
  ASSUME NEW c \in Config
  PROVE  c.pools \in Seq(Pool) /\ c.providers \subseteq STRING /\ c.adapters \subseteq STRING
  BY DEF Config

LEMMA KeptTwice ==
  ASSUME NEW a \in Config, NEW b \in Config, NEW c \in Config, Kept(b, a), Kept(c, b)
  PROVE  Kept(c, a)
  <1>1. PoolsKept(c.pools, a.pools)
    BY ConfigPools, PoolsKeptTwice DEF Kept
  <1>2. OpenKept(c.pools, a.pools)
    BY ConfigPools, OpenKeptTwice DEF Kept
  <1> QED BY <1>1, <1>2 DEF Kept

LEMMA GrownTwice ==
  ASSUME NEW a \in Config, NEW b \in Config, NEW c \in Config, NEW R,
         Grown(b, a, R), Grown(c, b, R)
  PROVE  Grown(c, a, R)
  <1>1. Kept(c, a)
    BY KeptTwice DEF Grown
  <1>2. Explained(c.pools, a.pools, R)
    BY ConfigPools, ExplainedTwice DEF Grown, Kept
  <1> QED BY <1>1, <1>2 DEF Grown

LEMMA GrownSelf ==
  ASSUME NEW c \in Config, NEW R
  PROVE  Grown(c, c, R)
  <1>1. c.pools \in Seq(Pool)
    BY ConfigPools
  <1>2. \A i \in 1 .. Len(c.pools) : EntriesKept(c.pools[i].entries, c.pools[i].entries)
    BY <1>1, PoolEntries, EntriesKeptSelf
  <1>3. PoolsKept(c.pools, c.pools)
    BY <1>1, <1>2 DEF PoolsKept
  <1> QED BY <1>3 DEF Grown, Kept, OpenKept, Explained

LEMMA UpsertedGrows ==
  ASSUME NEW c \in Config, NEW x, IsTarget(x), NEW R, x \in R
  PROVE  /\ Upserted(c, x) \in Config
         /\ Grown(Upserted(c, x), c, R)
         /\ Holds(Upserted(c, x).pools, x)
         /\ x.provider \in Upserted(c, x).providers
         /\ Upserted(c, x).adapters = c.adapters
  <1> DEFINE d == Upserted(c, x)
             qs == UpsertPool(c.pools, x)
  <1>1. c.pools \in Seq(Pool) /\ c.providers \subseteq STRING /\ c.adapters \subseteq STRING
    BY ConfigPools
  <1>2. /\ qs \in Seq(Pool) /\ PoolsKept(qs, c.pools) /\ OpenKept(qs, c.pools)
        /\ Explained(qs, c.pools, {x}) /\ Holds(qs, x)
    BY <1>1, UpsertPoolGrows
  <1> HIDE DEF qs
  <1>3. d = [c EXCEPT !.providers = @ \cup {x.provider}, !.pools = qs]
    BY DEF Upserted, qs
  <1> HIDE DEF d
  <1>4. /\ d.providers = c.providers \cup {x.provider} /\ d.pools = qs
        /\ d.adapters = c.adapters
    BY <1>3 DEF Config
  <1>5. d \in Config
    <2>1. x.provider \in STRING
      BY DEF IsTarget
    <2> QED BY <1>1, <1>2, <1>3, <2>1 DEF Config
  <1>6. Explained(qs, c.pools, R)
    BY <1>2 DEF Explained
  <1>7. Grown(d, c, R)
    BY <1>2, <1>4, <1>6 DEF Grown, Kept
  <1> QED BY <1>2, <1>4, <1>5, <1>7 DEF d

-----------------------------------------------------------------------------
(* The pass over a list of keys.                                            *)

\* The records of a store that carry runtime config.
Routed(s) == {s[k] : k \in {j \in DOMAIN s : HasRuntimeConfig(s[j])}}

\* A config has what a key needs.
Serves(c, r) == Holds(c.pools, r) /\ r.provider \in c.providers

LEMMA ServesKept ==
  ASSUME NEW b \in Config, NEW c \in Config, Kept(c, b), NEW r, Serves(b, r)
  PROVE  Serves(c, r)
  BY ConfigPools, HoldsKept DEF Kept, Serves

LEMMA RecordIsTarget ==
  ASSUME NEW r \in StoredRecord
  PROVE  IsTarget(r)
  BY DEF StoredRecord, IsTarget

LEMMA RestoreKeyGrows ==
  ASSUME NEW c \in Config, NEW r \in StoredRecord, NEW R,
         HasRuntimeConfig(r) => r \in R
  PROVE  /\ RestoreKey(c, r) \in Config
         /\ Grown(RestoreKey(c, r), c, R)
         /\ HasRuntimeConfig(r) => /\ Serves(RestoreKey(c, r), r)
                                   /\ r.provider \in RestoreKey(c, r).adapters
  <1>1. CASE ~HasRuntimeConfig(r)
    BY <1>1, GrownSelf DEF RestoreKey
  <1>2. CASE HasRuntimeConfig(r)
    <2> DEFINE d == Upserted(c, r)
               e == RestoreKey(c, r)
    <2>1. /\ d \in Config /\ Grown(d, c, R) /\ Serves(d, r) /\ d.adapters = c.adapters
      BY <1>2, RecordIsTarget, UpsertedGrows DEF Serves
    <2>2. e = [d EXCEPT !.adapters = @ \cup {r.provider}]
      BY <1>2 DEF RestoreKey
    <2> HIDE DEF d, e
    <2>3. r.provider \in STRING
      BY DEF StoredRecord
    <2>4. /\ e.pools = d.pools /\ e.providers = d.providers
          /\ e.adapters = d.adapters \cup {r.provider}
      BY <2>1, <2>2 DEF Config
    <2>5. e \in Config
      BY <2>1, <2>2, <2>3 DEF Config
    <2>6. Grown(e, c, R) /\ Serves(e, r) /\ r.provider \in e.adapters
      BY <2>1, <2>4 DEF Grown, Kept, Serves
    <2> QED BY <2>5, <2>6 DEF e
  <1> QED BY <1>1, <1>2

\* One key of the list.
StepOf(keys, i, c) ==
  IF Has(keys, KeyList[i]) THEN RestoreKey(c, keys[KeyList[i]]) ELSE c

IsPass(after, cfg, keys) ==
  after = [i \in 0 .. Len(KeyList) |->
             IF i = 0 THEN cfg ELSE StepOf(keys, i, after[i - 1])]

LEMMA RestoreIsPass ==
  ASSUME NEW cfg, NEW keys
  PROVE  Restore(cfg, keys) = (CHOOSE after : IsPass(after, cfg, keys))[Len(KeyList)]
  <1>1. Restore(cfg, keys) =
          (CHOOSE after : after = [i \in 0 .. Len(KeyList) |->
             IF i = 0 THEN cfg
             ELSE IF Has(keys, KeyList[i])
             THEN RestoreKey(after[i - 1], keys[KeyList[i]])
             ELSE after[i - 1]])[Len(KeyList)]
    BY Zenon DEF Restore
  <1> QED BY <1>1 DEF IsPass, StepOf

LEMMA StepGrows ==
  ASSUME NEW keys, IsStore(keys), NEW i \in 1 .. Len(KeyList), NEW c \in Config
  PROVE  /\ StepOf(keys, i, c) \in Config
         /\ Grown(StepOf(keys, i, c), c, Routed(keys))
         /\ (Has(keys, KeyList[i]) /\ HasRuntimeConfig(keys[KeyList[i]])) =>
              /\ Serves(StepOf(keys, i, c), keys[KeyList[i]])
              /\ keys[KeyList[i]].provider \in StepOf(keys, i, c).adapters
  <1>1. CASE ~Has(keys, KeyList[i])
    BY <1>1, GrownSelf DEF StepOf
  <1>2. CASE Has(keys, KeyList[i])
    <2> DEFINE r == keys[KeyList[i]]
    <2>1. r \in StoredRecord
      BY <1>2 DEF IsStore, Has
    <2>2. HasRuntimeConfig(r) => r \in Routed(keys)
      BY <1>2 DEF Routed, Has
    <2>3. StepOf(keys, i, c) = RestoreKey(c, r)
      BY <1>2 DEF StepOf
    <2> HIDE DEF r
    <2>4. /\ RestoreKey(c, r) \in Config
          /\ Grown(RestoreKey(c, r), c, Routed(keys))
          /\ HasRuntimeConfig(r) => /\ Serves(RestoreKey(c, r), r)
                                    /\ r.provider \in RestoreKey(c, r).adapters
      BY <2>1, <2>2, RestoreKeyGrows
    <2> QED BY <2>3, <2>4 DEF r
  <1> QED BY <1>1, <1>2

\* The recursion of Restore has a solution.
LEMMA PassExists ==
  ASSUME NEW cfg \in Config, NEW keys, IsStore(keys)
  PROVE  \E after \in [0 .. Len(KeyList) -> Config] : IsPass(after, cfg, keys)
  <1> DEFINE n == Len(KeyList)
             g == [i \in 1 .. n |-> [c \in Config |-> StepOf(keys, i, c)]]
  <1>1. n \in Nat
    BY LifecycleAssumption
  <1>2. g \in [1 .. n -> [Config -> Config]]
    BY StepGrows
  <1> HIDE DEF n
  <1>3. PICK f \in [0 .. n -> Config] : IsRecursion(f, n, cfg, g)
    <2>1. \A i \in 1 .. n : \A c \in Config : g[i][c] \in Config
      BY <1>2
    <2> HIDE DEF g
    <2> QED BY <1>1, <2>1, IntervalRecursion
  <1>4. ASSUME NEW i \in 1 .. n
        PROVE  g[i][f[i - 1]] = StepOf(keys, i, f[i - 1])
    <2>1. i - 1 \in 0 .. n
      BY <1>1
    <2>2. f[i - 1] \in Config
      BY <2>1
    <2> QED BY <2>2
  <1>5. f = [i \in 0 .. n |-> IF i = 0 THEN cfg ELSE StepOf(keys, i, f[i - 1])]
    <2>1. f = [i \in 0 .. n |-> f[i]]
      OBVIOUS
    <2>2. \A i \in 0 .. n : f[i] = IF i = 0 THEN cfg ELSE StepOf(keys, i, f[i - 1])
      <3> HIDE DEF g
      <3> QED BY <1>1, <1>3, <1>4 DEF IsRecursion
    <2> QED BY <2>1, <2>2, Zenon
  <1> QED BY <1>3, <1>5 DEF IsPass, n

\* What a pass over the keys adds to a config.
LEMMA RestoreGrows ==
  ASSUME NEW cfg \in Config, NEW keys, IsStore(keys)
  PROVE  /\ Restore(cfg, keys) \in Config
         /\ Grown(Restore(cfg, keys), cfg, Routed(keys))
         /\ \A r \in Routed(keys) : /\ Serves(Restore(cfg, keys), r)
                                    /\ r.provider \in Restore(cfg, keys).adapters
  <1> DEFINE n == Len(KeyList)
             after == CHOOSE f : IsPass(f, cfg, keys)
             Wanted(i) == Has(keys, KeyList[i]) /\ HasRuntimeConfig(keys[KeyList[i]])
             Upto(i) == /\ after[i] \in Config
                        /\ Grown(after[i], cfg, Routed(keys))
                        /\ \A j \in 1 .. i : Wanted(j) =>
                             /\ Serves(after[i], keys[KeyList[j]])
                             /\ keys[KeyList[j]].provider \in after[i].adapters
             S == {i \in 0 .. n : Upto(i)}
  <1>1. n \in Nat
    BY LifecycleAssumption
  <1>2. IsPass(after, cfg, keys)
    BY PassExists
  <1> HIDE DEF after
  <1>3. after[0] = cfg /\ \A i \in 1 .. n : after[i] = StepOf(keys, i, after[i - 1])
    BY <1>1, <1>2 DEF IsPass
  <1>4. 0 \in S
    BY <1>1, <1>3, GrownSelf
  <1>5. ASSUME NEW i \in 0 .. n, i + 1 \in 0 .. n, i \in S
        PROVE  i + 1 \in S
    <2>1. i + 1 \in 1 .. n /\ after[i + 1] = StepOf(keys, i + 1, after[i])
      BY <1>1, <1>3, <1>5
    <2>2. /\ after[i + 1] \in Config
          /\ Grown(after[i + 1], after[i], Routed(keys))
          /\ Wanted(i + 1) => /\ Serves(after[i + 1], keys[KeyList[i + 1]])
                              /\ keys[KeyList[i + 1]].provider \in after[i + 1].adapters
      BY <1>5, <2>1, StepGrows
    <2>3. Grown(after[i + 1], cfg, Routed(keys))
      BY <1>5, <2>2, GrownTwice
    <2>4. ASSUME NEW j \in 1 .. i + 1, Wanted(j)
          PROVE  /\ Serves(after[i + 1], keys[KeyList[j]])
                 /\ keys[KeyList[j]].provider \in after[i + 1].adapters
      <3>1. CASE j = i + 1
        BY <2>2, <2>4, <3>1
      <3>2. CASE j # i + 1
        <4>1. j \in 1 .. i
          BY <3>2
        <4>2. Serves(after[i], keys[KeyList[j]]) /\ keys[KeyList[j]].provider \in after[i].adapters
          BY <1>5, <2>4, <4>1
        <4>3. Kept(after[i + 1], after[i])
          BY <2>2 DEF Grown
        <4>4. after[i].adapters \subseteq after[i + 1].adapters
          BY <4>3 DEF Kept
        <4> QED BY <1>5, <2>2, <4>2, <4>3, <4>4, ServesKept
      <3> QED BY <3>1, <3>2
    <2> QED BY <1>5, <2>2, <2>3, <2>4
  <1>6. n \in S
    <2> HIDE DEF S
    <2>1. 0 .. n \subseteq S
      BY <1>1, <1>4, <1>5, IntervalInduction
    <2> QED BY <1>1, <2>1
  <1>7. ASSUME NEW r \in Routed(keys)
        PROVE  Serves(after[n], r) /\ r.provider \in after[n].adapters
    <2>1. PICK k \in DOMAIN keys : HasRuntimeConfig(keys[k]) /\ r = keys[k]
      BY DEF Routed
    <2>2. PICK j \in 1 .. n : KeyList[j] = k
      BY ListAssumption DEF IsStore
    <2> QED BY <1>6, <2>1, <2>2 DEF Has
  <1> QED BY <1>6, <1>7, RestoreIsPass DEF after

-----------------------------------------------------------------------------
(* The config the gateway starts from.                                      *)

StartConfig == [FileConfig EXCEPT !.adapters = OpenAIProviders]

LEMMA ConfigsTyped ==
  FileConfig \in Config /\ StartConfig \in Config /\ NoConfig \in Config
  <1> DEFINE FileEntry == [provider : STRING, models : SUBSET Models]
             FilePool  == [name : STRING, entries : Seq(FileEntry)]
  <1>1. ASSUME NEW es \in Seq(FileEntry)
        PROVE  es \in Seq(Entry)
    <2>1. \A i \in 1 .. Len(es) : es[i] \in FileEntry
      <3> HIDE DEF FileEntry
      <3> QED OBVIOUS
    <2>2. \A i \in 1 .. Len(es) : es[i] \in Entry
      BY <2>1 DEF Entry, AnyModel
    <2> HIDE DEF FileEntry
    <2> QED BY <2>2
  <1>2. FilePools \in Seq(Pool)
    <2>1. FilePools \in Seq(FilePool)
      BY LifecycleAssumption
    <2>2. \A i \in 1 .. Len(FilePools) : FilePools[i] \in FilePool
      <3> HIDE DEF FilePool
      <3> QED BY <2>1
    <2>3. \A i \in 1 .. Len(FilePools) : FilePools[i] \in Pool
      <3> HIDE DEF FileEntry
      <3> QED BY <1>1, <2>2 DEF Pool
    <2> HIDE DEF FilePool
    <2> QED BY <2>1, <2>3
  <1>3. FileProviders \in SUBSET STRING /\ OpenAIProviders \in SUBSET STRING
    BY LifecycleAssumption
  <1> QED BY <1>2, <1>3 DEF FileConfig, StartConfig, NoConfig, Config

\* A config is the file's and what was added for records.
FromFile(c) ==
  /\ Kept(c, FileConfig)
  /\ Explained(c.pools, FilePools, StoredRecord)

LEMMA RoutedAreRecords ==
  ASSUME NEW s, IsStore(s)
  PROVE  Routed(s) \subseteq StoredRecord
  BY DEF Routed, IsStore

LEMMA ExplainedByMore ==
  ASSUME NEW qs, NEW ps, NEW R, NEW S, R \subseteq S, Explained(qs, ps, R)
  PROVE  Explained(qs, ps, S)
  BY DEF Explained

LEMMA FromFileGrows ==
  ASSUME NEW c \in Config, NEW d \in Config, FromFile(c),
         NEW R, R \subseteq StoredRecord, Grown(d, c, R)
  PROVE  FromFile(d)
  <1>1. Kept(d, FileConfig)
    BY ConfigsTyped, KeptTwice DEF FromFile, Grown
  <1>2. Explained(d.pools, c.pools, StoredRecord) /\ PoolsKept(d.pools, c.pools)
    BY ExplainedByMore DEF Grown, Kept
  <1>3. FileConfig.pools = FilePools
    BY DEF FileConfig
  <1>4. FilePools \in Seq(Pool) /\ c.pools \in Seq(Pool) /\ d.pools \in Seq(Pool)
    BY <1>3, ConfigsTyped, ConfigPools
  <1>5. Explained(d.pools, FilePools, StoredRecord)
    BY <1>2, <1>4, ExplainedTwice DEF FromFile
  <1> QED BY <1>1, <1>5 DEF FromFile

LEMMA StartGrows ==
  ASSUME NEW c \in Config, NEW R, R \subseteq StoredRecord, Grown(c, StartConfig, R)
  PROVE  FromFile(c)
  <1>1. Kept(c, FileConfig)
    BY DEF Grown, Kept, StartConfig, FileConfig
  <1>2. StartConfig.pools = FilePools
    BY DEF StartConfig, FileConfig
  <1>3. Explained(c.pools, FilePools, StoredRecord)
    BY <1>2, ExplainedByMore DEF Grown
  <1> QED BY <1>1, <1>3 DEF FromFile

-----------------------------------------------------------------------------
(* The invariant                                                            *)

\* The keys of s that carry runtime config have what they need.
AllServed(c, s) == \A k \in DOMAIN s : HasRuntimeConfig(s[k]) => Serves(c, s[k])

\* A request that will give the provider of k, as stored in s, its adapter.
Brings(r, k, s) ==
  /\ r.at \in {"list", "restore"} /\ r.event.id = k
  /\ r.at = "restore" => /\ Has(r.keys, k) /\ HasRuntimeConfig(r.keys[k])
                         /\ r.keys[k].provider = s[k].provider

AllAdapted(c, s, reqs) ==
  \A k \in DOMAIN s : HasRuntimeConfig(s[k]) =>
    s[k].provider \in c.adapters \/ \E d \in Consoles : Brings(reqs[d], k, s)

RequestOK(r) ==
  /\ r.at = "upsert" => r.event.id = r.id
  /\ r.at = "restore" => IsStore(r.keys)

RoutingInv ==
  /\ TypeOK
  /\ config \in Config
  /\ mode = "seeding" => config = FileConfig
  /\ mode # "up" => \A c \in Consoles : consoles[c] = Idle
  /\ \A c \in Consoles : RequestOK(consoles[c])
  /\ mode = "up" => /\ FromFile(config)
                    /\ AllServed(config, store)
                    /\ AllAdapted(config, store, consoles)

LEMMA RoutingInit == Init => RoutingInv
  <1> SUFFICES ASSUME Init PROVE RoutingInv
    OBVIOUS
  <1>1. TypeOK
    BY InitTyped
  <1>2. config \in Config
    BY ConfigsTyped DEF Init
  <1> QED BY <1>1, <1>2 DEF Init, RoutingInv, RequestOK, Idle

\* Steps that leave the config and the runs over the list alone, and what the
\* keys are for: they may delete keys.
Quiet(s, t, reqs, news) ==
  /\ DOMAIN t \subseteq DOMAIN s
  /\ \A k \in DOMAIN t : /\ t[k].provider = s[k].provider
                         /\ t[k].pool = s[k].pool
                         /\ t[k].model = s[k].model
  /\ \A d \in Consoles : reqs[d].at \in {"list", "restore"} => news[d] = reqs[d]

LEMMA QuietKeeps ==
  ASSUME NEW c, NEW s, NEW t, NEW reqs, NEW news, Quiet(s, t, reqs, news),
         AllServed(c, s), AllAdapted(c, s, reqs)
  PROVE  AllServed(c, t) /\ AllAdapted(c, t, news)
  <1>1. ASSUME NEW k \in DOMAIN t, HasRuntimeConfig(t[k])
        PROVE  Serves(c, t[k])
    <2>1. k \in DOMAIN s /\ HasRuntimeConfig(s[k]) /\ Serves(c, s[k])
      BY <1>1 DEF Quiet, AllServed, HasRuntimeConfig
    <2>2. /\ t[k].provider = s[k].provider /\ t[k].pool = s[k].pool
          /\ t[k].model = s[k].model
      BY DEF Quiet
    <2> QED BY <2>1, <2>2 DEF Serves, Holds
  <1>2. ASSUME NEW k \in DOMAIN t, HasRuntimeConfig(t[k]), t[k].provider \notin c.adapters
        PROVE  \E d \in Consoles : Brings(news[d], k, t)
    <2>1. /\ k \in DOMAIN s /\ HasRuntimeConfig(s[k])
          /\ s[k].provider = t[k].provider
      BY <1>2 DEF Quiet, HasRuntimeConfig
    <2>2. PICK d \in Consoles : Brings(reqs[d], k, s)
      BY <1>2, <2>1 DEF AllAdapted
    <2>3. news[d] = reqs[d]
      BY <2>2 DEF Brings, Quiet
    <2> QED BY <2>1, <2>2, <2>3 DEF Brings
  <1> QED BY <1>1, <1>2 DEF AllServed, AllAdapted

\* A step of the running gateway that is quiet keeps the invariant.
LEMMA QuietStep ==
  ASSUME RoutingInv, TypeOK', config' = config, mode' = mode,
         Quiet(store, store', consoles, consoles'),
         \A c \in Consoles : RequestOK(consoles'[c]),
         mode = "up" \/ consoles' = consoles
  PROVE  RoutingInv'
  <1>1. mode' = "up" => /\ AllServed(config', store')
                        /\ AllAdapted(config', store', consoles')
    BY QuietKeeps DEF RoutingInv
  <1> QED BY <1>1 DEF RoutingInv

LEMMA AssessedIsQuiet ==
  ASSUME NEW s, NEW t, NEW k, Assessed(s, t, k), NEW reqs, NEW news,
         \A d \in Consoles : reqs[d].at \in {"list", "restore"} => news[d] = reqs[d]
  PROVE  Quiet(s, t, reqs, news)
  BY DEF Assessed, Quiet, Has

LEMMA SameIsQuiet ==
  ASSUME NEW s, NEW reqs, NEW news,
         \A d \in Consoles : reqs[d].at \in {"list", "restore"} => news[d] = reqs[d]
  PROVE  Quiet(s, s, reqs, news)
  BY DEF Quiet

LEMMA BeginKeepsRouting ==
  ASSUME RoutingInv, TypeOK', NEW c \in Consoles, NEW r, RequestOK(r), Begin(c, r)
  PROVE  RoutingInv'
  <1>1. /\ mode = "up" /\ consoles[c] = Idle /\ consoles' = [consoles EXCEPT ![c] = r]
        /\ UNCHANGED <<mode, store, config>>
    BY DEF Begin, server
  <1>2. DOMAIN consoles = Consoles
    BY DEF RoutingInv, TypeOK
  <1>3. \A d \in Consoles : d # c => consoles'[d] = consoles[d]
    BY <1>1, <1>2
  <1>4. consoles'[c] = r
    BY <1>1, <1>2
  <1>5. \A d \in Consoles : RequestOK(consoles'[d])
    BY <1>3, <1>4 DEF RoutingInv
  <1>6. \A d \in Consoles : consoles[d].at \in {"list", "restore"}
                              => consoles'[d] = consoles[d]
    BY <1>1, <1>3 DEF Idle
  <1>7. Quiet(store, store', consoles, consoles')
    BY <1>1, <1>6, SameIsQuiet
  <1> QED BY <1>1, <1>5, <1>7, QuietStep

LEMMA UpsertKeepsRouting ==
  ASSUME RoutingInv, TypeOK', NEW c \in Consoles, Upsert(c)
  PROVE  RoutingInv' /\ Kept(config', config)
  <1> DEFINE r == consoles[c]
             x == consoles[c].record
             new == [at |-> "list", event |-> r.event]
  <1>1. /\ r.at = "upsert" /\ config' = Upserted(config, x)
        /\ store' = Put(store, r.id, x)
        /\ consoles' = [consoles EXCEPT ![c] = new] /\ mode' = mode
    BY DEF Upsert
  <1>2. x \in StoredRecord /\ r.id \in Keys /\ r.event.id = r.id
    BY <1>1, UploadsAreRecords DEF RoutingInv, TypeOK, IsRequest, RequestOK
  <1>3. mode = "up"
    BY <1>1 DEF RoutingInv, Idle
  <1>0. /\ config' \in Config /\ Grown(config', config, StoredRecord)
        /\ Serves(config', x) /\ config'.adapters = config.adapters
    BY <1>1, <1>2, RecordIsTarget, UpsertedGrows DEF RoutingInv, Serves
  <1>4. /\ config' \in Config /\ Kept(config', config) /\ Serves(config', x)
        /\ config'.adapters = config.adapters
    BY <1>0 DEF Grown
  <1>5. FromFile(config')
    BY <1>0, <1>3, FromFileGrows DEF RoutingInv
  <1>6. /\ DOMAIN store' = DOMAIN store \cup {r.id}
        /\ \A k \in DOMAIN store \ {r.id} : store'[k] = store[k]
        /\ store'[r.id] = x
    BY <1>1 DEF Put
  <1>7. /\ DOMAIN consoles = Consoles /\ consoles'[c] = new
        /\ \A d \in Consoles : d # c => consoles'[d] = consoles[d]
    BY <1>1 DEF RoutingInv, TypeOK
  <1>8. AllServed(config', store')
    <2> SUFFICES ASSUME NEW k \in DOMAIN store', HasRuntimeConfig(store'[k])
                 PROVE  Serves(config', store'[k])
      BY DEF AllServed
    <2>1. CASE k = r.id
      BY <1>4, <1>6, <2>1
    <2>2. CASE k # r.id
      <3>1. k \in DOMAIN store /\ store'[k] = store[k]
        BY <1>6, <2>2
      <3>2. Serves(config, store[k])
        BY <1>3, <3>1 DEF RoutingInv, AllServed
      <3> QED BY <1>4, <3>1, <3>2, ServesKept DEF RoutingInv
    <2> QED BY <2>1, <2>2
  <1>9. AllAdapted(config', store', consoles')
    <2> SUFFICES ASSUME NEW k \in DOMAIN store', HasRuntimeConfig(store'[k]),
                        store'[k].provider \notin config'.adapters
                 PROVE  \E d \in Consoles : Brings(consoles'[d], k, store')
      BY DEF AllAdapted
    <2>1. CASE k = r.id
      <3>1. Brings(consoles'[c], k, store')
        BY <1>2, <1>7, <2>1 DEF Brings
      <3> QED BY <3>1
    <2>2. CASE k # r.id
      <3>1. k \in DOMAIN store /\ store'[k] = store[k]
        BY <1>6, <2>2
      <3>2. PICK d \in Consoles : Brings(consoles[d], k, store)
        BY <1>3, <1>4, <3>1 DEF RoutingInv, AllAdapted
      <3>3. consoles'[d] = consoles[d]
        BY <1>1, <1>7, <3>2 DEF Brings
      <3> QED BY <3>1, <3>2, <3>3 DEF Brings
    <2> QED BY <2>1, <2>2
  <1>10. \A d \in Consoles : RequestOK(consoles'[d])
    BY <1>7 DEF RoutingInv, RequestOK
  <1> QED BY <1>1, <1>3, <1>4, <1>5, <1>8, <1>9, <1>10 DEF RoutingInv

LEMMA ListKeepsRouting ==
  ASSUME RoutingInv, TypeOK', NEW c \in Consoles, List(c)
  PROVE  RoutingInv' /\ config' = config
  <1> DEFINE r == consoles[c]
             new == [at |-> "restore", event |-> r.event, keys |-> store]
  <1>1. /\ r.at = "list" /\ consoles' = [consoles EXCEPT ![c] = new]
        /\ UNCHANGED <<mode, store, config>>
    BY DEF List, server
  <1>2. mode = "up"
    BY <1>1 DEF RoutingInv, Idle
  <1>3. /\ DOMAIN consoles = Consoles /\ consoles'[c] = new
        /\ \A d \in Consoles : d # c => consoles'[d] = consoles[d]
    BY <1>1 DEF RoutingInv, TypeOK
  <1>4. AllAdapted(config', store', consoles')
    <2> SUFFICES ASSUME NEW k \in DOMAIN store, HasRuntimeConfig(store[k]),
                        store[k].provider \notin config.adapters
                 PROVE  \E d \in Consoles : Brings(consoles'[d], k, store)
      BY <1>1 DEF AllAdapted
    <2>1. PICK d \in Consoles : Brings(consoles[d], k, store)
      BY <1>2 DEF RoutingInv, AllAdapted
    <2>2. Brings(consoles'[d], k, store)
      BY <1>3, <2>1 DEF Brings, Has
    <2> QED BY <2>2
  <1>5. \A d \in Consoles : RequestOK(consoles'[d])
    BY <1>3 DEF RoutingInv, RequestOK, TypeOK
  <1>6. AllServed(config', store')
    BY <1>1, <1>2 DEF RoutingInv, AllServed
  <1> QED BY <1>1, <1>2, <1>4, <1>5, <1>6 DEF RoutingInv

LEMMA GoThroughListKeepsRouting ==
  ASSUME RoutingInv, TypeOK', NEW c \in Consoles, GoThroughList(c)
  PROVE  RoutingInv' /\ Kept(config', config)
  <1> DEFINE r == consoles[c]
             keys == consoles[c].keys
             new == [at |-> "audit", event |-> r.event]
  <1>1. /\ r.at = "restore" /\ config' = Restore(config, keys)
        /\ consoles' = [consoles EXCEPT ![c] = new] /\ UNCHANGED <<mode, store>>
    BY DEF GoThroughList
  <1>2. IsStore(keys) /\ mode = "up"
    BY <1>1 DEF RoutingInv, RequestOK, Idle
  <1>0. /\ config' \in Config /\ Grown(config', config, Routed(keys))
        /\ \A q \in Routed(keys) : q.provider \in config'.adapters
    BY <1>1, <1>2, RestoreGrows DEF RoutingInv
  <1>3. /\ config' \in Config /\ Kept(config', config)
        /\ \A q \in Routed(keys) : q.provider \in config'.adapters
    BY <1>0 DEF Grown
  <1>4. FromFile(config')
    BY <1>0, <1>2, RoutedAreRecords, FromFileGrows DEF RoutingInv
  <1>5. /\ DOMAIN consoles = Consoles /\ consoles'[c] = new
        /\ \A d \in Consoles : d # c => consoles'[d] = consoles[d]
    BY <1>1 DEF RoutingInv, TypeOK
  <1>6. AllServed(config', store')
    BY <1>1, <1>2, <1>3, ServesKept DEF RoutingInv, AllServed
  <1>7. AllAdapted(config', store', consoles')
    <2> SUFFICES ASSUME NEW k \in DOMAIN store, HasRuntimeConfig(store[k]),
                        store[k].provider \notin config'.adapters
                 PROVE  \E d \in Consoles : Brings(consoles'[d], k, store)
      BY <1>1 DEF AllAdapted
    <2>1. store[k].provider \notin config.adapters
      BY <1>3 DEF Kept
    <2>2. PICK d \in Consoles : Brings(consoles[d], k, store)
      BY <1>2, <2>1 DEF RoutingInv, AllAdapted
    <2>3. d # c
      <3> SUFFICES ASSUME d = c
                   PROVE  FALSE
        OBVIOUS
      <3>1. /\ k \in DOMAIN keys /\ HasRuntimeConfig(keys[k])
            /\ keys[k].provider = store[k].provider
        BY <1>1, <2>2 DEF Brings, Has
      <3>2. keys[k] \in Routed(keys)
        BY <3>1 DEF Routed
      <3> QED BY <1>3, <3>1, <3>2
    <2> QED BY <1>5, <2>2, <2>3
  <1>8. \A d \in Consoles : RequestOK(consoles'[d])
    BY <1>5 DEF RoutingInv, RequestOK
  <1> QED BY <1>1, <1>2, <1>3, <1>4, <1>6, <1>7, <1>8 DEF RoutingInv

LEMMA BootKeepsRouting ==
  ASSUME RoutingInv, TypeOK', Boot
  PROVE  RoutingInv'
  <1>1. /\ mode = "down" /\ mode' = "seeding" /\ config' = FileConfig
        /\ consoles' = consoles
    BY DEF Boot
  <1> QED BY <1>1, ConfigsTyped DEF RoutingInv

LEMMA OpenKeepsRouting ==
  ASSUME RoutingInv, TypeOK', Open
  PROVE  RoutingInv'
  <1>1. /\ mode = "seeding" /\ mode' = "up" /\ consoles' = consoles /\ store' = store
        /\ config' = Restore(StartConfig, store)
    BY DEF Open, RoutingInv, StartConfig
  <1>2. IsStore(store)
    BY DEF RoutingInv, TypeOK
  <1>3. /\ config' \in Config /\ Grown(config', StartConfig, Routed(store))
        /\ \A r \in Routed(store) : Serves(config', r) /\ r.provider \in config'.adapters
    BY <1>1, <1>2, ConfigsTyped, RestoreGrows
  <1>4. AllServed(config', store') /\ AllAdapted(config', store', consoles')
    BY <1>1, <1>3 DEF AllServed, AllAdapted, Routed
  <1>5. FromFile(config')
    BY <1>2, <1>3, RoutedAreRecords, StartGrows
  <1> QED BY <1>1, <1>3, <1>4, <1>5 DEF RoutingInv

LEMMA CrashKeepsRouting ==
  ASSUME RoutingInv, TypeOK', Crash
  PROVE  RoutingInv'
  <1>1. mode' = "down" /\ config' = NoConfig /\ consoles' = [c \in Consoles |-> Idle]
    BY DEF Crash
  <1>2. \A c \in Consoles : RequestOK(consoles'[c])
    BY <1>1 DEF RequestOK, Idle
  <1> QED BY <1>1, <1>2, ConfigsTyped DEF RoutingInv

\* The handlers of the console that leave the runtime config alone.
LEMMA HandlerKeepsRouting ==
  ASSUME RoutingInv, TypeOK', NEW c \in Consoles,
         \/ UpdateKeyStatus(c) \/ DeleteKey(c) \/ RecordHealthEvent(c) \/ RecordAudit(c)
         \/ RecorderThrows(c)
  PROVE  RoutingInv' /\ config' = config
  <1> DEFINE r == consoles[c]
  <1>1. /\ config' = config /\ mode' = mode
        /\ r.at \in {"update", "delete", "health_event", "audit"}
    BY DEF UpdateKeyStatus, DeleteKey, RecordHealthEvent, RecordAudit, RecorderThrows, server
  <1>2. mode = "up"
    BY <1>1 DEF RoutingInv, Idle
  <1>3. DOMAIN consoles = Consoles
    BY DEF RoutingInv, TypeOK
  <1>4. /\ consoles'[c].at \in {"idle", "health_event", "audit"}
        /\ \A d \in Consoles : d # c => consoles'[d] = consoles[d]
    <2>1. CASE UpdateKeyStatus(c)
      BY <1>3, <2>1 DEF UpdateKeyStatus
    <2>2. CASE DeleteKey(c)
      BY <1>3, <2>2 DEF DeleteKey
    <2>3. CASE RecordHealthEvent(c)
      BY <1>3, <2>3 DEF RecordHealthEvent, RoutingInv, TypeOK, IsRequest
    <2>4. CASE RecordAudit(c)
      BY <1>3, <2>4 DEF RecordAudit, Idle
    <2>5. CASE RecorderThrows(c)
      BY <1>3, <2>5 DEF RecorderThrows, Idle
    <2> QED BY <2>1, <2>2, <2>3, <2>4, <2>5
  <1>5. /\ \A d \in Consoles : RequestOK(consoles'[d])
        /\ \A d \in Consoles : consoles[d].at \in {"list", "restore"}
                                 => consoles'[d] = consoles[d]
    BY <1>1, <1>4 DEF RoutingInv, RequestOK
  <1>6. Quiet(store, store', consoles, consoles')
    <2>1. CASE UpdateKeyStatus(c)
      <3>1. r.status \in Status /\ IsStore(store)
        BY <2>1, LifecycleAssumption DEF UpdateKeyStatus, RoutingInv, TypeOK, IsRequest
      <3>2. Assessed(store, store', r.id)
        BY <2>1, <3>1, UpdateStatusAssesses DEF UpdateKeyStatus
      <3> QED BY <1>5, <3>2, AssessedIsQuiet
    <2>2. CASE DeleteKey(c)
      BY <1>5, <2>2 DEF DeleteKey, Delete, Quiet
    <2>3. CASE RecordHealthEvent(c) \/ RecordAudit(c) \/ RecorderThrows(c)
      <3>1. store' = store
        BY <2>3 DEF RecordHealthEvent, RecordAudit, RecorderThrows, server
      <3> QED BY <1>5, <3>1, SameIsQuiet
    <2> QED BY <2>1, <2>2, <2>3
  <1> QED BY <1>1, <1>2, <1>5, <1>6, QuietStep

\* What requests do to the health of keys.
LEMMA AssessKeepsRouting ==
  ASSUME RoutingInv, TypeOK', NEW k, Assessed(store, store', k),
         UNCHANGED <<mode, config, consoles>>
  PROVE  RoutingInv'
  <1>1. Quiet(store, store', consoles, consoles')
    BY AssessedIsQuiet
  <1> QED BY <1>1, QuietStep DEF RoutingInv

LEMMA RoutingNext ==
  ASSUME RoutingInv, [Next]_vars
  PROVE  RoutingInv' /\ (mode = "up" /\ mode' = "up" => Kept(config', config))
  <1>0. TypeOK' /\ IsStore(store)
    BY NextTyped DEF RoutingInv, TypeOK
  <1>S. config' = config => Kept(config', config)
    BY GrownSelf DEF RoutingInv, Grown
  <1>1. CASE UNCHANGED vars
    <2>1. UNCHANGED <<mode, store, config, consoles>>
      BY <1>1 DEF vars, server
    <2>2. Quiet(store, store', consoles, consoles')
      BY <2>1, SameIsQuiet
    <2> QED BY <1>0, <1>S, <2>1, <2>2, QuietStep DEF RoutingInv
  <1>2. CASE Boot
    BY <1>0, <1>2, BootKeepsRouting DEF Boot
  <1>3. CASE Open
    BY <1>0, <1>3, OpenKeepsRouting DEF Open
  <1>4. CASE Crash
    BY <1>0, <1>4, CrashKeepsRouting DEF Crash
  <1>5. ASSUME NEW r \in Requests, Judge(r)
        PROVE  RoutingInv' /\ config' = config
    <2>1. judging[r] \in [key : Keys, cool : BOOLEAN]
      BY <1>5 DEF Judge, RoutingInv, TypeOK
    <2>2. Assessed(store, store', judging[r].key)
      BY <1>0, <1>5, <2>1, LifecycleAssumption, StartCoolingDownAssesses, UpdateStatusAssesses
      DEF Judge, Status
    <2>3. UNCHANGED <<mode, config, consoles>>
      BY <1>5 DEF Judge
    <2> QED BY <1>0, <2>2, <2>3, AssessKeepsRouting
  <1>6. ASSUME NEW k \in Keys, SeedOne(k)
        PROVE  RoutingInv' /\ mode # "up"
    BY <1>0, <1>6 DEF SeedOne, RoutingInv
  <1>7. ASSUME NEW k \in Keys, Succeed(k) \/ \E r \in Requests : CountFailure(r, k)
        PROVE  RoutingInv' /\ config' = config
    <2>1. Assessed(store, store', k) /\ UNCHANGED <<mode, config, consoles>>
      BY <1>0, <1>7, RecordFailureAssesses, ResetFailuresAssesses DEF CountFailure, Succeed
    <2> QED BY <1>0, <2>1, AssessKeepsRouting
  <1>8. ASSUME NEW c \in Consoles, Handler(c)
        PROVE  RoutingInv' /\ Kept(config', config)
    BY <1>0, <1>8, <1>S, UpsertKeepsRouting, ListKeepsRouting, GoThroughListKeepsRouting,
       HandlerKeepsRouting DEF Handler
  <1>9. ASSUME NEW c \in Consoles, NEW r, RequestOK(r), Begin(c, r)
        PROVE  RoutingInv' /\ config' = config
    BY <1>0, <1>9, BeginKeepsRouting DEF Begin, server
  <1>10. ASSUME NEW c \in Consoles, NEW b \in Bodies, Post(c, b)
         PROVE  RoutingInv' /\ config' = config
    <2> DEFINE r == [at |-> "upsert", id |-> b.id, record |-> KeyRecord(Resolve(b)),
                     event |-> Event(Written(b.id), b.id, "success")]
    <2>1. RequestOK(r) /\ Begin(c, r)
      BY <1>10 DEF Post, RequestOK, Event
    <2> QED BY <1>9, <2>1
  <1>11. ASSUME NEW c \in Consoles, NEW k \in Keys, Drop(c, k)
         PROVE  RoutingInv' /\ config' = config
    <2>1. RequestOK([at |-> "delete", id |-> k])
      BY DEF RequestOK
    <2> QED BY <1>9, <1>11, <2>1 DEF Drop
  <1>12. ASSUME NEW c \in Consoles, NEW k \in Keys, NEW s \in Statuses, Patch(c, k, s)
         PROVE  RoutingInv' /\ config' = config
    <2>1. RequestOK([at |-> "update", id |-> k, status |-> s])
      BY DEF RequestOK
    <2> QED BY <1>9, <1>12, <2>1 DEF Patch
  <1> QED BY <1>S, <1>1, <1>2, <1>3, <1>4, <1>5, <1>6, <1>7, <1>8, <1>10, <1>11, <1>12
          DEF Next, Boot, Open, Crash

LEMMA RoutingInvariant == Spec => []RoutingInv
  <1>1. RoutingInv /\ [Next]_vars => RoutingInv'
    BY RoutingNext
  <1> QED BY <1>1, RoutingInit, PTL DEF Spec

-----------------------------------------------------------------------------
(* The theorems                                                             *)

(* runtime-key-config.ts: while the gateway is up, each key the console     *)
(* stored has its model in its pool under its provider, and its provider    *)
(* has an adapter or gets one from a POST in flight: whatever the file, the *)
(* bodies, the number of consoles, and the crashes and deletions between.   *)
THEOREM KeysRoutable == Spec => []StoredKeysRoutable
  <1>1. RoutingInv => StoredKeysRoutable
    <2> SUFFICES ASSUME RoutingInv, mode = "up",
                        NEW k \in DOMAIN store, HasRuntimeConfig(store[k])
                 PROVE  LET r == store[k] IN
                   /\ \E i \in DOMAIN config.pools : \E j \in DOMAIN config.pools[i].entries :
                        /\ config.pools[i].name = r.pool
                        /\ config.pools[i].entries[j].provider = r.provider
                        /\ r.model \in config.pools[i].entries[j].models
                   /\ r.provider \in config.adapters \/ Writing(k)
      BY DEF StoredKeysRoutable
    <2> DEFINE r == store[k]
    <2>1. Holds(config.pools, r) /\ config.pools \in Seq(Pool)
      BY ConfigPools DEF RoutingInv, AllServed, Serves
    <2>2. PICK i \in 1 .. Len(config.pools) : config.pools[i].name = r.pool
      BY <2>1 DEF Holds
    <2>3. PICK j \in 1 .. Len(config.pools[i].entries) :
                 /\ First(config.pools[i].entries, r.provider, j)
                 /\ r.model \in config.pools[i].entries[j].models
      BY <2>1, <2>2 DEF Holds
    <2>4. i \in DOMAIN config.pools /\ j \in DOMAIN config.pools[i].entries
      BY <2>1, <2>2, <2>3, PoolEntries
    <2>5. r.provider \in config.adapters \/ Writing(k)
      BY DEF RoutingInv, AllAdapted, Brings, Writing
    <2> QED BY <2>2, <2>3, <2>4, <2>5 DEF First
  <1> QED BY <1>1, RoutingInvariant, PTL

\* What a restart would build, from the file and from the keys it has stored.
LEMMA RestartBuilds ==
  ASSUME IsStore(store)
  PROVE  /\ AfterRestart \in Config
         /\ Grown(AfterRestart, StartConfig, Routed(store))
         /\ StartConfig.pools = FilePools /\ StartConfig.providers = FileProviders
         /\ FilePools \in Seq(Pool)
  <1>1. AfterRestart = Restore(StartConfig, store)
    BY DEF AfterRestart, StartConfig
  <1>2. StartConfig.pools = FilePools /\ StartConfig.providers = FileProviders
    BY DEF StartConfig, FileConfig
  <1> QED BY <1>1, <1>2, ConfigsTyped, ConfigPools, RestoreGrows

LEMMA RestartServes ==
  ASSUME IsStore(store)
  PROVE  \A r \in Routed(store) : Holds(AfterRestart.pools, r)
  <1>1. AfterRestart = Restore(StartConfig, store)
    BY DEF AfterRestart, StartConfig
  <1> QED BY <1>1, ConfigsTyped, RestoreGrows DEF Serves

\* Two entries that are the first of a provider are one.
LEMMA FirstIsOne ==
  ASSUME NEW es \in Seq(Entry), NEW p, NEW i, NEW j, First(es, p, i), First(es, p, j)
  PROVE  i = j
  BY DEF First

LEMMA RouteOfEntry ==
  ASSUME NEW c \in Config, NEW p \in c.providers, NEW m \in Models,
         NEW i \in 1 .. Len(c.pools), NEW j \in 1 .. Len(c.pools[i].entries),
         c.pools[i].entries[j].provider = p,
         c.pools[i].entries[j].models = {} \/ m \in c.pools[i].entries[j].models
  PROVE  <<c.pools[i].name, p, m>> \in Routes(c)
  <1>1. i \in DOMAIN c.pools /\ j \in DOMAIN c.pools[i].entries
    BY ConfigPools, PoolEntries
  <1>2. c.pools[i].name \in Names(c)
    BY <1>1 DEF Names
  <1> QED BY <1>1, <1>2 DEF Routes

LEMMA EntryOfRoute ==
  ASSUME NEW c \in Config, NEW t \in Routes(c)
  PROVE  /\ t = <<t[1], t[2], t[3]>> /\ t[2] \in c.providers /\ t[3] \in Models
         /\ \E i \in 1 .. Len(c.pools) : \E j \in 1 .. Len(c.pools[i].entries) :
              /\ c.pools[i].name = t[1]
              /\ c.pools[i].entries[j].provider = t[2]
              /\ \/ c.pools[i].entries[j].models = {}
                 \/ t[3] \in c.pools[i].entries[j].models
  <1>1. /\ t \in Names(c) \X c.providers \X Models
        /\ \E i \in DOMAIN c.pools : \E j \in DOMAIN c.pools[i].entries :
             /\ c.pools[i].name = t[1]
             /\ c.pools[i].entries[j].provider = t[2]
             /\ \/ c.pools[i].entries[j].models = {}
                \/ t[3] \in c.pools[i].entries[j].models
    BY DEF Routes
  <1>2. PICK i \in DOMAIN c.pools : \E j \in DOMAIN c.pools[i].entries :
             /\ c.pools[i].name = t[1]
             /\ c.pools[i].entries[j].provider = t[2]
             /\ \/ c.pools[i].entries[j].models = {}
                \/ t[3] \in c.pools[i].entries[j].models
    BY <1>1
  <1>3. i \in 1 .. Len(c.pools) /\ DOMAIN c.pools[i].entries = 1 .. Len(c.pools[i].entries)
    BY ConfigPools, PoolEntries
  <1>4. t = <<t[1], t[2], t[3]>> /\ t[2] \in c.providers /\ t[3] \in Models
    BY <1>1
  <1>5. \E j \in 1 .. Len(c.pools[i].entries) :
              /\ c.pools[i].name = t[1]
              /\ c.pools[i].entries[j].provider = t[2]
              /\ \/ c.pools[i].entries[j].models = {}
                 \/ t[3] \in c.pools[i].entries[j].models
    BY <1>2, <1>3
  <1> QED BY <1>3, <1>4, <1>5

\* The file's entry at a place of both configs.
LEMMA SameEntry ==
  ASSUME NEW c \in Config, NEW b \in Config,
         PoolsKept(c.pools, FilePools), PoolsKept(b.pools, FilePools),
         NEW i \in 1 .. Len(FilePools), NEW j \in 1 .. Len(FilePools[i].entries)
  PROVE  /\ i \in 1 .. Len(c.pools) /\ j \in 1 .. Len(c.pools[i].entries)
         /\ c.pools[i].name = FilePools[i].name /\ b.pools[i].name = FilePools[i].name
         /\ c.pools[i].entries[j].provider = FilePools[i].entries[j].provider
         /\ b.pools[i].entries[j].provider = FilePools[i].entries[j].provider
         /\ FilePools[i].entries[j].models \subseteq c.pools[i].entries[j].models
         /\ FilePools[i].entries[j].models \subseteq b.pools[i].entries[j].models
         /\ \A p : First(c.pools[i].entries, p, j) => First(b.pools[i].entries, p, j)
  <1>1. /\ c.pools \in Seq(Pool) /\ b.pools \in Seq(Pool) /\ FilePools \in Seq(Pool)
        /\ FileConfig.pools = FilePools
    BY ConfigsTyped, ConfigPools DEF FileConfig
  <1>2. /\ i \in 1 .. Len(c.pools) /\ i \in 1 .. Len(b.pools)
        /\ c.pools[i].name = FilePools[i].name /\ b.pools[i].name = FilePools[i].name
        /\ EntriesKept(c.pools[i].entries, FilePools[i].entries)
        /\ EntriesKept(b.pools[i].entries, FilePools[i].entries)
    BY <1>1 DEF PoolsKept
  <1>3. /\ c.pools[i].entries \in Seq(Entry) /\ b.pools[i].entries \in Seq(Entry)
        /\ FilePools[i].entries \in Seq(Entry)
    BY <1>1, <1>2, PoolEntries
  <1>4. \A p : First(c.pools[i].entries, p, j) => First(b.pools[i].entries, p, j)
    BY <1>2, <1>3, FirstKept
  <1> QED BY <1>2, <1>3, <1>4 DEF EntriesKept

LEMMA RestartRoutes ==
  ASSUME RoutingInv, mode = "up",
         NEW t \in Routes(AfterRestart), t \notin Routes(config)
  PROVE  /\ <<t[1], t[2]>> \in OpenEntries(FileConfig) \ OpenEntries(config)
         /\ ~Named(t[1], t[2])
  <1> DEFINE b == AfterRestart
             R == Routed(store)
  <1>1. /\ b \in Config /\ Grown(b, StartConfig, R) /\ StartConfig.pools = FilePools
        /\ StartConfig.providers = FileProviders /\ FilePools \in Seq(Pool)
    BY RestartBuilds DEF RoutingInv, TypeOK
  <1>2. /\ b.pools \in Seq(Pool) /\ config.pools \in Seq(Pool)
        /\ PoolsKept(b.pools, FilePools) /\ Explained(b.pools, FilePools, R)
        /\ OpenKept(b.pools, FilePools)
        /\ b.providers \subseteq FileProviders \cup {r.provider : r \in R}
    BY <1>1, ConfigPools DEF Grown, Kept, RoutingInv
  <1>3. /\ PoolsKept(config.pools, FilePools) /\ FileProviders \subseteq config.providers
        /\ Explained(config.pools, FilePools, StoredRecord)
        /\ config \in Config
    BY DEF RoutingInv, FromFile, Kept, FileConfig
  <1>4. \A r \in R : Serves(config, r)
    BY DEF RoutingInv, AllServed, Routed
  <1>5. \A r \in R : Holds(b.pools, r)
    BY RestartServes DEF RoutingInv, TypeOK
  <1>T. t \in Routes(b)
    OBVIOUS
  <1>N. Named(t[1], t[2]) => \E r \in R : r.pool = t[1] /\ r.provider = t[2]
    BY DEF Named, Routed
  <1> HIDE DEF b, R
  <1>6. /\ t = <<t[1], t[2], t[3]>> /\ t[2] \in b.providers /\ t[3] \in Models
        /\ \E i \in 1 .. Len(b.pools) : \E j \in 1 .. Len(b.pools[i].entries) :
              /\ b.pools[i].name = t[1]
              /\ b.pools[i].entries[j].provider = t[2]
              /\ \/ b.pools[i].entries[j].models = {}
                 \/ t[3] \in b.pools[i].entries[j].models
    BY <1>1, <1>T, EntryOfRoute
  <1>7. PICK i \in 1 .. Len(b.pools) : \E j \in 1 .. Len(b.pools[i].entries) :
              /\ b.pools[i].name = t[1]
              /\ b.pools[i].entries[j].provider = t[2]
              /\ \/ b.pools[i].entries[j].models = {}
                 \/ t[3] \in b.pools[i].entries[j].models
    BY <1>6
  <1>8. PICK j \in 1 .. Len(b.pools[i].entries) :
              /\ b.pools[i].name = t[1]
              /\ b.pools[i].entries[j].provider = t[2]
              /\ \/ b.pools[i].entries[j].models = {}
                 \/ t[3] \in b.pools[i].entries[j].models
    BY <1>7
  <1>9. t[2] \in config.providers
    BY <1>2, <1>3, <1>4, <1>6 DEF Serves
  \* No entry of the config takes the model.
  <1>10. ASSUME NEW k \in 1 .. Len(config.pools),
                NEW l \in 1 .. Len(config.pools[k].entries),
                config.pools[k].name = t[1], config.pools[k].entries[l].provider = t[2]
         PROVE  /\ config.pools[k].entries[l].models # {}
                /\ t[3] \notin config.pools[k].entries[l].models
    BY <1>3, <1>6, <1>9, <1>10, RouteOfEntry
  <1>0. /\ config \in Config /\ b \in Config
        /\ PoolsKept(config.pools, FilePools) /\ PoolsKept(b.pools, FilePools)
    BY <1>1, <1>2, <1>3 DEF RoutingInv
  \* An entry of the file is in both.
  <1>S. ASSUME NEW k \in 1 .. Len(FilePools), NEW l \in 1 .. Len(FilePools[k].entries)
        PROVE  /\ k \in 1 .. Len(config.pools) /\ l \in 1 .. Len(config.pools[k].entries)
               /\ config.pools[k].name = FilePools[k].name
               /\ b.pools[k].name = FilePools[k].name
               /\ config.pools[k].entries[l].provider = FilePools[k].entries[l].provider
               /\ b.pools[k].entries[l].provider = FilePools[k].entries[l].provider
               /\ FilePools[k].entries[l].models \subseteq config.pools[k].entries[l].models
               /\ FilePools[k].entries[l].models \subseteq b.pools[k].entries[l].models
               /\ \A p : First(config.pools[k].entries, p, l)
                          => First(b.pools[k].entries, p, l)
    <2>1. /\ k \in 1 .. Len(config.pools) /\ l \in 1 .. Len(config.pools[k].entries)
          /\ config.pools[k].name = FilePools[k].name
          /\ b.pools[k].name = FilePools[k].name
      BY <1>0, SameEntry
    <2>2. /\ config.pools[k].entries[l].provider = FilePools[k].entries[l].provider
          /\ b.pools[k].entries[l].provider = FilePools[k].entries[l].provider
      BY <1>0, SameEntry
    <2>3. /\ FilePools[k].entries[l].models \subseteq config.pools[k].entries[l].models
          /\ FilePools[k].entries[l].models \subseteq b.pools[k].entries[l].models
      BY <1>0, SameEntry
    <2>4. \A p : First(config.pools[k].entries, p, l) => First(b.pools[k].entries, p, l)
      BY <1>0, SameEntry
    <2> QED BY <2>1, <2>2, <2>3, <2>4
  <1>11. t[3] \notin b.pools[i].entries[j].models
    <2> SUFFICES ASSUME t[3] \in b.pools[i].entries[j].models
                 PROVE  FALSE
      OBVIOUS
    <2>1. CASE /\ i \in 1 .. Len(FilePools) /\ j \in 1 .. Len(FilePools[i].entries)
               /\ t[3] \in FilePools[i].entries[j].models
      <3>1. /\ i \in 1 .. Len(config.pools) /\ j \in 1 .. Len(config.pools[i].entries)
            /\ config.pools[i].name = t[1] /\ config.pools[i].entries[j].provider = t[2]
            /\ t[3] \in config.pools[i].entries[j].models
        BY <1>8, <2>1, <1>S
      <3> QED BY <1>10, <3>1
    <2>2. ASSUME NEW r \in R, r.pool = b.pools[i].name, r.model = t[3],
                 First(b.pools[i].entries, r.provider, j)
          PROVE  FALSE
      <3>1. r.pool = t[1] /\ r.provider = t[2] /\ Holds(config.pools, r)
        BY <1>4, <1>8, <2>2 DEF First, Serves
      <3>2. PICK k \in 1 .. Len(config.pools) : config.pools[k].name = r.pool
        BY <3>1 DEF Holds
      <3>3. PICK l \in 1 .. Len(config.pools[k].entries) :
                   /\ First(config.pools[k].entries, r.provider, l)
                   /\ r.model \in config.pools[k].entries[l].models
        BY <3>1, <3>2 DEF Holds
      <3>4. config.pools[k].entries[l].provider = t[2]
        BY <3>1, <3>3 DEF First
      <3> QED BY <1>10, <2>2, <3>1, <3>2, <3>3, <3>4
    <2>3. \/ /\ i \in 1 .. Len(FilePools) /\ j \in 1 .. Len(FilePools[i].entries)
             /\ t[3] \in FilePools[i].entries[j].models
          \/ \E r \in R : /\ r.pool = b.pools[i].name /\ r.model = t[3]
                          /\ First(b.pools[i].entries, r.provider, j)
      BY <1>2 DEF Explained
    <2> QED BY <2>1, <2>2, <2>3
  \* The entry is open after a restart, so the file opens it, and it was narrowed.
  <1>12. b.pools[i].entries[j].models = {}
    BY <1>8, <1>11
  <1>13. i \in 1 .. Len(FilePools) /\ j \in 1 .. Len(FilePools[i].entries)
    BY <1>2, <1>12 DEF OpenKept
  <1>14. /\ i \in 1 .. Len(config.pools) /\ j \in 1 .. Len(config.pools[i].entries)
         /\ config.pools[i].name = t[1] /\ config.pools[i].entries[j].provider = t[2]
         /\ FilePools[i].name = t[1] /\ FilePools[i].entries[j].provider = t[2]
         /\ FilePools[i].entries[j].models \subseteq b.pools[i].entries[j].models
         /\ \A p : First(config.pools[i].entries, p, j) => First(b.pools[i].entries, p, j)
    <2>1. /\ i \in 1 .. Len(config.pools) /\ j \in 1 .. Len(config.pools[i].entries)
          /\ config.pools[i].name = FilePools[i].name /\ b.pools[i].name = FilePools[i].name
          /\ config.pools[i].entries[j].provider = FilePools[i].entries[j].provider
          /\ b.pools[i].entries[j].provider = FilePools[i].entries[j].provider
          /\ FilePools[i].entries[j].models \subseteq b.pools[i].entries[j].models
      BY <1>13, <1>S
    <2>2. \A p : First(config.pools[i].entries, p, j) => First(b.pools[i].entries, p, j)
      BY <1>13, <1>S
    <2> QED BY <1>8, <2>1, <2>2
  <1>15. FilePools[i].entries[j].models = {}
    BY <1>12, <1>14
  <1>16. <<t[1], t[2]>> \in OpenEntries(FileConfig)
    <2>1. /\ i \in DOMAIN FileConfig.pools /\ FileConfig.pools = FilePools
          /\ j \in DOMAIN FilePools[i].entries
      BY <1>1, <1>13, PoolEntries DEF FileConfig
    <2> QED BY <1>14, <1>15, <2>1 DEF OpenEntries
  <1>17. <<t[1], t[2]>> \notin OpenEntries(config)
    <2> SUFFICES ASSUME <<t[1], t[2]>> \in OpenEntries(config)
                 PROVE  FALSE
      OBVIOUS
    <2>1. PICK k \in DOMAIN config.pools : \E l \in DOMAIN config.pools[k].entries :
               /\ config.pools[k].entries[l].models = {}
               /\ config.pools[k].name = t[1] /\ config.pools[k].entries[l].provider = t[2]
      BY DEF OpenEntries
    <2>2. k \in 1 .. Len(config.pools)
      BY <1>2
    <2>3. DOMAIN config.pools[k].entries = 1 .. Len(config.pools[k].entries)
      BY <1>2, <2>2, PoolEntries
    <2> QED BY <1>10, <2>1, <2>2, <2>3
  <1>18. ~Named(t[1], t[2])
    <2> SUFFICES ASSUME NEW r \in R, r.pool = t[1], r.provider = t[2]
                 PROVE  FALSE
      BY <1>N
    <2>1. PICK l \in 1 .. Len(b.pools[i].entries) :
                 /\ First(b.pools[i].entries, r.provider, l)
                 /\ r.model \in b.pools[i].entries[l].models
      BY <1>5, <1>8 DEF Holds
    <2>2. config.pools[i].entries[j].models # {}
      BY <1>10, <1>14
    <2>3. PICK m \in config.pools[i].entries[j].models : TRUE
      BY <2>2
    <2>4. PICK q \in StoredRecord : /\ q.pool = config.pools[i].name /\ q.model = m
                                    /\ First(config.pools[i].entries, q.provider, j)
      BY <1>3, <1>14, <1>15 DEF Explained
    <2>5. First(b.pools[i].entries, r.provider, j)
      <3>1. q.provider = t[2]
        BY <1>14, <2>4 DEF First
      <3> QED BY <1>14, <2>4, <3>1
    <2>6. l = j
      BY <1>2, <2>1, <2>5, PoolEntries, FirstIsOne
    <2> QED BY <1>12, <2>1, <2>6
  <1> QED BY <1>16, <1>17, <1>18

LEMMA RestartOpen ==
  ASSUME RoutingInv, mode = "up"
  PROVE  OpenEntries(config) \subseteq OpenEntries(AfterRestart)
  <1> DEFINE b == AfterRestart
             R == Routed(store)
  <1>1. /\ b \in Config /\ Grown(b, StartConfig, R) /\ StartConfig.pools = FilePools
        /\ FilePools \in Seq(Pool)
    BY RestartBuilds DEF RoutingInv, TypeOK
  <1>2. /\ b.pools \in Seq(Pool) /\ config.pools \in Seq(Pool)
        /\ PoolsKept(b.pools, FilePools) /\ Explained(b.pools, FilePools, R)
    BY <1>1, ConfigPools DEF Grown, Kept, RoutingInv
  <1>3. PoolsKept(config.pools, FilePools) /\ OpenKept(config.pools, FilePools)
    BY DEF RoutingInv, FromFile, Kept, FileConfig
  <1>4. \A r \in R : Holds(config.pools, r)
    BY DEF RoutingInv, AllServed, Routed, Serves
  <1> HIDE DEF b, R
  <1>5. ASSUME NEW i \in 1 .. Len(config.pools), NEW j \in 1 .. Len(config.pools[i].entries),
               config.pools[i].entries[j].models = {}
        PROVE  /\ i \in 1 .. Len(b.pools) /\ j \in 1 .. Len(b.pools[i].entries)
               /\ b.pools[i].name = config.pools[i].name
               /\ b.pools[i].entries[j].provider = config.pools[i].entries[j].provider
               /\ b.pools[i].entries[j].models = {}
    <2>1. i \in 1 .. Len(FilePools) /\ j \in 1 .. Len(FilePools[i].entries)
      BY <1>3, <1>5 DEF OpenKept
    <2>2. /\ config.pools[i].name = FilePools[i].name
          /\ EntriesKept(config.pools[i].entries, FilePools[i].entries)
      BY <1>3, <2>1 DEF PoolsKept
    <2>3. /\ i \in 1 .. Len(b.pools) /\ b.pools[i].name = FilePools[i].name
          /\ EntriesKept(b.pools[i].entries, FilePools[i].entries)
      BY <1>1, <1>2, <2>1 DEF PoolsKept
    <2>4. /\ FilePools[i].entries \in Seq(Entry) /\ b.pools[i].entries \in Seq(Entry)
          /\ config.pools[i].entries \in Seq(Entry)
      BY <1>1, <1>2, <2>1, <2>3, PoolEntries
    <2>5. /\ j \in 1 .. Len(b.pools[i].entries)
          /\ FilePools[i].entries[j].models = {}
          /\ b.pools[i].entries[j].provider = config.pools[i].entries[j].provider
      BY <1>5, <2>1, <2>2, <2>3, <2>4, SMTT(30) DEF EntriesKept
    <2>6. ASSUME NEW m \in b.pools[i].entries[j].models
          PROVE  FALSE
      <3>1. PICK r \in R : /\ r.pool = b.pools[i].name /\ r.model = m
                           /\ First(b.pools[i].entries, r.provider, j)
        BY <1>2, <2>3, <2>5 DEF Explained
      <3>2. First(config.pools[i].entries, r.provider, j)
        BY <2>1, <2>2, <2>3, <2>4, <3>1, FirstKept
      <3>3. PICK l \in 1 .. Len(config.pools[i].entries) :
                   /\ First(config.pools[i].entries, r.provider, l)
                   /\ r.model \in config.pools[i].entries[l].models
        BY <1>4, <2>2, <2>3, <3>1 DEF Holds
      <3>4. l = j
        <4>1. /\ l \in Int /\ j \in Int /\ 1 <= l /\ 1 <= j
              /\ config.pools[i].entries[l].provider = r.provider
              /\ config.pools[i].entries[j].provider = r.provider
              /\ \A n \in 1 .. l - 1 : config.pools[i].entries[n].provider # r.provider
              /\ \A n \in 1 .. j - 1 : config.pools[i].entries[n].provider # r.provider
          BY <3>2, <3>3 DEF First
        <4>2. ~(j < l) /\ ~(l < j)
          BY <4>1
        <4> QED BY <4>1, <4>2
      <3> QED BY <1>5, <3>3, <3>4
    <2> QED BY <2>2, <2>3, <2>5, <2>6
  <1> SUFFICES ASSUME NEW t \in OpenEntries(config)
               PROVE  t \in OpenEntries(b)
    BY DEF b
  <1>6. PICK i \in DOMAIN config.pools :
               \E j \in DOMAIN config.pools[i].entries :
                 /\ config.pools[i].entries[j].models = {}
                 /\ t = <<config.pools[i].name, config.pools[i].entries[j].provider>>
    BY DEF OpenEntries
  <1>7. PICK j \in DOMAIN config.pools[i].entries :
                 /\ config.pools[i].entries[j].models = {}
                 /\ t = <<config.pools[i].name, config.pools[i].entries[j].provider>>
    BY <1>6
  <1>8. i \in 1 .. Len(config.pools) /\ j \in 1 .. Len(config.pools[i].entries)
    BY <1>2, <1>6, <1>7, PoolEntries
  <1>10. /\ i \in 1 .. Len(b.pools) /\ j \in 1 .. Len(b.pools[i].entries)
         /\ b.pools[i].name = config.pools[i].name
         /\ b.pools[i].entries[j].provider = config.pools[i].entries[j].provider
         /\ b.pools[i].entries[j].models = {}
    BY <1>5, <1>7, <1>8
  <1>11. DOMAIN b.pools = 1 .. Len(b.pools)
    BY <1>2
  <1>12. DOMAIN b.pools[i].entries = 1 .. Len(b.pools[i].entries)
    BY <1>2, <1>10, PoolEntries
  <1>9. /\ i \in DOMAIN b.pools /\ j \in DOMAIN b.pools[i].entries
        /\ b.pools[i].entries[j].models = {}
        /\ t = <<b.pools[i].name, b.pools[i].entries[j].provider>>
    BY <1>7, <1>10, <1>11, <1>12
  <1> QED BY <1>9 DEF OpenEntries

(* app.ts:205: whatever the file and the calls, a restart serves no route   *)
(* that the running gateway does not, but in an entry the file opens, a key *)
(* narrowed and no stored key names any more; and it leaves every entry     *)
(* open that is open now.                                                   *)
THEOREM RestartReopens == Spec => []RestartOnlyReopens
  <1>1. RoutingInv => RestartOnlyReopens
    BY RestartRoutes, RestartOpen DEF RestartOnlyReopens
  <1> QED BY <1>1, RoutingInvariant, PTL

\* Of the positions that take a model, if there are any, one is the first.
LEMMA FirstPosition ==
  ASSUME NEW T \in SUBSET (Nat \X Nat), NEW p \in T
  PROVE  \E q \in T : (\A r \in T : Before(q, r)) /\ Before(q, p)
  <1> DEFINE A == {q[1] : q \in T}
  <1>1. PICK i \in A : \A k \in A : i <= k
    <2>1. A \in SUBSET Nat /\ A # {}
      OBVIOUS
    <2> HIDE DEF A
    <2> QED BY <2>1, LeastNatural
  <1> DEFINE B == {q[2] : q \in {r \in T : r[1] = i}}
  <1>2. PICK j \in B : \A k \in B : j <= k
    <2>1. B \in SUBSET Nat /\ B # {}
      OBVIOUS
    <2> HIDE DEF B
    <2> QED BY <2>1, LeastNatural
  <1>3. PICK q \in T : q[1] = i /\ q[2] = j
    OBVIOUS
  <1>4. ASSUME NEW r \in T
        PROVE  Before(q, r)
    <2>1. r[1] \in Nat /\ i \in Nat /\ i <= r[1]
      BY <1>1
    <2>2. r[1] = i => j <= r[2]
      BY <1>2
    <2> QED BY <1>3, <2>1, <2>2 DEF Before
  <1> QED BY <1>4

LEMMA RouteKept ==
  ASSUME NEW c \in Config, NEW d \in Config, Kept(d, c), NEW m, NEW p \in Route(c, m)
  PROVE  \/ \E q \in Route(d, m) : Before(q, p)
         \/ /\ c.pools[p[1]].entries[p[2]].models = {}
            /\ d.pools[p[1]].entries[p[2]].models # {}
  <1> DEFINE i == p[1]
             j == p[2]
  <1>1. /\ c.pools \in Seq(Pool) /\ d.pools \in Seq(Pool)
        /\ PoolsKept(d.pools, c.pools) /\ c.adapters \subseteq d.adapters
    BY ConfigPools DEF Kept
  <1>2. /\ p = <<i, j>> /\ i \in 1 .. Len(c.pools) /\ j \in 1 .. Len(c.pools[i].entries)
        /\ Takes(c, c.pools[i].entries[j], m)
    BY <1>1, PoolEntries DEF Route, TakenAt
  <1> HIDE DEF i, j
  <1>3. /\ i \in 1 .. Len(d.pools) /\ EntriesKept(d.pools[i].entries, c.pools[i].entries)
    BY <1>1, <1>2 DEF PoolsKept
  <1>4. /\ j \in 1 .. Len(d.pools[i].entries)
        /\ d.pools[i].entries[j].provider = c.pools[i].entries[j].provider
        /\ c.pools[i].entries[j].models \subseteq d.pools[i].entries[j].models
    BY <1>1, <1>2, <1>3, PoolEntries DEF EntriesKept
  <1>5. ASSUME ~ (/\ c.pools[i].entries[j].models = {}
                  /\ d.pools[i].entries[j].models # {})
        PROVE  \E q \in Route(d, m) : Before(q, p)
    <2>1. Takes(d, d.pools[i].entries[j], m)
      BY <1>1, <1>2, <1>4, <1>5 DEF Takes
    <2>2. p \in TakenAt(d, m)
      <3>1. i \in DOMAIN d.pools /\ j \in DOMAIN d.pools[i].entries
        BY <1>1, <1>3, <1>4, PoolEntries
      <3>2. p[1] = i /\ p[2] = j
        BY <1>2
      <3> QED BY <1>2, <2>1, <3>1, <3>2 DEF TakenAt
    <2>3. TakenAt(d, m) \in SUBSET (Nat \X Nat)
      <3>1. \A k \in DOMAIN d.pools : k \in Nat /\ DOMAIN d.pools[k].entries \subseteq Nat
        <4>1. \A k \in DOMAIN d.pools : k \in 1 .. Len(d.pools)
          BY <1>1
        <4> QED BY <1>1, <4>1, PoolEntries
      <3> QED BY <3>1 DEF TakenAt
    <2>4. PICK q \in TakenAt(d, m) : (\A r \in TakenAt(d, m) : Before(q, r)) /\ Before(q, p)
      BY <2>2, <2>3, FirstPosition
    <2> QED BY <2>4 DEF Route
  <1> QED BY <1>5 DEF i, j

(* runtime-key-config.ts:95: while the gateway is up the console takes no   *)
(* route of a model away and moves none further down, except where a key    *)
(* narrows an entry that was open to every model.                           *)
THEOREM RoutesStay == Spec => RoutesKept
  <1>1. ASSUME RoutingInv, [Next]_vars, mode = "up", mode' = "up"
        PROVE  \A m \in Models : \A p \in Route(config, m) :
                 \/ \E q \in Route(config', m) : Before(q, p)
                 \/ /\ config.pools[p[1]].entries[p[2]].models = {}
                    /\ config'.pools[p[1]].entries[p[2]].models # {}
    <2>1. Kept(config', config) /\ config \in Config /\ config' \in Config
      BY <1>1, RoutingNext DEF RoutingInv
    <2> QED BY <2>1, RouteKept, SMTT(20)
  <1> QED BY <1>1, RoutingInvariant, PTL DEF Spec, RoutesKept

===============================================================================

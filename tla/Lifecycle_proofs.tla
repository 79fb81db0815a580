-------------------------- MODULE Lifecycle_proofs --------------------------
(***************************************************************************)
(* Theorems about Lifecycle, for every config file, every set of consoles, *)
(* of POST bodies and of keys, and any number of crashes.                  *)
(***************************************************************************)
EXTENDS Lifecycle, FiniteSetTheorems, WellFoundedInduction, TLAPS

-----------------------------------------------------------------------------
(* The records the config file and the console make.                        *)

\* A nonempty set of numbers has a least one.
LEMMA LeastExists ==
  ASSUME NEW S \in SUBSET Nat, S # {}
  PROVE  Least(S) \in S
<1>1. PICK x \in S : \A y \in S : ~ (<<y, x>> \in OpToRel(<, Nat))
  BY NatLessThanWellFounded, WFMin, Zenon
<1>2. \A y \in S : ~ (y < x)
  BY <1>1, Zenon DEF OpToRel
<1>3. \A y \in S : x <= y
  BY <1>2
<1> QED
  BY <1>3 DEF Least

\* ... and a greatest one if the set is bounded.
LEMMA GreatestExists ==
  ASSUME NEW n \in Nat, NEW S \in SUBSET (0 .. n), S # {}
  PROVE  Greatest(S) \in S
<1> DEFINE T == {n - i : i \in S}
<1>1. T \in SUBSET Nat /\ T # {}
  <2>1. T \in SUBSET Nat
    OBVIOUS
  <2>2. PICK i \in S : TRUE
    OBVIOUS
  <2>3. n - i \in T
    OBVIOUS
  <2> QED
    BY <2>1, <2>3
<1>2. PICK x \in T : \A y \in T : ~ (<<y, x>> \in OpToRel(<, Nat))
  <2> HIDE DEF T
  <2> QED BY <1>1, NatLessThanWellFounded, WFMin, Zenon
<1>3. \A y \in T : ~ (y < x)
  <2> HIDE DEF T
  <2> QED BY <1>1, <1>2, Zenon DEF OpToRel
<1>4. PICK i \in S : x = n - i
  OBVIOUS
<1>5. \A j \in S : i >= j
  <2> SUFFICES ASSUME NEW j \in S PROVE i >= j
    OBVIOUS
  <2>1. ~ (n - j < n - i)
    BY <1>3, <1>4
  <2> QED
    BY <2>1
<1> QED
  BY <1>5 DEF Greatest

\* Each key of the file that has a pool gets a whole record.
LEMMA FileRecords ==
  ASSUME NEW k \in SeededKeys
  PROVE  SeedRecord(k) \in StoredRecord /\ MemoryRecords[k] \in StoredRecord
<1> USE LifecycleAssumption
<1> DEFINE Pool == [name : STRING,
                    entries : Seq([provider : STRING, models : SUBSET Models])]
<1>A. FilePools \in Seq(Pool)
  OBVIOUS
<1>B. \A pool \in Pool : pool.name \in STRING
  OBVIOUS
<1>1. /\ PoolsOf(k) \in SUBSET (0 .. Len(FilePools)) /\ PoolsOf(k) # {}
      /\ Len(FilePools) \in Nat
  <2> HIDE DEF Pool
  <2> QED BY <1>A DEF PoolsOf, SeededKeys
<1>2. \A i \in PoolsOf(k) : FilePools[i].name \in STRING
  <2> HIDE DEF Pool
  <2>1. \A i \in DOMAIN FilePools : FilePools[i] \in Pool
    BY <1>A
  <2> QED
    BY <2>1, <1>B DEF PoolsOf
<1>3. OwnerOf[k] \in STRING
  BY DEF SeededKeys
<1>4. Least(PoolsOf(k)) \in PoolsOf(k)
  <2>1. PoolsOf(k) \in SUBSET Nat
    BY <1>1
  <2> QED
    BY <2>1, <1>1, LeastExists
<1>5. Greatest(PoolsOf(k)) \in PoolsOf(k)
  BY <1>1, GreatestExists
<1>6. \A i \in PoolsOf(k) : FileRecord(k, i) \in StoredRecord
  BY <1>2, <1>3 DEF FileRecord, KeyRecord, StoredRecord, Status, Optional
<1> QED
  BY <1>4, <1>5, <1>6 DEF SeedRecord, MemoryRecords

\* A body POST accepts resolves to a whole record.
LEMMA UploadsAreRecords == Uploads \subseteq StoredRecord
<1> SUFFICES ASSUME NEW b \in Bodies, Accepted(b)
             PROVE  KeyRecord(Resolve(b)) \in StoredRecord
  BY DEF Uploads
<1> DEFINE p == IF b.preset \in DOMAIN Presets THEN Presets[b.preset] ELSE NoPreset
<1>1. /\ p.provider \in Optional(STRING)
      /\ p.pool \in Optional(STRING)
      /\ p.model \in Optional(STRING)
  BY LifecycleAssumption DEF NoPreset, Optional
<1>2. /\ OrElse(b.provider, p.provider) \in Optional(STRING)
      /\ OrElse(b.pool, p.pool) \in Optional(STRING)
      /\ OrElse(OrElse(b.model, p.model), DefaultModel) \in Optional(STRING)
  BY <1>1, LifecycleAssumption DEF OrElse, Optional
<1>3. Resolve(b) = [provider |-> OrElse(b.provider, p.provider),
                    baseUrl  |-> OrElse(b.baseUrl, p.baseUrl),
                    pool     |-> OrElse(b.pool, p.pool),
                    model    |-> OrElse(OrElse(b.model, p.model), DefaultModel)]
  BY DEF Resolve
<1>4. Resolve(b).provider \in STRING /\ Resolve(b).pool \in STRING
  BY <1>2, <1>3 DEF Accepted, Optional
<1>5. Resolve(b).model \in Optional(STRING)
  BY <1>2, <1>3
<1> HIDE DEF p
<1> QED
  BY <1>4, <1>5 DEF KeyRecord, StoredRecord, Status

-----------------------------------------------------------------------------
(* The repository calls.                                                    *)

LEMMA PutStore ==
  ASSUME NEW s, IsStore(s), NEW k \in Keys, NEW r \in StoredRecord
  PROVE  /\ IsStore(Put(s, k, r))
         /\ DOMAIN Put(s, k, r) = DOMAIN s \cup {k}
         /\ \A j \in DOMAIN s \ {k} : Put(s, k, r)[j] = s[j]
         /\ Put(s, k, r)[k] = r
  BY DEF IsStore, Put

LEMMA DeleteStore ==
  ASSUME NEW s, IsStore(s), NEW k
  PROVE  /\ IsStore(Delete(s, k))
         /\ ~Has(s, k) => Delete(s, k) = s
  BY DEF IsStore, Delete, Has

\* What a call of the health service or of PATCH does to a store: it touches
\* one key, if that key exists, and keeps what the key is for.
Assessed(s, t, k) ==
  /\ ~Has(s, k) => t = s
  /\ DOMAIN t = DOMAIN s
  /\ \A j \in DOMAIN s \ {k} : t[j] = s[j]
  /\ Has(s, k) => /\ t[k].provider = s[k].provider
                  /\ t[k].pool = s[k].pool
                  /\ t[k].model = s[k].model

LEMMA ChangeStore ==
  ASSUME NEW s, IsStore(s), NEW k, NEW r,
         Has(s, k) => /\ r \in StoredRecord
                      /\ r.provider = s[k].provider
                      /\ r.pool = s[k].pool
                      /\ r.model = s[k].model
  PROVE  IsStore(Change(s, k, r)) /\ Assessed(s, Change(s, k, r), k)
  BY DEF IsStore, Change, Put, Has, Assessed

LEMMA RecordFailureAssesses ==
  ASSUME NEW s, IsStore(s), NEW k
  PROVE  IsStore(RecordFailure(s, k)) /\ Assessed(s, RecordFailure(s, k), k)
<1> DEFINE r == [s[k] EXCEPT !.failures = @ + 1]
<1>1. Has(s, k) => /\ r \in StoredRecord /\ r.provider = s[k].provider
                   /\ r.pool = s[k].pool /\ r.model = s[k].model
  BY DEF IsStore, Has, StoredRecord
<1> QED
  BY <1>1, ChangeStore DEF RecordFailure

LEMMA ResetFailuresAssesses ==
  ASSUME NEW s, IsStore(s), NEW k
  PROVE  IsStore(ResetFailures(s, k)) /\ Assessed(s, ResetFailures(s, k), k)
<1> DEFINE r == [s[k] EXCEPT !.status   = IF @ = "degraded" THEN "healthy" ELSE @,
                             !.failures = 0,
                             !.until    = NoDeadline]
<1>1. Has(s, k) => /\ r \in StoredRecord /\ r.provider = s[k].provider
                   /\ r.pool = s[k].pool /\ r.model = s[k].model
  BY DEF IsStore, Has, StoredRecord, Status
<1> QED
  BY <1>1, ChangeStore DEF ResetFailures

LEMMA StartCoolingDownAssesses ==
  ASSUME NEW s, IsStore(s), NEW k, NEW until \in Nat
  PROVE  /\ IsStore(StartCoolingDown(s, k, until))
         /\ Assessed(s, StartCoolingDown(s, k, until), k)
<1> DEFINE r == [s[k] EXCEPT !.status = "cooling_down", !.until = until]
<1>1. Has(s, k) => /\ r \in StoredRecord /\ r.provider = s[k].provider
                   /\ r.pool = s[k].pool /\ r.model = s[k].model
  BY DEF IsStore, Has, StoredRecord, Status
<1> QED
  BY <1>1, ChangeStore DEF StartCoolingDown

LEMMA UpdateStatusAssesses ==
  ASSUME NEW s, IsStore(s), NEW k, NEW status \in Status
  PROVE  /\ IsStore(UpdateStatus(s, k, status))
         /\ Assessed(s, UpdateStatus(s, k, status), k)
<1> DEFINE r == [s[k] EXCEPT !.status = status,
                             !.until  = IF status = "cooling_down" THEN @
                                                                   ELSE NoDeadline]
<1>1. Has(s, k) => /\ r \in StoredRecord /\ r.provider = s[k].provider
                   /\ r.pool = s[k].pool /\ r.model = s[k].model
  BY DEF IsStore, Has, StoredRecord
<1> QED
  BY <1>1, ChangeStore DEF UpdateStatus

-----------------------------------------------------------------------------
(* The types.                                                               *)

LEMMA EmptyIsStore == IsStore(EmptyStore)
  BY DEF IsStore, EmptyStore

LEMMA InitTyped == Init => TypeOK
<1> SUFFICES ASSUME Init PROVE TypeOK
  OBVIOUS
<1> USE LifecycleAssumption DEF Init
<1>1. IsStore(store)
  BY EmptyIsStore
<1>2. DOMAIN consoles = Consoles /\ \A c \in Consoles : IsRequest(consoles[c])
  BY DEF Idle, IsRequest
<1>3. dropped \in [Keys -> Nat]
  OBVIOUS
<1>4. ops \in 0 .. MaxOps /\ crashes \in 0 .. MaxCrashes /\ failures \in 0 .. MaxFailures
  OBVIOUS
<1>5. overlap \in BOOLEAN
  OBVIOUS
<1> QED
  BY <1>1, <1>2, <1>3, <1>4, <1>5, Zenon DEF TypeOK

\* What the actions leave of TypeOK when they touch only the server or only
\* the requests.
LEMMA ServerFrame ==
  ASSUME TypeOK, UNCHANGED <<consoles, judging, history, bounds>>,
         storage' = storage, mode' \in {"down", "seeding", "up"}, IsStore(store)'
  PROVE  TypeOK'
  BY DEF TypeOK, history, bounds, IsRequest

LEMMA ConsoleFrame ==
  ASSUME TypeOK, UNCHANGED <<storage, mode, judging, lost, dropped, bounds>>,
         overlap' \in BOOLEAN, IsStore(store)',
         NEW c \in Consoles, NEW r, IsRequest(r),
         consoles' = [consoles EXCEPT ![c] = r]
  PROVE  TypeOK'
<1>1. DOMAIN consoles' = Consoles
  BY DEF TypeOK
<1>2. \A d \in Consoles : IsRequest(consoles'[d])
  BY DEF TypeOK, IsRequest
<1> QED
  BY <1>1, <1>2 DEF TypeOK, bounds, IsRequest

LEMMA BeginTyped ==
  ASSUME TypeOK, NEW c \in Consoles, NEW r, IsRequest(r), Begin(c, r)
  PROVE  TypeOK'
<1> USE DEF Begin
<1>1. DOMAIN consoles' = Consoles
  BY DEF TypeOK
<1>2. \A d \in Consoles : IsRequest(consoles'[d])
  BY DEF TypeOK, IsRequest
<1>3. ops' \in 0 .. MaxOps
  BY LifecycleAssumption DEF TypeOK
<1>4. IsStore(store)'
  BY DEF TypeOK, IsStore, server
<1> QED
  BY <1>1, <1>2, <1>3, <1>4 DEF TypeOK, server, IsRequest

LEMMA JudgingIsFinite ==
  \A k : IsFiniteSet(Judging(k)) /\ Cardinality(Judging(k)) \in Nat
  BY LifecycleAssumption, FS_Subset, FS_CardinalityType DEF Judging

LEMMA NextTyped == TypeOK /\ [Next]_vars => TypeOK'
<1> SUFFICES ASSUME TypeOK, [Next]_vars PROVE TypeOK'
  OBVIOUS
<1> USE LifecycleAssumption
<1>0. IsStore(store) /\ UNCHANGED store => IsStore(store)'
  BY DEF IsStore
<1>1. CASE UNCHANGED vars
  BY <1>1, <1>0 DEF TypeOK, vars, server, history, bounds, IsRequest
<1>2. CASE Boot
  <2>1. IsStore(store)'
    <3>1. IsStore(MemoryRecords)
      BY FileRecords DEF IsStore, MemoryRecords, SeededKeys
    <3> QED
      BY <1>2, <3>1 DEF Boot, TypeOK, IsStore
  <2> QED
    BY <1>2, <2>1, ServerFrame DEF Boot
<1>3. CASE Open
  BY <1>3, <1>0, ServerFrame DEF Open, TypeOK
<1>4. CASE Crash
  <2>1. IsStore(store)'
    <3>1. CASE storage = "memory"
      BY <1>4, <3>1, EmptyIsStore DEF Crash, IsStore
    <3>2. CASE storage # "memory"
      BY <1>4, <3>2, <1>0 DEF Crash, TypeOK
    <3> QED
      BY <3>1, <3>2
  <2>2. DOMAIN consoles' = Consoles /\ \A c \in Consoles : IsRequest(consoles'[c])
    BY <1>4 DEF Crash, IsRequest, Idle
  <2>3. dropped' \in [Keys -> Nat]
    <3>1. \/ dropped' = [k \in Keys |-> 0]
          \/ dropped' = [k \in Keys |-> dropped[k] + Cardinality(Judging(k))]
      BY <1>4 DEF Crash
    <3>2. dropped \in [Keys -> Nat] /\ \A k : Cardinality(Judging(k)) \in Nat
      BY JudgingIsFinite DEF TypeOK
    <3> QED
      BY <3>1, <3>2
  <2>4. crashes' \in 0 .. MaxCrashes
    BY <1>4 DEF Crash, TypeOK
  <2>5. judging' \in [Requests -> {NoVerdict} \cup [key : Keys, cool : BOOLEAN]]
    BY <1>4 DEF Crash
  <2> QED
    BY <1>4, <2>1, <2>2, <2>3, <2>4, <2>5 DEF Crash, TypeOK, IsRequest
<1>5. ASSUME NEW r \in Requests, Judge(r) PROVE TypeOK'
  <2>1. judging[r] \in [key : Keys, cool : BOOLEAN]
    BY <1>5 DEF Judge, TypeOK
  <2>2. IsStore(store)'
    BY <1>5, <2>1, StartCoolingDownAssesses, UpdateStatusAssesses
       DEF Judge, TypeOK, Status, IsStore
  <2>3. judging' \in [Requests -> {NoVerdict} \cup [key : Keys, cool : BOOLEAN]]
    BY <1>5 DEF Judge, TypeOK
  <2> QED
    BY <1>5, <2>2, <2>3, <1>0 DEF Judge, TypeOK, IsRequest, history, bounds
<1>6. ASSUME NEW k \in Keys, SeedOne(k) PROVE TypeOK'
  <2>1. IsStore(store)'
    BY <1>6, FileRecords, PutStore DEF SeedOne, TypeOK, IsStore
  <2> QED
    BY <1>6, <2>1, ServerFrame DEF SeedOne, TypeOK
<1>7. ASSUME NEW r \in Requests, NEW k \in Keys, CountFailure(r, k) PROVE TypeOK'
  <2>1. IsStore(store)'
    BY <1>7, RecordFailureAssesses DEF CountFailure, TypeOK, IsStore
  <2>2. judging' \in [Requests -> {NoVerdict} \cup [key : Keys, cool : BOOLEAN]]
    <3>1. judging \in [Requests -> {NoVerdict} \cup [key : Keys, cool : BOOLEAN]]
      BY DEF TypeOK
    <3> DEFINE cool == store[k].failures + 1 >= Threshold
               v    == [key |-> k, cool |-> cool]
    <3>2. v \in [key : Keys, cool : BOOLEAN]
      OBVIOUS
    <3>3. judging' = judging \/ judging' = [judging EXCEPT ![r] = v]
      BY <1>7 DEF CountFailure
    <3> HIDE DEF v
    <3> QED
      BY <3>1, <3>2, <3>3
  <2>3. failures' \in 0 .. MaxFailures
    BY <1>7 DEF CountFailure, TypeOK
  <2> QED
    BY <1>7, <2>1, <2>2, <2>3 DEF CountFailure, TypeOK, IsRequest, history
<1>8. ASSUME NEW k \in Keys, Succeed(k) PROVE TypeOK'
  <2>1. IsStore(store)'
    BY <1>8, ResetFailuresAssesses DEF Succeed, TypeOK, IsStore
  <2>2. dropped' \in [Keys -> Nat]
    BY <1>8 DEF Succeed, TypeOK
  <2> QED
    BY <1>8, <2>1, <2>2 DEF Succeed, TypeOK, IsRequest, bounds
<1>9. ASSUME NEW c \in Consoles, Handler(c) PROVE TypeOK'
  <2>0. IsRequest(consoles[c])
    BY DEF TypeOK
  <2>1. CASE Upsert(c)
    <3>1. consoles[c].id \in Keys /\ consoles[c].record \in StoredRecord
      BY <2>0, <2>1, UploadsAreRecords DEF Upsert, IsRequest
    <3>2. IsStore(store)'
      <4>1. store' = Put(store, consoles[c].id, consoles[c].record)
        BY <2>1 DEF Upsert
      <4>2. IsStore(store)
        BY DEF TypeOK
      <4>3. IsStore(Put(store, consoles[c].id, consoles[c].record))
        BY <3>1, <4>2, PutStore
      <4> QED BY <4>1, <4>3 DEF IsStore
    <3>3. IsRequest([at |-> "list", event |-> consoles[c].event])
      BY DEF IsRequest
    <3> QED
      BY <2>1, <3>2, <3>3, ConsoleFrame DEF Upsert, TypeOK
  <2>2. CASE List(c)
    <3>1. IsRequest([at |-> "restore", event |-> consoles[c].event, keys |-> store])
      BY DEF IsRequest
    <3> QED
      BY <2>2, <3>1, <1>0, ConsoleFrame DEF List, TypeOK, server, history
  <2>3. CASE GoThroughList(c)
    <3>1. IsRequest([at |-> "audit", event |-> consoles[c].event])
      BY DEF IsRequest
    <3> QED
      BY <2>3, <3>1, <1>0, ConsoleFrame DEF GoThroughList, TypeOK, history
  <2>4. CASE UpdateKeyStatus(c)
    <3>1. consoles[c].id \in Keys /\ consoles[c].status \in Status
      BY <2>0, <2>4 DEF UpdateKeyStatus, IsRequest
    <3>2. IsStore(store)'
      BY <2>4, <3>1, UpdateStatusAssesses DEF UpdateKeyStatus, TypeOK, IsStore
    <3> DEFINE r == [at |-> IF Has(store, consoles[c].id) THEN "health_event"
                                                          ELSE "audit",
                     event |-> Event("key_status_changed", consoles[c].id,
                                     IF Has(store, consoles[c].id)
                                     THEN "success" ELSE "error")]
    <3>3. IsRequest(r)
      BY DEF IsRequest
    <3>4. consoles' = [consoles EXCEPT ![c] = r]
      BY <2>4 DEF UpdateKeyStatus
    <3> HIDE DEF r
    <3> QED
      BY <2>4, <3>2, <3>3, <3>4, ConsoleFrame DEF UpdateKeyStatus, TypeOK
  <2>5. CASE DeleteKey(c)
    <3>1. IsStore(store)'
      BY <2>5, DeleteStore DEF DeleteKey, TypeOK, IsStore
    <3> DEFINE r == [at |-> "audit",
                     event |-> Event("key_deleted", consoles[c].id,
                                     IF Has(store, consoles[c].id)
                                     THEN "success" ELSE "error")]
    <3>2. IsRequest(r)
      BY DEF IsRequest
    <3>3. consoles' = [consoles EXCEPT ![c] = r]
      BY <2>5 DEF DeleteKey
    <3> HIDE DEF r
    <3> QED
      BY <2>5, <3>1, <3>2, <3>3, ConsoleFrame DEF DeleteKey, TypeOK
  <2>6. CASE RecordHealthEvent(c)
    <3> DEFINE r == [consoles[c] EXCEPT !.at = "audit"]
    <3>1. consoles' = [consoles EXCEPT ![c] = r]
      BY <2>6 DEF RecordHealthEvent
    <3>2. IsRequest(r)
      BY <2>0 DEF IsRequest
    <3> HIDE DEF r
    <3> QED
      BY <2>6, <3>1, <3>2, <1>0, ConsoleFrame
         DEF RecordHealthEvent, TypeOK, server, history
  <2>7. CASE RecordAudit(c)
    <3>1. IsRequest(Idle)
      BY DEF IsRequest, Idle
    <3> QED
      BY <2>7, <3>1, <1>0, ConsoleFrame DEF RecordAudit, TypeOK, history
  <2>8. CASE RecorderThrows(c)
    <3>1. DOMAIN consoles' = Consoles /\ \A d \in Consoles : IsRequest(consoles'[d])
      BY <2>8 DEF RecorderThrows, TypeOK, IsRequest, Idle
    <3> QED
      BY <2>8, <3>1, <1>0 DEF RecorderThrows, TypeOK, server, bounds
  <2> QED
    BY <1>9, <2>1, <2>2, <2>3, <2>4, <2>5, <2>6, <2>7, <2>8 DEF Handler
<1>10. ASSUME NEW c \in Consoles, NEW b \in Bodies, Post(c, b) PROVE TypeOK'
  <2> DEFINE r == [at |-> "upsert", id |-> b.id, record |-> KeyRecord(Resolve(b)),
                   event |-> Event(Written(b.id), b.id, "success")]
  <2>1. IsRequest(r)
    BY <1>10 DEF Post, IsRequest, Uploads
  <2>2. Begin(c, r)
    BY <1>10 DEF Post
  <2> QED
    BY <2>1, <2>2, BeginTyped
<1>11. ASSUME NEW c \in Consoles, NEW k \in Keys, Drop(c, k) PROVE TypeOK'
  <2>1. IsRequest([at |-> "delete", id |-> k])
    BY DEF IsRequest
  <2> QED
    BY <1>11, <2>1, BeginTyped DEF Drop
<1>12. ASSUME NEW c \in Consoles, NEW k \in Keys, NEW s \in Statuses,
              Patch(c, k, s)
       PROVE  TypeOK'
  <2>1. IsRequest([at |-> "update", id |-> k, status |-> s])
    BY DEF IsRequest
  <2> QED
    BY <1>12, <2>1, BeginTyped DEF Patch
<1> QED
  BY <1>1, <1>2, <1>3, <1>4, <1>5, <1>6, <1>7, <1>8, <1>9, <1>10, <1>11, <1>12
     DEF Next

(* Every variable of Lifecycle keeps its type, whatever the config file,    *)
(* the bodies and the number of consoles and crashes: a key is never stored *)
(* in part (repositories, admin.routes.ts, key-health.service.ts).          *)
THEOREM TypeCorrect == Spec => []TypeOK
  BY InitTyped, NextTyped, PTL DEF Spec

-----------------------------------------------------------------------------
(* The registry survives.                                                   *)

Reg == IF storage = "sqlite" THEN store ELSE EmptyStore

LEMMA InitRefined == Init => Durable!Init
  BY DEF Init, Durable!Init, EmptyStore, Durable!EmptyStore, FreshRecord,
         Durable!FreshRecord, NoDeadline, Durable!NoDeadline

\* A step that leaves the store alone, or concerns a gateway without one.
LEMMA Stutter ==
  ASSUME storage' = storage, storage = "sqlite" => store' = store
  PROVE  UNCHANGED Reg
  BY DEF Reg

LEMMA AssessRefined ==
  ASSUME storage' = storage, IsStore(store), NEW k \in Keys,
         Assessed(store, store', k)
  PROVE  [Durable!Next]_Reg
<1>1. CASE storage # "sqlite" \/ ~Has(store, k)
  BY <1>1, Stutter DEF Assessed
<1>2. CASE storage = "sqlite" /\ Has(store, k)
  <2>1. Durable!Assess(k)
    BY <1>2 DEF Durable!Assess, Durable!Purpose, Assessed, Has
  <2> QED
    BY <2>1 DEF Durable!Next
<1> QED
  BY <1>1, <1>2

LEMMA NextRefined == TypeOK /\ [Next]_vars => [Durable!Next]_Reg
<1> SUFFICES ASSUME TypeOK, [Next]_vars PROVE [Durable!Next]_Reg
  OBVIOUS
<1>A. Statuses \subseteq Status /\ CoolingDown \in Nat
  BY LifecycleAssumption
<1>0. IsStore(store)
  BY DEF TypeOK
<1>1. CASE UNCHANGED vars
  BY <1>1, Stutter DEF vars, server
<1>2. CASE Boot
  <2>1. storage = "sqlite" => store' = store
    BY <1>2 DEF Boot
  <2> QED
    BY <1>2, <2>1, Stutter DEF Boot
<1>3. CASE Open \/ Crash
  <2>1. storage' = storage /\ (storage = "sqlite" => store' = store)
    BY <1>3 DEF Open, Crash
  <2> QED
    BY <2>1, Stutter
<1>4. ASSUME NEW r \in Requests, Judge(r) PROVE [Durable!Next]_Reg
  <2>1. judging[r].key \in Keys
    BY <1>4 DEF Judge, TypeOK
  <2>2. Assessed(store, store', judging[r].key)
    BY <1>0, <1>4, <1>A, StartCoolingDownAssesses, UpdateStatusAssesses DEF Judge, Status
  <2> QED
    BY <1>0, <1>4, <2>1, <2>2, AssessRefined DEF Judge
<1>5. ASSUME NEW k \in Keys, SeedOne(k) PROVE [Durable!Next]_Reg
  <2>1. /\ DOMAIN store' = DOMAIN store \cup {k}
        /\ \A j \in DOMAIN store \ {k} : store'[j] = store[j]
    <3>1. SeedRecord(k) \in StoredRecord
      BY <1>5, FileRecords DEF SeedOne
    <3> DEFINE t == Put(store, k, SeedRecord(k))
    <3>2. /\ DOMAIN t = DOMAIN store \cup {k}
          /\ \A j \in DOMAIN store \ {k} : t[j] = store[j]
      BY <1>0, <3>1, PutStore, ZenonT(30)
    <3>3. store' = t
      BY <1>5 DEF SeedOne
    <3> HIDE DEF t
    <3> QED
      BY <3>2, <3>3
  <2>2. k \in FileKeys \ DOMAIN store
    BY <1>5 DEF SeedOne, SeededKeys, Has
  <2>3. Durable!Seed(k)
    BY <1>5, <2>1, <2>2 DEF SeedOne, Durable!Seed
  <2> QED
    BY <2>3 DEF Durable!Next
<1>6. ASSUME NEW k \in Keys, Succeed(k) \/ \E r \in Requests : CountFailure(r, k)
      PROVE  [Durable!Next]_Reg
  <2>1. Assessed(store, store', k)
    BY <1>0, <1>6, RecordFailureAssesses, ResetFailuresAssesses
       DEF CountFailure, Succeed
  <2> QED
    BY <1>0, <1>6, <2>1, AssessRefined DEF CountFailure, Succeed
<1>7. ASSUME NEW c \in Consoles, Handler(c) PROVE [Durable!Next]_Reg
  <2>1. CASE Upsert(c)
    <3>1. CASE storage # "sqlite"
      BY <2>1, <3>1, Stutter DEF Upsert
    <3>2. CASE storage = "sqlite"
      <4>1. consoles[c].id \in Keys /\ consoles[c].record \in Uploads
        BY <2>1 DEF Upsert, TypeOK, IsRequest
      <4>2. Durable!Upload(consoles[c].id, consoles[c].record)
        BY <2>1, <3>2 DEF Upsert, Durable!Upload, Put, Durable!Put
      <4> QED
        BY <4>1, <4>2 DEF Durable!Next
    <3> QED
      BY <3>1, <3>2
  <2>2. CASE \/ List(c) \/ GoThroughList(c) \/ RecordHealthEvent(c)
             \/ RecordAudit(c) \/ RecorderThrows(c)
    <3>1. storage' = storage /\ store' = store
      BY <2>2 DEF List, GoThroughList, RecordHealthEvent, RecordAudit, RecorderThrows,
                  server
    <3> QED
      BY <3>1, Stutter
  <2>3. CASE UpdateKeyStatus(c)
    <3>1. consoles[c].id \in Keys /\ consoles[c].status \in Status
      BY <2>3, <1>A DEF UpdateKeyStatus, TypeOK, IsRequest
    <3>2. Assessed(store, store', consoles[c].id)
      BY <1>0, <2>3, <3>1, UpdateStatusAssesses DEF UpdateKeyStatus
    <3> QED
      BY <1>0, <2>3, <3>1, <3>2, AssessRefined DEF UpdateKeyStatus
  <2>4. CASE DeleteKey(c)
    <3> DEFINE k == consoles[c].id
    <3>1. k \in Keys
      BY <2>4 DEF DeleteKey, TypeOK, IsRequest
    <3>2. CASE storage # "sqlite" \/ ~Has(store, k)
      BY <1>0, <2>4, <3>2, DeleteStore, Stutter DEF DeleteKey
    <3>3. CASE storage = "sqlite" /\ Has(store, k)
      <4>1. Durable!Remove(k)
        BY <2>4, <3>3 DEF DeleteKey, Durable!Remove, Delete, Durable!Delete, Has
      <4> QED
        BY <3>1, <4>1 DEF Durable!Next
    <3> QED
      BY <3>2, <3>3
  <2> QED
    BY <1>7, <2>1, <2>2, <2>3, <2>4 DEF Handler
<1>8. ASSUME NEW c \in Consoles, NEW r, Begin(c, r) PROVE [Durable!Next]_Reg
  BY <1>8, Stutter DEF Begin, server
<1> QED
  BY <1>1, <1>2, <1>3, <1>4, <1>5, <1>6, <1>7, <1>8 DEF Next, Post, Drop, Patch

(* DurableRegistry for every instance: with a database, whatever consoles,  *)
(* requests, crashes and restarts do in whatever order, a stored key leaves *)
(* the registry only by a DELETE, changes what it is for only by a POST,    *)
(* and start-up only adds keys of the file that are missing                 *)
(* (sqlite-api-key.repository.ts:157).                                      *)
THEOREM RegistrySurvives == Spec => DurableRegistry
<1>1. Spec => Durable!Init /\ [][Durable!Next]_Reg
  <2>1. Init => Durable!Init
    BY InitRefined
  <2>2. TypeOK /\ [Next]_vars => [Durable!Next]_Reg
    BY NextRefined
  <2> QED
    BY <2>1, <2>2, TypeCorrect, PTL DEF Spec
<1> QED
  BY <1>1 DEF DurableRegistry, Durable!Spec, Reg

-----------------------------------------------------------------------------
(* What a crash leaves of a health verdict.                                 *)

LEMMA RecordFailureHealth ==
  ASSUME NEW s, IsStore(s), NEW k, Has(s, k)
  PROVE  /\ RecordFailure(s, k)[k].status = s[k].status
         /\ RecordFailure(s, k)[k].failures = s[k].failures + 1
<1>1. s[k] \in StoredRecord
  BY DEF IsStore, Has
<1>2. RecordFailure(s, k)[k] = [s[k] EXCEPT !.failures = @ + 1]
  BY DEF RecordFailure, Change, Put, Has
<1> QED
  BY <1>1, <1>2 DEF StoredRecord

LEMMA ResetFailuresHealth ==
  ASSUME NEW s, IsStore(s), NEW k, Has(s, k)
  PROVE  ResetFailures(s, k)[k].failures = 0
<1> DEFINE r == [s[k] EXCEPT !.status   = IF @ = "degraded" THEN "healthy" ELSE @,
                             !.failures = 0,
                             !.until    = NoDeadline]
<1>1. r.failures = 0
  BY DEF IsStore, Has, StoredRecord
<1> HIDE DEF r
<1>2. ResetFailures(s, k) = Change(s, k, r)
  BY DEF ResetFailures, r
<1> QED
  BY <1>1, <1>2 DEF Change, Put, Has

LEMMA StatusHealth ==
  ASSUME NEW s, IsStore(s), NEW k, Has(s, k), NEW status, NEW until
  PROVE  /\ UpdateStatus(s, k, status)[k].status = status
         /\ StartCoolingDown(s, k, until)[k].status = "cooling_down"
<1> DEFINE r == [s[k] EXCEPT !.status = status,
                             !.until  = IF status = "cooling_down" THEN @
                                                                   ELSE NoDeadline]
           t == [s[k] EXCEPT !.status = "cooling_down", !.until = until]
<1>1. r.status = status /\ t.status = "cooling_down"
  BY DEF IsStore, Has, StoredRecord
<1> HIDE DEF r, t
<1>2. UpdateStatus(s, k, status) = Change(s, k, r)
  BY DEF UpdateStatus, r
<1>3. StartCoolingDown(s, k, until) = Change(s, k, t)
  BY DEF StartCoolingDown, t
<1> QED
  BY <1>1, <1>2, <1>3 DEF Change, Put, Has

\* The failures a healthy key may have on record.
Allowed(d, v, k) == d[k] + Cardinality({r \in Requests : v[r].key = k})

\* What the steps of requests do to the verdicts under way.
LEMMA VerdictTaken ==
  ASSUME NEW v, DOMAIN v = Requests, NEW r \in Requests, NEW k, v[r].key # k,
         NEW x, x.key = k
  PROVE  Cardinality({q \in Requests : [v EXCEPT ![r] = x][q].key = k})
           = Cardinality({q \in Requests : v[q].key = k}) + 1
  <1> DEFINE A == {q \in Requests : v[q].key = k}
             B == {q \in Requests : [v EXCEPT ![r] = x][q].key = k}
  <1>1. B = A \cup {r} /\ r \notin A
    OBVIOUS
  <1>2. IsFiniteSet(A)
    BY LifecycleAssumption, FS_Subset
  <1> HIDE DEF A, B
  <1>3. Cardinality(B) = Cardinality(A) + 1
    BY <1>1, <1>2, FS_AddElement
  <1> QED BY <1>3 DEF A, B

LEMMA VerdictElsewhere ==
  ASSUME NEW v, DOMAIN v = Requests, NEW r \in Requests, NEW k, v[r].key # k,
         NEW x, x.key # k
  PROVE  {q \in Requests : [v EXCEPT ![r] = x][q].key = k}
           = {q \in Requests : v[q].key = k}
  OBVIOUS

LEMMA HealthyInit == Init => HealthyFailuresBounded
  BY DEF Init, HealthyFailuresBounded, EmptyStore

LEMMA HealthyNext ==
  ASSUME "healthy" \notin Statuses, TypeOK, HealthyFailuresBounded, [Next]_vars
  PROVE  HealthyFailuresBounded'
<1>0. /\ IsStore(store) /\ dropped \in [Keys -> Nat] /\ CoolingDown \in Nat
      /\ DOMAIN judging = Requests
  BY LifecycleAssumption DEF TypeOK
<1>A. \A k \in DOMAIN store : /\ k \in Keys
                              /\ store[k].failures \in Nat
                              /\ store[k].status = "healthy" =>
                                   store[k].failures <= Allowed(dropped, judging, k)
  BY <1>0 DEF HealthyFailuresBounded, Allowed, Judging, IsStore, StoredRecord
<1>B. TypeOK'
  BY NextTyped
<1>C. /\ dropped' \in [Keys -> Nat]
      /\ IsStore(store')
  BY <1>B DEF TypeOK, IsStore
<1> SUFFICES ASSUME NEW k \in DOMAIN store', store'[k].status = "healthy"
             PROVE  store'[k].failures <= Allowed(dropped', judging', k)
  BY DEF HealthyFailuresBounded, Allowed, Judging
<1> DEFINE under  == Cardinality({r \in Requests : judging[r].key = k})
           under1 == Cardinality({r \in Requests : judging'[r].key = k})
<1>K. /\ Allowed(dropped, judging, k) = dropped[k] + under
      /\ Allowed(dropped', judging', k) = dropped'[k] + under1
  BY DEF Allowed
<1>D. /\ k \in Keys /\ dropped[k] \in Nat /\ dropped'[k] \in Nat
      /\ store'[k].failures \in Nat /\ under \in Nat /\ under1 \in Nat
  <2>1. under \in Nat /\ under1 \in Nat
    BY LifecycleAssumption, FS_Subset, FS_CardinalityType
  <2> QED
    BY <1>0, <1>C, <2>1 DEF IsStore, StoredRecord
<1> HIDE DEF under, under1
<1>E. store'[k].failures = 0 => store'[k].failures <= Allowed(dropped', judging', k)
  BY <1>D, <1>K
<1>F. ASSUME k \in DOMAIN store, store'[k] = store[k],
             Allowed(dropped', judging', k) >= Allowed(dropped, judging, k)
      PROVE  store'[k].failures <= Allowed(dropped', judging', k)
  BY <1>A, <1>D, <1>F, <1>K
<1>G. ASSUME dropped' = dropped, judging' = judging
      PROVE  Allowed(dropped', judging', k) >= Allowed(dropped, judging, k)
  BY <1>D, <1>G, <1>K DEF under, under1
<1>H. ASSUME store' = store, dropped' = dropped, judging' = judging
      PROVE  store'[k].failures <= Allowed(dropped', judging', k)
  BY <1>F, <1>G, <1>H
<1>1. CASE UNCHANGED vars \/ Open
  BY <1>1, <1>H DEF vars, server, history, Open
<1>2. CASE Boot
  <2>1. CASE storage = "memory"
    <3>1. store' = MemoryRecords
      BY <1>2, <2>1 DEF Boot
    <3>2. store'[k].failures = 0
      BY <3>1 DEF MemoryRecords, FileRecord, KeyRecord
    <3> QED
      BY <1>E, <3>2
  <2>2. CASE storage # "memory"
    BY <1>2, <2>2, <1>H DEF Boot, history
  <2> QED
    BY <2>1, <2>2
<1>3. CASE Crash
  <2>1. CASE storage = "memory"
    BY <1>3, <2>1 DEF Crash, EmptyStore
  <2>2. CASE storage # "memory"
    <3>1. store' = store /\ dropped' = [i \in Keys |-> dropped[i] + Cardinality(Judging(i))]
      BY <1>3, <2>2 DEF Crash
    <3>2. dropped'[k] = dropped[k] + under
      BY <1>D, <3>1 DEF Judging, under
    <3>3. Allowed(dropped', judging', k) >= Allowed(dropped, judging, k)
      BY <1>D, <1>K, <3>2
    <3> QED
      BY <1>F, <3>1, <3>3
  <2> QED
    BY <2>1, <2>2
<1>4. ASSUME NEW r \in Requests, Judge(r)
      PROVE  store'[k].failures <= Allowed(dropped', judging', k)
  <2> DEFINE j == judging[r].key
  <2>0. /\ judging' = [judging EXCEPT ![r] = NoVerdict] /\ dropped' = dropped
        /\ \/ store' = StartCoolingDown(store, j, CoolingDown)
           \/ store' = UpdateStatus(store, j, "degraded")
    BY <1>4 DEF Judge, history
  <2>1. Assessed(store, store', j)
    BY <1>0, <2>0, StartCoolingDownAssesses, UpdateStatusAssesses DEF Status
  <2>2. CASE k = j
    <3>1. Has(store, j)
      BY <2>1, <2>2 DEF Assessed, Has
    <3>2. store'[j].status \in {"cooling_down", "degraded"}
      BY <1>0, <2>0, <3>1, StatusHealth
    <3> QED
      BY <2>2, <3>2
  <2>3. CASE k # j
    <3>1. k \in DOMAIN store /\ store'[k] = store[k]
      BY <2>1, <2>3 DEF Assessed
    <3>2. NoVerdict.key # k
      BY <1>D, LifecycleAssumption DEF NoVerdict
    <3>3. under1 = under
      BY <1>0, <2>0, <2>3, <3>2, VerdictElsewhere DEF under, under1
    <3>4. Allowed(dropped', judging', k) >= Allowed(dropped, judging, k)
      BY <1>D, <1>K, <2>0, <3>3
    <3> QED
      BY <1>F, <3>1, <3>4
  <2> QED
    BY <2>2, <2>3
<1>5. ASSUME NEW i \in Keys, SeedOne(i)
      PROVE  store'[k].failures <= Allowed(dropped', judging', k)
  <2>0. store' = Put(store, i, SeedRecord(i)) /\ dropped' = dropped /\ judging' = judging
    BY <1>5 DEF SeedOne, history
  <2>1. CASE k = i
    <3>1. store'[k].failures = 0
      BY <2>0, <2>1 DEF Put, SeedRecord, FileRecord, KeyRecord
    <3> QED
      BY <1>E, <3>1
  <2>2. CASE k # i
    <3>1. k \in DOMAIN store /\ store'[k] = store[k]
      BY <2>0, <2>2 DEF Put
    <3> QED
      BY <1>F, <1>G, <2>0, <3>1
  <2> QED
    BY <2>1, <2>2
<1>6. ASSUME NEW r \in Requests, NEW i \in Keys, CountFailure(r, i)
      PROVE  store'[k].failures <= Allowed(dropped', judging', k)
  <2> DEFINE cool == store[i].failures + 1 >= Threshold
             v    == [key |-> i, cool |-> cool]
  <2>0. /\ Has(store, i) /\ judging[r] = NoVerdict /\ dropped' = dropped
        /\ store' = RecordFailure(store, i)
        /\ judging' = IF cool \/ store[i].status # "degraded"
                      THEN [judging EXCEPT ![r] = v] ELSE judging
    BY <1>6 DEF CountFailure, history
  <2>1. judging[r].key # k /\ v.key = i
    BY <1>D, <2>0, LifecycleAssumption DEF NoVerdict
  <2> HIDE DEF v
  <2>2. k \in DOMAIN store /\ (k # i => store'[k] = store[k])
    BY <1>0, <2>0, RecordFailureAssesses DEF Assessed
  <2>3. CASE k = i
    <3>1. store[i].status = "healthy" /\ store'[i].failures = store[i].failures + 1
      BY <1>0, <2>0, <2>3, RecordFailureHealth
    <3>2. judging' = [judging EXCEPT ![r] = v]
      BY <2>0, <3>1
    <3>3. under1 = under + 1
      BY <1>0, <2>1, <2>3, <3>2, VerdictTaken DEF under, under1
    <3>4. store[i].failures <= dropped[k] + under /\ store[i].failures \in Nat
      BY <1>A, <1>K, <2>2, <2>3, <3>1
    <3> QED
      BY <1>D, <1>K, <2>0, <2>3, <3>1, <3>3, <3>4
  <2>4. CASE k # i
    <3>1. under1 = under
      <4>1. CASE judging' = judging
        BY <4>1 DEF under, under1
      <4>2. CASE judging' = [judging EXCEPT ![r] = v]
        BY <1>0, <2>1, <2>4, <4>2, VerdictElsewhere DEF under, under1
      <4> QED
        BY <2>0, <4>1, <4>2
    <3>2. Allowed(dropped', judging', k) >= Allowed(dropped, judging, k)
      BY <1>D, <1>K, <2>0, <3>1
    <3> QED
      BY <1>F, <2>2, <2>4, <3>2
  <2> QED
    BY <2>3, <2>4
<1>7. ASSUME NEW i \in Keys, Succeed(i)
      PROVE  store'[k].failures <= Allowed(dropped', judging', k)
  <2>0. /\ Has(store, i) /\ store' = ResetFailures(store, i) /\ judging' = judging
        /\ dropped' = [dropped EXCEPT ![i] = 0]
    BY <1>7 DEF Succeed
  <2>1. CASE k = i
    BY <1>0, <1>E, <2>0, <2>1, ResetFailuresHealth
  <2>2. CASE k # i
    <3>1. k \in DOMAIN store /\ store'[k] = store[k]
      BY <1>0, <2>0, <2>2, ResetFailuresAssesses DEF Assessed
    <3>2. dropped'[k] = dropped[k]
      BY <1>0, <1>D, <2>0, <2>2
    <3>3. Allowed(dropped', judging', k) >= Allowed(dropped, judging, k)
      BY <1>D, <1>K, <2>0, <3>2 DEF under, under1
    <3> QED
      BY <1>F, <3>1, <3>3
  <2> QED
    BY <2>1, <2>2
<1>8. ASSUME NEW c \in Consoles, Handler(c)
      PROVE  store'[k].failures <= Allowed(dropped', judging', k)
  <2>0. IsRequest(consoles[c]) /\ dropped' = dropped /\ judging' = judging
    BY <1>8 DEF Handler, Upsert, List, GoThroughList, UpdateKeyStatus, DeleteKey,
                RecordHealthEvent, RecordAudit, RecorderThrows, TypeOK, history, server
  <2>1. CASE Upsert(c)
    <3>1. /\ consoles[c].record \in Uploads
          /\ store' = Put(store, consoles[c].id, consoles[c].record)
      BY <2>0, <2>1 DEF Upsert, IsRequest
    <3>2. consoles[c].record.failures = 0
      BY <3>1 DEF Uploads, KeyRecord
    <3>3. CASE k = consoles[c].id
      BY <1>E, <3>1, <3>2, <3>3 DEF Put
    <3>4. CASE k # consoles[c].id
      <4>1. k \in DOMAIN store /\ store'[k] = store[k]
        BY <3>1, <3>4 DEF Put
      <4> QED
        BY <1>F, <1>G, <2>0, <4>1
    <3> QED
      BY <3>3, <3>4
  <2>2. CASE \/ List(c) \/ GoThroughList(c) \/ RecordHealthEvent(c)
             \/ RecordAudit(c) \/ RecorderThrows(c)
    <3>1. store' = store
      BY <2>2 DEF List, GoThroughList, RecordHealthEvent, RecordAudit, RecorderThrows,
                  server
    <3> QED
      BY <1>H, <2>0, <3>1
  <2>3. CASE UpdateKeyStatus(c)
    <3> DEFINE i == consoles[c].id
    <3>1. /\ consoles[c].status \in Statuses
          /\ store' = UpdateStatus(store, i, consoles[c].status)
      BY <2>0, <2>3 DEF UpdateKeyStatus, IsRequest
    <3>2. consoles[c].status \in Status \ {"healthy"}
      BY <3>1, LifecycleAssumption
    <3>3. Assessed(store, store', i)
      BY <1>0, <3>1, <3>2, UpdateStatusAssesses
    <3>4. CASE k = i
      <4>1. Has(store, i)
        BY <3>3, <3>4 DEF Assessed, Has
      <4>2. store'[i].status = consoles[c].status
        BY <1>0, <3>1, <4>1, StatusHealth
      <4> QED
        BY <3>2, <3>4, <4>2
    <3>5. CASE k # i
      <4>1. k \in DOMAIN store /\ store'[k] = store[k]
        BY <3>3, <3>5 DEF Assessed
      <4> QED
        BY <1>F, <1>G, <2>0, <4>1
    <3> QED
      BY <3>4, <3>5
  <2>4. CASE DeleteKey(c)
    <3>1. k \in DOMAIN store /\ store'[k] = store[k]
      BY <2>4 DEF DeleteKey, Delete
    <3> QED
      BY <1>F, <1>G, <2>0, <3>1
  <2> QED
    BY <1>8, <2>1, <2>2, <2>3, <2>4 DEF Handler
<1>9. ASSUME NEW c \in Consoles, NEW r, Begin(c, r)
      PROVE  store'[k].failures <= Allowed(dropped', judging', k)
  BY <1>9, <1>H DEF Begin, server
<1> QED
  BY <1>1, <1>2, <1>3, <1>4, <1>5, <1>6, <1>7, <1>8, <1>9 DEF Next, Post, Drop, Patch

(* HealthyFailuresBounded for every instance in which the console does not  *)
(* set healthy by hand: over any number of crashes and restarts, on either  *)
(* storage, and with any number of requests between count and verdict, a    *)
(* healthy key has no more failures on record than verdicts a crash cut off *)
(* and verdicts on their way (key-health.service.ts:46).                    *)
THEOREM CrashesLoseVerdictsOnly ==
  ASSUME "healthy" \notin Statuses
  PROVE  Spec => []HealthyFailuresBounded
<1>1. TypeOK /\ HealthyFailuresBounded /\ [Next]_vars => HealthyFailuresBounded'
  BY HealthyNext
<1> QED
  BY <1>1, HealthyInit, InitTyped, NextTyped, PTL DEF Spec

-----------------------------------------------------------------------------
(* The two key repositories agree: a statement on the table that stands     *)
(* for a store leaves the table that stands for the next store.  Rows first.*)

\* The row of a key: what it is for, its health, the deadline column.
Columns(k, provider, pool, model, status, failed, until) ==
  [id |-> k, provider |-> provider, pool |-> pool, metadata_json |-> model,
   status |-> status, failure_count |-> failed, cooling_down_until |-> until]

Deadline(until) == IF until = NoDeadline THEN Missing ELSE until

LEMMA RowColumns ==
  ASSUME NEW k, NEW r
  PROVE  Sql!Row(k, r) = Columns(k, r.provider, r.pool, r.model, r.status,
                                 r.failures, Deadline(r.until))
  BY DEF Sql!Row, Columns, Deadline, Sql!NoDeadline, NoDeadline

\* What the SET clauses of the statements do to a row.
SetStatus(row, status, until) ==
  [row EXCEPT !.status = status, !.cooling_down_until = until]

SetHealth(row, failed, status, until) ==
  [row EXCEPT !.failure_count = failed, !.status = status,
              !.cooling_down_until = until]

LEMMA SetStatusColumns ==
  ASSUME NEW k, NEW p, NEW q, NEW m, NEW s, NEW f, NEW u, NEW t, NEW v
  PROVE  SetStatus(Columns(k, p, q, m, s, f, u), t, v) = Columns(k, p, q, m, t, f, v)
<1> DEFINE R == Columns(k, p, q, m, s, f, u)
           S == Columns(k, p, q, m, t, f, u)
<1>1. [R EXCEPT !.status = t] = S
  BY DEF Columns
<1>2. [S EXCEPT !.cooling_down_until = v] = Columns(k, p, q, m, t, f, v)
  BY DEF Columns
<1>3. SetStatus(R, t, v) = [[R EXCEPT !.status = t] EXCEPT !.cooling_down_until = v]
  <2> HIDE DEF R
  <2> QED BY DEF SetStatus
<1> QED
  BY <1>1, <1>2, <1>3

LEMMA SetHealthColumns ==
  ASSUME NEW k, NEW p, NEW q, NEW m, NEW s, NEW f, NEW u, NEW g, NEW t, NEW v
  PROVE  SetHealth(Columns(k, p, q, m, s, f, u), g, t, v) = Columns(k, p, q, m, t, g, v)
<1> DEFINE R == Columns(k, p, q, m, s, f, u)
           S == Columns(k, p, q, m, s, g, u)
<1>1. [R EXCEPT !.failure_count = g] = S
  BY DEF Columns
<1>2. SetStatus(S, t, v) = Columns(k, p, q, m, t, g, v)
  BY SetStatusColumns
<1>3. SetHealth(R, g, t, v) = SetStatus([R EXCEPT !.failure_count = g], t, v)
  <2> HIDE DEF R
  <2> QED BY DEF SetStatus, SetHealth
<1> QED
  BY <1>1, <1>2, <1>3

LEMMA ReadBack ==
  ASSUME NEW k, NEW r \in StoredRecord
  PROVE  Sql!Row(k, r).id = k /\ Sql!Record(Sql!Row(k, r)) = r
<1>1. Missing \notin Int
  BY LifecycleAssumption
<1> QED
  BY <1>1 DEF Sql!Row, Sql!Record, Sql!NoDeadline, NoDeadline, StoredRecord

LEMMA RecordFailureRow ==
  ASSUME NEW k, NEW r \in StoredRecord
  PROVE  [Sql!Row(k, r) EXCEPT !.failure_count = @ + 1]
           = Sql!Row(k, [r EXCEPT !.failures = @ + 1])
  BY DEF Sql!Row, StoredRecord

LEMMA ResetFailuresRow ==
  ASSUME NEW k, NEW r \in StoredRecord
  PROVE  [Sql!Row(k, r) EXCEPT
            !.failure_count = 0,
            !.status = IF @ = "degraded" THEN "healthy" ELSE @,
            !.cooling_down_until = Missing]
           = Sql!Row(k, [r EXCEPT
                           !.status = IF @ = "degraded" THEN "healthy" ELSE @,
                           !.failures = 0,
                           !.until = NoDeadline])
<1> DEFINE R == Sql!Row(k, r)
           s == IF r.status = "degraded" THEN "healthy" ELSE r.status
           t == [r EXCEPT !.status = IF @ = "degraded" THEN "healthy" ELSE @,
                          !.failures = 0, !.until = NoDeadline]
<1>1. R.status = r.status
  BY DEF Sql!Row
<1>2. R = Columns(k, r.provider, r.pool, r.model, r.status, r.failures,
                  Deadline(r.until))
  BY RowColumns
<1>3. /\ t.provider = r.provider /\ t.pool = r.pool /\ t.model = r.model
      /\ t.status = s /\ t.failures = 0 /\ t.until = NoDeadline
  BY DEF StoredRecord
<1>4. Sql!Row(k, t) = Columns(k, t.provider, t.pool, t.model, t.status,
                              t.failures, Deadline(t.until))
  <2> HIDE DEF t
  <2> QED BY RowColumns
<1>5. SetHealth(R, 0, s, Missing)
        = [R EXCEPT !.failure_count = 0,
                    !.status = IF @ = "degraded" THEN "healthy" ELSE @,
                    !.cooling_down_until = Missing]
  <2> HIDE DEF R
  <2> QED BY <1>1 DEF SetHealth
<1> HIDE DEF R, s, t
<1>6. SetHealth(R, 0, s, Missing) = Columns(k, r.provider, r.pool, r.model, s, 0, Missing)
  BY <1>2, SetHealthColumns
<1>7. Sql!Row(k, t) = Columns(k, r.provider, r.pool, r.model, s, 0, Missing)
  BY <1>3, <1>4 DEF Deadline
<1> QED
  BY <1>5, <1>6, <1>7 DEF R, t

LEMMA SetStatusRow ==
  ASSUME NEW k, NEW r \in StoredRecord, NEW t \in StoredRecord, NEW s, NEW v,
         t.provider = r.provider, t.pool = r.pool, t.model = r.model,
         t.failures = r.failures, t.status = s, Deadline(t.until) = v
  PROVE  SetStatus(Sql!Row(k, r), s, v) = Sql!Row(k, t)
<1>1. SetStatus(Sql!Row(k, r), s, v)
        = Columns(k, r.provider, r.pool, r.model, s, r.failures, v)
  BY RowColumns, SetStatusColumns
<1>2. Sql!Row(k, t) = Columns(k, r.provider, r.pool, r.model, s, r.failures, v)
  BY RowColumns
<1> QED
  BY <1>1, <1>2

LEMMA StartCoolingDownRow ==
  ASSUME NEW k, NEW r \in StoredRecord, NEW until \in Nat
  PROVE  SetStatus(Sql!Row(k, r), "cooling_down", until)
           = Sql!Row(k, [r EXCEPT !.status = "cooling_down", !.until = until])
<1> DEFINE t == [r EXCEPT !.status = "cooling_down", !.until = until]
<1>1. /\ t.provider = r.provider /\ t.pool = r.pool /\ t.model = r.model
      /\ t.status = "cooling_down" /\ t.failures = r.failures /\ t.until = until
      /\ t \in StoredRecord
  BY DEF StoredRecord, Status
<1> HIDE DEF t
<1>2. Deadline(t.until) = until
  BY <1>1 DEF Deadline, NoDeadline
<1>3. SetStatus(Sql!Row(k, r), "cooling_down", until) = Sql!Row(k, t)
  BY <1>1, <1>2, SetStatusRow
<1> QED
  BY <1>3 DEF t

\* The record PATCH and the health service leave.
WithStatus(r, s) ==
  [r EXCEPT !.status = s,
            !.until  = IF s = "cooling_down" THEN @ ELSE NoDeadline]

LEMMA UpdateStatusRow ==
  ASSUME NEW k, NEW r \in StoredRecord, NEW s \in Status
  PROVE  SetStatus(Sql!Row(k, r), s,
                   IF s = "cooling_down" THEN Sql!Row(k, r).cooling_down_until
                                         ELSE Missing)
           = Sql!Row(k, WithStatus(r, s))
<1> DEFINE t == WithStatus(r, s)
           v == IF s = "cooling_down" THEN Sql!Row(k, r).cooling_down_until
                                      ELSE Missing
<1>1. /\ t.provider = r.provider /\ t.pool = r.pool /\ t.model = r.model
      /\ t.status = s /\ t.failures = r.failures
      /\ t.until = IF s = "cooling_down" THEN r.until ELSE NoDeadline
      /\ t \in StoredRecord
  BY DEF StoredRecord, WithStatus
<1>2. Sql!Row(k, r).cooling_down_until = Deadline(r.until)
  BY RowColumns DEF Columns
<1> HIDE DEF t
<1>3. Deadline(t.until) = v
  BY <1>1, <1>2 DEF Deadline
<1> HIDE DEF v
<1>4. SetStatus(Sql!Row(k, r), s, v) = Sql!Row(k, t)
  BY <1>1, <1>3, SetStatusRow
<1> QED
  BY <1>4 DEF t, v

LEMMA ExpiredRow ==
  ASSUME NEW k, NEW r \in StoredRecord, NEW now
  PROVE  Sql!Expired(Sql!Row(k, r), now) <=> Expired(r, now)
<1>1. Missing \notin Int
  BY LifecycleAssumption
<1> QED
  BY <1>1 DEF Sql!Row, StoredRecord, Sql!NoDeadline, NoDeadline, Sql!Expired, Expired

LEMMA ReleaseRow ==
  ASSUME NEW k, NEW r \in StoredRecord
  PROVE  SetStatus(Sql!Row(k, r), "degraded", Missing)
           = Sql!Row(k, [r EXCEPT !.status = "degraded", !.until = NoDeadline])
<1> DEFINE t == [r EXCEPT !.status = "degraded", !.until = NoDeadline]
<1>1. /\ t.provider = r.provider /\ t.pool = r.pool /\ t.model = r.model
      /\ t.status = "degraded" /\ t.failures = r.failures /\ t.until = NoDeadline
      /\ t \in StoredRecord
  BY DEF StoredRecord, Status
<1> HIDE DEF t
<1>2. Deadline(t.until) = Missing
  BY <1>1 DEF Deadline
<1>3. SetStatus(Sql!Row(k, r), "degraded", Missing) = Sql!Row(k, t)
  BY <1>1, <1>2, SetStatusRow
<1> QED
  BY <1>3 DEF t

-----------------------------------------------------------------------------
(* Tables.  A statement goes over the rows as the call goes over the keys.  *)

LEMMA ReadTable ==
  ASSUME NEW s, IsStore(s), NEW k
  PROVE  Sql!FindById(Sql!TableOf(s), k) = IF Has(s, k) THEN {s[k]} ELSE {}
<1>1. \A j \in DOMAIN s : /\ Sql!Row(j, s[j]).id = j
                          /\ Sql!Record(Sql!Row(j, s[j])) = s[j]
  BY ReadBack DEF IsStore
<1> QED
  BY <1>1 DEF Sql!FindById, Sql!TableOf, Has

LEMMA FindTable ==
  ASSUME NEW s, NEW pool, NEW provider
  PROVE  Sql!FindByPool(Sql!TableOf(s), pool, provider)
           = {j \in DOMAIN s : s[j].pool = pool /\ s[j].provider = provider}
<1>1. \A j \in DOMAIN s : /\ Sql!Row(j, s[j]).id = j
                          /\ Sql!Row(j, s[j]).pool = s[j].pool
                          /\ Sql!Row(j, s[j]).provider = s[j].provider
  BY DEF Sql!Row
<1> QED
  BY <1>1 DEF Sql!FindByPool, Sql!TableOf

LEMMA UpsertTable ==
  ASSUME NEW s, NEW k, NEW r
  PROVE  Sql!Upsert(Sql!TableOf(s), k, r) = Sql!TableOf(Put(s, k, r))
<1> DEFINE t == Put(s, k, r)
<1>1. \A j : Sql!Row(j, s[j]).id = j
  BY DEF Sql!Row
<1>2. /\ DOMAIN t = DOMAIN s \cup {k} /\ t[k] = r
      /\ \A j \in DOMAIN s \ {k} : t[j] = s[j]
  BY DEF Put
<1> HIDE DEF t
<1>3. {Sql!Row(j, t[j]) : j \in DOMAIN t}
        = {row \in {Sql!Row(j, s[j]) : j \in DOMAIN s} : row.id # k} \cup {Sql!Row(k, r)}
  BY <1>1, <1>2
<1> QED
  BY <1>3 DEF Sql!Upsert, Sql!TableOf, t

LEMMA DeleteTable ==
  ASSUME NEW s, NEW k
  PROVE  Sql!Delete(Sql!TableOf(s), k) = Sql!TableOf(Delete(s, k))
<1>1. \A j : Sql!Row(j, s[j]).id = j
  BY DEF Sql!Row
<1> QED
  BY <1>1 DEF Sql!Delete, Sql!TableOf, Delete

LEMMA RecordFailureTable ==
  ASSUME NEW s, IsStore(s), NEW k
  PROVE  Sql!RecordFailure(Sql!TableOf(s), k) = Sql!TableOf(RecordFailure(s, k))
<1> DEFINE t == RecordFailure(s, k)
           F(row) == IF row.id = k THEN [row EXCEPT !.failure_count = @ + 1] ELSE row
<1>1. DOMAIN t = DOMAIN s
  BY RecordFailureAssesses DEF Assessed
<1>2. ASSUME NEW j \in DOMAIN s PROVE F(Sql!Row(j, s[j])) = Sql!Row(j, t[j])
  <2>1. Sql!Row(j, s[j]).id = j /\ s[j] \in StoredRecord
    BY DEF Sql!Row, IsStore
  <2>2. CASE j # k
    <3>1. t[j] = s[j]
      BY <2>2, RecordFailureAssesses DEF Assessed
    <3> QED
      BY <2>1, <2>2, <3>1
  <2>3. CASE j = k
    <3>1. t[j] = [s[j] EXCEPT !.failures = @ + 1]
      BY <2>3 DEF RecordFailure, Change, Put, Has
    <3> QED
      BY <2>1, <2>3, <3>1, RecordFailureRow
  <2> QED
    BY <2>2, <2>3
<1> HIDE DEF t, F
<1>3. {F(row) : row \in Sql!TableOf(s)} = Sql!TableOf(t)
  BY <1>1, <1>2 DEF Sql!TableOf
<1> QED
  BY <1>3 DEF t, F, Sql!RecordFailure

LEMMA ResetFailuresTable ==
  ASSUME NEW s, IsStore(s), NEW k
  PROVE  Sql!ResetFailures(Sql!TableOf(s), k) = Sql!TableOf(ResetFailures(s, k))
<1> DEFINE t == ResetFailures(s, k)
           G(row) == [row EXCEPT !.failure_count = 0,
                                 !.status = IF @ = "degraded" THEN "healthy" ELSE @,
                                 !.cooling_down_until = Missing]
           F(row) == IF row.id = k THEN G(row) ELSE row
<1>1. DOMAIN t = DOMAIN s
  BY ResetFailuresAssesses DEF Assessed
<1>2. ASSUME NEW j \in DOMAIN s PROVE F(Sql!Row(j, s[j])) = Sql!Row(j, t[j])
  <2>1. Sql!Row(j, s[j]).id = j /\ s[j] \in StoredRecord
    BY DEF Sql!Row, IsStore
  <2>2. CASE j # k
    <3>1. t[j] = s[j]
      BY <2>2, ResetFailuresAssesses DEF Assessed
    <3> HIDE DEF G, t
    <3> QED
      BY <2>1, <2>2, <3>1
  <2>3. CASE j = k
    <3> DEFINE u == [s[j] EXCEPT !.status = IF @ = "degraded" THEN "healthy" ELSE @,
                                 !.failures = 0, !.until = NoDeadline]
    <3>1. t[j] = u
      <4> HIDE DEF u
      <4>1. t = Change(s, j, u)
        BY <2>3 DEF ResetFailures, u
      <4> HIDE DEF t
      <4> QED BY <4>1 DEF Change, Put, Has
    <3>2. G(Sql!Row(j, s[j])) = Sql!Row(j, u)
      BY <2>1, ResetFailuresRow, Zenon
    <3> HIDE DEF G, t, u
    <3> QED
      BY <2>1, <2>3, <3>1, <3>2
  <2> QED
    BY <2>2, <2>3
<1> HIDE DEF t, F
<1>3. {F(row) : row \in Sql!TableOf(s)} = Sql!TableOf(t)
  BY <1>1, <1>2 DEF Sql!TableOf
<1> QED
  BY <1>3, Zenon DEF t, F, Sql!ResetFailures

LEMMA StartCoolingDownTable ==
  ASSUME NEW s, IsStore(s), NEW k, NEW until \in Nat
  PROVE  Sql!StartCoolingDown(Sql!TableOf(s), k, until)
           = Sql!TableOf(StartCoolingDown(s, k, until))
<1> DEFINE t == StartCoolingDown(s, k, until)
           F(row) == IF row.id = k THEN SetStatus(row, "cooling_down", until) ELSE row
<1>1. DOMAIN t = DOMAIN s
  BY StartCoolingDownAssesses DEF Assessed
<1>2. ASSUME NEW j \in DOMAIN s PROVE F(Sql!Row(j, s[j])) = Sql!Row(j, t[j])
  <2>1. Sql!Row(j, s[j]).id = j /\ s[j] \in StoredRecord
    BY DEF Sql!Row, IsStore
  <2>2. CASE j # k
    <3>1. t[j] = s[j]
      BY <2>2, StartCoolingDownAssesses DEF Assessed
    <3> HIDE DEF t
    <3> QED
      BY <2>1, <2>2, <3>1
  <2>3. CASE j = k
    <3> DEFINE u == [s[j] EXCEPT !.status = "cooling_down", !.until = until]
    <3>1. t[j] = u
      <4> HIDE DEF u
      <4>1. t = Change(s, j, u)
        BY <2>3 DEF StartCoolingDown, u
      <4> HIDE DEF t
      <4> QED BY <4>1 DEF Change, Put, Has
    <3>2. SetStatus(Sql!Row(j, s[j]), "cooling_down", until) = Sql!Row(j, u)
      BY <2>1, StartCoolingDownRow, Zenon
    <3> HIDE DEF t, u
    <3> QED
      BY <2>1, <2>3, <3>1, <3>2
  <2> QED
    BY <2>2, <2>3
<1> HIDE DEF t, F
<1>3. {F(row) : row \in Sql!TableOf(s)} = Sql!TableOf(t)
  BY <1>1, <1>2 DEF Sql!TableOf
<1> QED
  BY <1>3, Zenon DEF t, F, SetStatus, Sql!StartCoolingDown

LEMMA UpdateStatusTable ==
  ASSUME NEW s, IsStore(s), NEW k, NEW status \in Status
  PROVE  Sql!UpdateStatus(Sql!TableOf(s), k, status)
           = Sql!TableOf(UpdateStatus(s, k, status))
<1> DEFINE t == UpdateStatus(s, k, status)
           G(row) == SetStatus(row, status,
                               IF status = "cooling_down" THEN row.cooling_down_until
                                                          ELSE Missing)
           F(row) == IF row.id = k THEN G(row) ELSE row
<1>1. DOMAIN t = DOMAIN s
  BY UpdateStatusAssesses DEF Assessed
<1>2. ASSUME NEW j \in DOMAIN s PROVE F(Sql!Row(j, s[j])) = Sql!Row(j, t[j])
  <2>1. Sql!Row(j, s[j]).id = j /\ s[j] \in StoredRecord
    BY DEF Sql!Row, IsStore
  <2>2. CASE j # k
    <3>1. t[j] = s[j]
      BY <2>2, UpdateStatusAssesses DEF Assessed
    <3> HIDE DEF G, t
    <3> QED
      BY <2>1, <2>2, <3>1
  <2>3. CASE j = k
    <3> DEFINE u == WithStatus(s[j], status)
    <3>1. t[j] = u
      <4> HIDE DEF u
      <4>1. t = Change(s, j, u)
        BY <2>3 DEF UpdateStatus, u, WithStatus
      <4> HIDE DEF t
      <4> QED BY <4>1 DEF Change, Put, Has
    <3>2. G(Sql!Row(j, s[j])) = Sql!Row(j, u)
      BY <2>1, UpdateStatusRow
    <3> HIDE DEF G, t, u
    <3> QED
      BY <2>1, <2>3, <3>1, <3>2
  <2> QED
    BY <2>2, <2>3
<1> HIDE DEF t, F
<1>3. {F(row) : row \in Sql!TableOf(s)} = Sql!TableOf(t)
  BY <1>1, <1>2 DEF Sql!TableOf
<1> QED
  BY <1>3, Zenon DEF t, F, SetStatus, Sql!UpdateStatus

LEMMA ReleaseTable ==
  ASSUME NEW s, IsStore(s), NEW now
  PROVE  /\ Sql!Released(Sql!TableOf(s), now) = {j \in DOMAIN s : Expired(s[j], now)}
         /\ Sql!ReleaseExpiredCooldowns(Sql!TableOf(s), now)
              = Sql!TableOf(ReleaseExpiredCooldowns(s, now))
<1> DEFINE t == ReleaseExpiredCooldowns(s, now)
           F(row) == IF Sql!Expired(row, now) THEN SetStatus(row, "degraded", Missing)
                                              ELSE row
<1>1. \A j \in DOMAIN s :
        /\ Sql!Row(j, s[j]).id = j /\ s[j] \in StoredRecord
        /\ Sql!Expired(Sql!Row(j, s[j]), now) <=> Expired(s[j], now)
  <2>1. \A j \in DOMAIN s : Sql!Row(j, s[j]).id = j /\ s[j] \in StoredRecord
    BY DEF Sql!Row, IsStore
  <2> QED
    BY <2>1, ExpiredRow
<1>2. DOMAIN t = DOMAIN s
  BY DEF ReleaseExpiredCooldowns
<1>3. ASSUME NEW j \in DOMAIN s PROVE F(Sql!Row(j, s[j])) = Sql!Row(j, t[j])
  <2> DEFINE u == [s[j] EXCEPT !.status = "degraded", !.until = NoDeadline]
  <2>1. t[j] = IF Expired(s[j], now) THEN u ELSE s[j]
    <3> HIDE DEF u
    <3> QED BY Zenon DEF ReleaseExpiredCooldowns, u
  <2>2. SetStatus(Sql!Row(j, s[j]), "degraded", Missing) = Sql!Row(j, u)
    BY <1>1, ReleaseRow, Zenon
  <2> HIDE DEF u, t
  <2> QED
    BY <1>1, <2>1, <2>2
<1>4. Sql!Released(Sql!TableOf(s), now) = {j \in DOMAIN s : Expired(s[j], now)}
  BY <1>1 DEF Sql!Released, Sql!TableOf
<1> HIDE DEF t, F
<1>5. {F(row) : row \in Sql!TableOf(s)} = Sql!TableOf(t)
  BY <1>2, <1>3 DEF Sql!TableOf
<1>6. Sql!ReleaseExpiredCooldowns(Sql!TableOf(s), now) = Sql!TableOf(t)
  BY <1>5, Zenon DEF F, SetStatus, Sql!ReleaseExpiredCooldowns
<1> QED
  BY <1>4, <1>6 DEF t

-----------------------------------------------------------------------------
(* StorageAgrees for every instance: whatever config file, consoles,        *)
(* requests and crashes made the store, every statement of the SQLite       *)
(* repository does to the table what the in-memory repository does to its   *)
(* Map (sqlite-api-key.repository.ts, in-memory-api-key.repository.ts).     *)
THEOREM RepositoriesAgree == Spec => []StorageAgrees
<1>1. ASSUME TypeOK PROVE StorageAgrees
  <2> DEFINE table == Sql!TableOf(store)
  <2>0. IsStore(store) /\ CoolingDown \in Nat
    BY <1>1, LifecycleAssumption DEF TypeOK
  <2>1. ASSUME NEW k \in Keys
        PROVE  /\ Sql!FindById(table, k) = IF Has(store, k) THEN {store[k]} ELSE {}
               /\ Sql!Delete(table, k) = Sql!TableOf(Delete(store, k))
               /\ Sql!RecordFailure(table, k) = Sql!TableOf(RecordFailure(store, k))
               /\ Sql!ResetFailures(table, k) = Sql!TableOf(ResetFailures(store, k))
               /\ Sql!StartCoolingDown(table, k, CoolingDown)
                    = Sql!TableOf(StartCoolingDown(store, k, CoolingDown))
               /\ \A s \in Status :
                    Sql!UpdateStatus(table, k, s) = Sql!TableOf(UpdateStatus(store, k, s))
               /\ \A r \in Uploads :
                    Sql!Upsert(table, k, r) = Sql!TableOf(Put(store, k, r))
    BY <2>0, ReadTable, DeleteTable, RecordFailureTable, ResetFailuresTable,
       StartCoolingDownTable, UpdateStatusTable, UpsertTable
  <2>2. \A r \in Uploads :
          Sql!FindByPool(table, r.pool, r.provider) = FindByPool(store, r.pool, r.provider)
    BY FindTable DEF FindByPool
  <2>3. \A now \in {CoolingDown - 1, CoolingDown} :
          /\ Sql!Released(table, now) = {k \in DOMAIN store : Expired(store[k], now)}
          /\ Sql!ReleaseExpiredCooldowns(table, now)
               = Sql!TableOf(ReleaseExpiredCooldowns(store, now))
    BY <2>0, ReleaseTable
  <2> HIDE DEF table
  <2> QED
    BY <2>1, <2>2, <2>3, Zenon DEF StorageAgrees, table
<1> QED
  BY <1>1, TypeCorrect, PTL

-----------------------------------------------------------------------------
(* The audit log.                                                           *)

AuditActions == {"key_created", "key_updated", "key_status_changed", "key_deleted"}
AuditEntry == [action : AuditActions, id : Keys, outcome : {"success", "error"}]

IsBag(B) == IsABag(B) /\ BagToSet(B) \subseteq AuditEntry

\* What a POST may have done to a key.
Stored(k) == {Event("key_created", k, "success"), Event("key_updated", k, "success")}

\* An operation is carried out and its entry is still to come.
Due(r) == r.at \in {"list", "restore", "health_event", "audit"}

\* The consoles that an audit entry is still to come from, and their number.
InFlight(reqs) == {c \in Consoles : Due(reqs[c])}
Flying(reqs, e) == {c \in InFlight(reqs) : reqs[c].event = e}
Count(reqs, e)  == Cardinality(Flying(reqs, e))

\* A request whose entry, if it has one, is an entry of the log.
EntryOK(r) ==
  /\ Due(r) => r.event \in AuditEntry
  /\ r.at = "upsert" => r.id \in Keys /\ r.event \in Stored(r.id)

-----------------------------------------------------------------------------
(* Bags, by what they count.                                                *)

LEMMA EmptyBagIsBag ==
  IsBag(EmptyBag) /\ \A e : Copies(EmptyBag, e) = 0
  BY DEF IsBag, IsABag, EmptyBag, SetToBag, BagToSet, BagIn, Copies

LEMMA CopiesAreNumbers ==
  ASSUME NEW B, IsBag(B)
  PROVE  \A e : /\ Copies(B, e) \in Nat
                /\ Copies(B, e) > 0 <=> e \in DOMAIN B
  BY DEF IsBag, IsABag, BagToSet, BagIn, Copies

LEMMA CopiesOfUnion ==
  ASSUME NEW A, IsBag(A), NEW B, IsBag(B)
  PROVE  /\ IsBag(A (+) B)
         /\ \A e : Copies(A (+) B, e) = Copies(A, e) + Copies(B, e)
  BY DEF IsBag, IsABag, BagToSet, BagIn, Copies, (+)

LEMMA CopiesOfLog ==
  ASSUME NEW B, IsBag(B), NEW x \in AuditEntry
  PROVE  /\ IsBag(Log(B, x))
         /\ \A e : Copies(Log(B, x), e) = Copies(B, e) + (IF e = x THEN 1 ELSE 0)
  <1>1. IsBag(SetToBag({x}))
    BY DEF IsBag, IsABag, BagToSet, SetToBag
  <1>2. \A e : Copies(SetToBag({x}), e) = IF e = x THEN 1 ELSE 0
    BY DEF Copies, BagIn, BagToSet, SetToBag
  <1> QED BY <1>1, <1>2, CopiesOfUnion DEF Log

\* Two bags are one if they count alike.
LEMMA SameBag ==
  ASSUME NEW A, IsBag(A), NEW B, IsBag(B),
         \A e \in AuditEntry : Copies(A, e) = Copies(B, e)
  PROVE  A = B
  <1>1. \A e \in AuditEntry : e \in DOMAIN A <=> e \in DOMAIN B
    BY CopiesAreNumbers
  <1>2. DOMAIN A \subseteq AuditEntry /\ DOMAIN B \subseteq AuditEntry
    BY DEF IsBag, BagToSet
  <1>3. DOMAIN A = DOMAIN B
    BY <1>1, <1>2
  <1>4. \A e \in DOMAIN A : A[e] = B[e]
    BY <1>2, <1>3 DEF Copies, BagIn, BagToSet
  <1> QED BY <1>3, <1>4 DEF IsBag, IsABag

-----------------------------------------------------------------------------
(* Requests in flight, by the entries to come from them.                    *)

PendingOf(reqs) ==
  [e \in {reqs[c].event : c \in InFlight(reqs)} |-> Count(reqs, e)]

LEMMA PendingIsPendingOf ==
  Pending = PendingOf(consoles) /\ Pending' = PendingOf(consoles')
  BY DEF Pending, PendingOf, Unaudited, InFlight, Due, Flying, Count

LEMMA CopiesOfPending ==
  ASSUME NEW reqs, IsFiniteSet(InFlight(reqs)),
         \A c \in InFlight(reqs) : reqs[c].event \in AuditEntry
  PROVE  /\ IsBag(PendingOf(reqs))
         /\ \A e : Copies(PendingOf(reqs), e) = Count(reqs, e)
         /\ \A e : Count(reqs, e) \in Nat
  <1> DEFINE events == {reqs[c].event : c \in InFlight(reqs)}
  <1>1. \A e : IsFiniteSet(Flying(reqs, e))
    BY FS_Subset DEF Flying
  <1>2. \A e : Count(reqs, e) \in Nat
    BY <1>1, FS_CardinalityType DEF Count
  <1>3. \A e : e \in events <=> Flying(reqs, e) # {}
    BY DEF Flying
  <1>4. \A e : Flying(reqs, e) = {} <=> Count(reqs, e) = 0
    BY <1>1, FS_EmptySet DEF Count
  <1>5. \A e \in events : Count(reqs, e) \in {n \in Nat : n > 0}
    <2> HIDE DEF events
    <2> QED BY <1>2, <1>3, <1>4
  <1>6. PendingOf(reqs) = [e \in events |-> Count(reqs, e)]
    BY DEF PendingOf
  <1>7. events \subseteq AuditEntry
    OBVIOUS
  <1> HIDE DEF events
  <1>8. IsBag(PendingOf(reqs))
    BY <1>5, <1>6, <1>7 DEF IsBag, IsABag, BagToSet
  <1>9. \A e : Copies(PendingOf(reqs), e) = Count(reqs, e)
    BY <1>3, <1>4, <1>6 DEF Copies, BagIn, BagToSet
  <1> QED BY <1>2, <1>8, <1>9

\* A console gets an entry to record.
LEMMA OneMoreFlying ==
  ASSUME NEW reqs, DOMAIN reqs = Consoles, IsFiniteSet(InFlight(reqs)),
         NEW c \in Consoles, c \notin InFlight(reqs),
         NEW news, Due(news[c]), \A d \in Consoles : d # c => news[d] = reqs[d]
  PROVE  /\ IsFiniteSet(InFlight(news))
         /\ \A e : Count(news, e) = Count(reqs, e) + (IF e = news[c].event THEN 1 ELSE 0)
  <1>2. InFlight(news) = InFlight(reqs) \cup {c}
    BY DEF InFlight
  <1>3. IsFiniteSet(InFlight(news))
    BY <1>2, FS_AddElement
  <1>4. ASSUME NEW e
        PROVE  Count(news, e) = Count(reqs, e) + (IF e = news[c].event THEN 1 ELSE 0)
    <2>1. IsFiniteSet(Flying(reqs, e)) /\ c \notin Flying(reqs, e)
      BY FS_Subset DEF Flying
    <2>2. Cardinality(Flying(reqs, e)) \in Nat
      BY <2>1, FS_CardinalityType
    <2>3. CASE e = news[c].event
      <3>1. Flying(news, e) = Flying(reqs, e) \cup {c}
        BY <1>2, <2>3 DEF Flying, InFlight
      <3>2. Cardinality(Flying(news, e)) = Cardinality(Flying(reqs, e)) + 1
        BY <2>1, <3>1, FS_AddElement
      <3> QED BY <2>3, <3>2 DEF Count
    <2>4. CASE e # news[c].event
      <3>1. Flying(news, e) = Flying(reqs, e)
        BY <1>2, <2>4 DEF Flying, InFlight
      <3> QED BY <2>2, <2>4, <3>1 DEF Count
    <2> QED BY <2>3, <2>4
  <1> QED BY <1>3, <1>4

\* A console has recorded its entry.
LEMMA OneLessFlying ==
  ASSUME NEW reqs, DOMAIN reqs = Consoles, IsFiniteSet(InFlight(reqs)),
         NEW c \in InFlight(reqs),
         NEW news, ~Due(news[c]), \A d \in Consoles : d # c => news[d] = reqs[d]
  PROVE  /\ IsFiniteSet(InFlight(news))
         /\ \A e : Count(reqs, e)
                     = Count(news, e) + (IF e = reqs[c].event THEN 1 ELSE 0)
  <1>0. c \in Consoles
    BY DEF InFlight
  <1>2. InFlight(news) = InFlight(reqs) \ {c}
    BY <1>0 DEF InFlight
  <1>3. IsFiniteSet(InFlight(news))
    BY <1>2, FS_RemoveElement
  <1>4. ASSUME NEW e
        PROVE  Count(reqs, e) = Count(news, e) + (IF e = reqs[c].event THEN 1 ELSE 0)
    <2>1. IsFiniteSet(Flying(news, e)) /\ c \notin Flying(news, e)
      BY <1>2, <1>3, FS_Subset DEF Flying
    <2>2. Cardinality(Flying(news, e)) \in Nat
      BY <2>1, FS_CardinalityType
    <2>3. CASE e = reqs[c].event
      <3>1. Flying(reqs, e) = Flying(news, e) \cup {c}
        BY <1>0, <1>2, <2>3 DEF Flying, InFlight
      <3>2. Cardinality(Flying(reqs, e)) = Cardinality(Flying(news, e)) + 1
        BY <2>1, <3>1, FS_AddElement
      <3> QED BY <2>3, <3>2 DEF Count
    <2>4. CASE e # reqs[c].event
      <3>1. Flying(news, e) = Flying(reqs, e)
        BY <1>0, <1>2, <2>4 DEF Flying, InFlight
      <3> QED BY <2>2, <2>4, <3>1 DEF Count
    <2> QED BY <2>3, <2>4
  <1> QED BY <1>3, <1>4

\* Consoles come and go, and move on, before and after they have an entry.
LEMMA SameFlying ==
  ASSUME NEW reqs, NEW news, IsFiniteSet(InFlight(reqs)),
         InFlight(news) = InFlight(reqs),
         \A c \in InFlight(reqs) : news[c].event = reqs[c].event
  PROVE  PendingOf(news) = PendingOf(reqs)
  <1>1. \A e : Flying(news, e) = Flying(reqs, e)
    BY DEF Flying
  <1>2. \A e : Count(news, e) = Count(reqs, e)
    BY <1>1 DEF Count
  <1>3. {news[c].event : c \in InFlight(news)} = {reqs[c].event : c \in InFlight(reqs)}
    OBVIOUS
  <1> QED BY <1>2, <1>3 DEF PendingOf

-----------------------------------------------------------------------------
(* What is accounted for.                                                   *)

AccountedOf(log, reqs, cut) == log (+) PendingOf(reqs) (+) cut

LEMMA AccountedIsAccountedOf ==
  /\ Accounted = AccountedOf(audit, consoles, lost)
  /\ Accounted' = AccountedOf(audit', consoles', lost')
  BY PendingIsPendingOf DEF Accounted, AccountedOf

LEMMA CopiesOfAccounted ==
  ASSUME NEW log, IsBag(log), NEW cut, IsBag(cut),
         NEW reqs, IsFiniteSet(InFlight(reqs)), \A c \in Consoles : EntryOK(reqs[c])
  PROVE  /\ IsBag(AccountedOf(log, reqs, cut))
         /\ \A e : Copies(AccountedOf(log, reqs, cut), e)
                     = Copies(log, e) + Count(reqs, e) + Copies(cut, e)
         /\ \A e : Count(reqs, e) \in Nat
  <1>1. \A c \in InFlight(reqs) : reqs[c].event \in AuditEntry
    BY DEF InFlight, EntryOK
  <1>2. /\ IsBag(PendingOf(reqs))
        /\ \A e : Copies(PendingOf(reqs), e) = Count(reqs, e) /\ Count(reqs, e) \in Nat
    BY <1>1, CopiesOfPending
  <1>3. /\ IsBag(log (+) PendingOf(reqs))
        /\ \A e : Copies(log (+) PendingOf(reqs), e) = Copies(log, e) + Count(reqs, e)
    BY <1>2, CopiesOfUnion
  <1> QED BY <1>2, <1>3, CopiesOfUnion DEF AccountedOf

\* One copy of x more; entries that are one or tell of the same POST.
Grows(A, A1, x) == \A e : Copies(A1, e) = Copies(A, e) + (IF e = x THEN 1 ELSE 0)
Akin(x, y)      == x = y \/ \E k \in Keys : x \in Stored(k) /\ y \in Stored(k)

\* Two bags that tell the same go on to do so when both grow by an entry, the
\* same or one that tells of the same POST.
LEMMA ToldTogether ==
  ASSUME NEW A, IsBag(A), NEW B, IsBag(B), NEW A1, NEW B1,
         NEW x, NEW y, Akin(x, y), Grows(A, A1, x), Grows(B, B1, y),
         NEW e, Told(A, e) = Told(B, e)
  PROVE  Told(A1, e) = Told(B1, e)
  <1> DEFINE created == Event("key_created", e.id, e.outcome)
             updated == Event("key_updated", e.id, e.outcome)
             One(u, v) == IF u = v THEN 1 ELSE 0
  <1>1. \A u : Copies(A, u) \in Nat /\ Copies(B, u) \in Nat
    BY CopiesAreNumbers
  <1>2. created # updated
    BY DEF Event
  <1> HIDE DEF created, updated
  <1>3. CASE x = y
    BY <1>1, <1>3 DEF Grows, Told, created, updated
  <1>4. CASE x # y
    <2>1. PICK k \in Keys : x \in Stored(k) /\ y \in Stored(k)
      BY <1>4 DEF Akin
    <2>2. CASE e.action \in {"key_created", "key_updated"}
      <3>1. x \in {created, updated} <=> y \in {created, updated}
        BY <2>1 DEF Stored, Event, created, updated
      <3>2. One(created, x) + One(updated, x) = One(created, y) + One(updated, y)
        BY <1>2, <3>1
      <3>3. /\ Told(A1, e) = Copies(A, created) + One(created, x)
                               + (Copies(A, updated) + One(updated, x))
            /\ Told(B1, e) = Copies(B, created) + One(created, y)
                               + (Copies(B, updated) + One(updated, y))
        BY <2>2 DEF Grows, Told, created, updated
      <3>4. /\ Told(A, e) = Copies(A, created) + Copies(A, updated)
            /\ Told(B, e) = Copies(B, created) + Copies(B, updated)
        BY <2>2 DEF Told, created, updated
      <3>5. /\ One(created, x) \in Nat /\ One(updated, x) \in Nat
            /\ One(created, y) \in Nat /\ One(updated, y) \in Nat
        OBVIOUS
      <3>6. /\ Copies(A, created) \in Nat /\ Copies(A, updated) \in Nat
            /\ Copies(B, created) \in Nat /\ Copies(B, updated) \in Nat
        BY <1>1
      <3>7. Copies(A, created) + Copies(A, updated)
              = Copies(B, created) + Copies(B, updated)
        BY <3>4
      <3> HIDE DEF One
      <3>8. Copies(A, created) + One(created, x) + (Copies(A, updated) + One(updated, x))
              = Copies(B, created) + One(created, y) + (Copies(B, updated) + One(updated, y))
        BY <3>2, <3>5, <3>6, <3>7
      <3> QED BY <3>3, <3>8
    <2>3. CASE e.action \notin {"key_created", "key_updated"}
      <3>1. e # x /\ e # y
        BY <2>1, <2>3 DEF Stored, Event
      <3> QED BY <1>1, <2>3, <3>1 DEF Grows, Told
    <2> QED BY <2>2, <2>3
  <1> QED BY <1>3, <1>4

-----------------------------------------------------------------------------
(* The inductive invariant: the log, what is in flight and what crashes cut *)
(* off tell what was done; and as long as no two operations overlapped, a   *)
(* POST under way knows whether it creates its key or updates it, since no  *)
(* other operation can create or delete the key before it is stored.        *)

Balanced(log, reqs, cut, done, alone) ==
  /\ IsFiniteSet(InFlight(reqs))
  /\ \A c \in Consoles : EntryOK(reqs[c])
  /\ IsBag(log) /\ IsBag(cut) /\ IsBag(done)
  /\ \A e \in AuditEntry : Told(AccountedOf(log, reqs, cut), e) = Told(done, e)
  /\ alone => AccountedOf(log, reqs, cut) = done

Foretold(r, s) ==
  r.at = "upsert" =>
    r.event = Event(IF Has(s, r.id) THEN "key_updated" ELSE "key_created",
                    r.id, "success")

Alone(reqs, s) ==
  /\ \A c, d \in Consoles : reqs[c] # Idle /\ reqs[d] # Idle => c = d
  /\ \A c \in Consoles : Foretold(reqs[c], s)

AuditInv ==
  /\ TypeOK
  /\ mode # "up" => \A c \in Consoles : consoles[c] = Idle
  /\ Balanced(audit, consoles, lost, effects, ~overlap)
  /\ ~overlap => Alone(consoles, store)

LEMMA BalancedAtStart ==
  ASSUME NEW reqs, \A c \in Consoles : reqs[c] = Idle, NEW alone
  PROVE  Balanced(EmptyBag, reqs, EmptyBag, EmptyBag, alone)
  <1>1. InFlight(reqs) = {} /\ \A c \in Consoles : EntryOK(reqs[c])
    BY DEF InFlight, EntryOK, Due, Idle
  <1>2. IsFiniteSet(InFlight(reqs))
    BY <1>1, FS_EmptySet
  <1>3. /\ IsBag(AccountedOf(EmptyBag, reqs, EmptyBag))
        /\ \A e : Copies(AccountedOf(EmptyBag, reqs, EmptyBag), e)
                    = Copies(EmptyBag, e) + Count(reqs, e) + Copies(EmptyBag, e)
    BY <1>1, <1>2, EmptyBagIsBag, CopiesOfAccounted
  <1>4. \A e : Count(reqs, e) = 0
    <2>1. \A e : Flying(reqs, e) = {}
      BY <1>1 DEF Flying
    <2> QED BY <2>1, FS_EmptySet DEF Count
  <1>5. AccountedOf(EmptyBag, reqs, EmptyBag) = EmptyBag
    BY <1>3, <1>4, EmptyBagIsBag, SameBag
  <1> QED BY <1>1, <1>2, <1>5, EmptyBagIsBag DEF Balanced

\* A console takes a request, moves on or is done, with no entry in between.
LEMMA BalancedOnTheWay ==
  ASSUME NEW log, NEW reqs, NEW cut, NEW done, NEW alone,
         Balanced(log, reqs, cut, done, alone),
         NEW news, InFlight(news) = InFlight(reqs),
         \A c \in InFlight(reqs) : news[c].event = reqs[c].event,
         \A c \in Consoles : EntryOK(news[c])
  PROVE  Balanced(log, news, cut, done, alone)
  <1>1. PendingOf(news) = PendingOf(reqs)
    BY SameFlying DEF Balanced
  <1> QED BY <1>1 DEF Balanced, AccountedOf

\* An operation is carried out: r is what the console does next, y what was
\* done to the store.
LEMMA BalancedWhenCarriedOut ==
  ASSUME NEW log, NEW reqs, NEW cut, NEW done, NEW alone,
         Balanced(log, reqs, cut, done, alone),
         DOMAIN reqs = Consoles, NEW c \in Consoles, c \notin InFlight(reqs),
         NEW r, Due(r),
         r.event \in AuditEntry, NEW y \in AuditEntry,
         Akin(r.event, y),
         alone => r.event = y
  PROVE  Balanced(log, [reqs EXCEPT ![c] = r], cut, Log(done, y), alone)
  <1> DEFINE news  == [reqs EXCEPT ![c] = r]
             done1 == Log(done, y)
             A     == AccountedOf(log, reqs, cut)
             A1    == AccountedOf(log, news, cut)
  <1>F. /\ IsFiniteSet(InFlight(reqs)) /\ \A d \in Consoles : EntryOK(reqs[d])
        /\ IsBag(log) /\ IsBag(cut) /\ IsBag(done)
    BY DEF Balanced
  <1>2. \A d \in Consoles : EntryOK(news[d])
    <2>1. EntryOK(r)
      BY DEF EntryOK, Due
    <2> QED BY <1>F, <2>1
  <1>N. news[c] = r /\ \A d \in Consoles : d # c => news[d] = reqs[d]
    OBVIOUS
  <1> HIDE DEF news
  <1>1. /\ IsFiniteSet(InFlight(news))
        /\ \A e : Count(news, e) = Count(reqs, e) + (IF e = r.event THEN 1 ELSE 0)
    BY <1>F, <1>N, OneMoreFlying
  <1>3. /\ IsBag(A)
        /\ \A e : Copies(A, e) = Copies(log, e) + Count(reqs, e) + Copies(cut, e)
        /\ \A e : Count(reqs, e) \in Nat
    BY <1>F, CopiesOfAccounted
  <1>4. /\ IsBag(A1)
        /\ \A e : Copies(A1, e) = Copies(log, e) + Count(news, e) + Copies(cut, e)
    BY <1>1, <1>2, <1>F, CopiesOfAccounted
  <1>5. \A e : Copies(log, e) \in Nat /\ Copies(cut, e) \in Nat /\ Copies(done, e) \in Nat
    BY <1>F, CopiesAreNumbers
  <1> HIDE DEF A, A1
  <1>6. Grows(A, A1, r.event)
    BY <1>1, <1>3, <1>4, <1>5 DEF Grows
  <1>7. /\ IsBag(done1)
        /\ Grows(done, done1, y)
    BY <1>F, CopiesOfLog DEF Grows
  <1> HIDE DEF done1
  <1>8. \A e \in AuditEntry : Told(A1, e) = Told(done1, e)
    <2> SUFFICES ASSUME NEW e \in AuditEntry
                 PROVE  Told(A1, e) = Told(done1, e)
      OBVIOUS
    <2>1. Told(A, e) = Told(done, e)
      BY DEF Balanced, A
    <2> QED BY <1>F, <1>3, <1>6, <1>7, <2>1, ToldTogether
  <1>9. alone => A1 = done1
    <2> SUFFICES ASSUME alone PROVE A1 = done1
      OBVIOUS
    <2>1. A = done
      BY DEF Balanced, A
    <2> QED BY <1>4, <1>6, <1>7, <2>1, SameBag DEF Grows
  <1> QED BY <1>1, <1>2, <1>7, <1>8, <1>9, <1>F DEF Balanced, A1, news, done1

\* A console records its entry.
LEMMA BalancedWhenRecorded ==
  ASSUME NEW log, NEW reqs, NEW cut, NEW done, NEW alone,
         Balanced(log, reqs, cut, done, alone),
         DOMAIN reqs = Consoles, NEW c \in InFlight(reqs)
  PROVE  Balanced(Log(log, reqs[c].event), [reqs EXCEPT ![c] = Idle], cut, done, alone)
  <1> DEFINE news == [reqs EXCEPT ![c] = Idle]
             x    == reqs[c].event
             A    == AccountedOf(log, reqs, cut)
             A1   == AccountedOf(Log(log, x), news, cut)
  <1>F. /\ IsFiniteSet(InFlight(reqs)) /\ \A d \in Consoles : EntryOK(reqs[d])
        /\ IsBag(log) /\ IsBag(cut) /\ IsBag(done)
    BY DEF Balanced
  <1>0. c \in Consoles /\ x \in AuditEntry
    BY DEF InFlight, Balanced, EntryOK
  <1>2. \A d \in Consoles : EntryOK(news[d])
    <2>1. EntryOK(Idle)
      BY DEF EntryOK, Due, Idle
    <2> QED BY <1>0, <1>F, <2>1
  <1>N. news[c] = Idle /\ \A d \in Consoles : d # c => news[d] = reqs[d]
    BY <1>0
  <1> HIDE DEF news
  <1>1. /\ IsFiniteSet(InFlight(news))
        /\ \A e : Count(reqs, e) = Count(news, e) + (IF e = x THEN 1 ELSE 0)
    <2>1. ~Due(Idle)
      BY DEF Idle, Due
    <2> QED BY <1>F, <1>N, <2>1, OneLessFlying
  <1> HIDE DEF x
  <1>3. /\ IsBag(A)
        /\ \A e : Copies(A, e) = Copies(log, e) + Count(reqs, e) + Copies(cut, e)
    BY <1>F, CopiesOfAccounted
  <1>4. /\ IsBag(Log(log, x))
        /\ \A e : Copies(Log(log, x), e) = Copies(log, e) + (IF e = x THEN 1 ELSE 0)
    BY <1>0, <1>F, CopiesOfLog
  <1>5. /\ IsBag(A1)
        /\ \A e : Copies(A1, e)
                    = Copies(Log(log, x), e) + Count(news, e) + Copies(cut, e)
        /\ \A e : Count(news, e) \in Nat
    BY <1>1, <1>2, <1>4, <1>F, CopiesOfAccounted
  <1>6. \A e : Copies(log, e) \in Nat /\ Copies(cut, e) \in Nat
    BY <1>F, CopiesAreNumbers
  <1> HIDE DEF A, A1
  <1>7. \A e : Copies(A1, e) = Copies(A, e)
    BY <1>1, <1>3, <1>4, <1>5, <1>6
  <1>8. A1 = A
    BY <1>3, <1>5, <1>7, SameBag
  <1> QED BY <1>1, <1>2, <1>4, <1>8 DEF Balanced, A, A1, news, x

\* The recorder throws: the entry is lost.
LEMMA BalancedWhenLost ==
  ASSUME NEW log, NEW reqs, NEW cut, NEW done, NEW alone,
         Balanced(log, reqs, cut, done, alone),
         DOMAIN reqs = Consoles, NEW c \in InFlight(reqs)
  PROVE  Balanced(log, [reqs EXCEPT ![c] = Idle], Log(cut, reqs[c].event), done, alone)
  <1> DEFINE news == [reqs EXCEPT ![c] = Idle]
             x    == reqs[c].event
             cut1 == Log(cut, x)
             A    == AccountedOf(log, reqs, cut)
             A1   == AccountedOf(log, news, cut1)
  <1>F. /\ IsFiniteSet(InFlight(reqs)) /\ \A d \in Consoles : EntryOK(reqs[d])
        /\ IsBag(log) /\ IsBag(cut) /\ IsBag(done)
    BY DEF Balanced
  <1>0. c \in Consoles /\ x \in AuditEntry
    BY DEF InFlight, Balanced, EntryOK
  <1>2. \A d \in Consoles : EntryOK(news[d])
    <2>1. EntryOK(Idle)
      BY DEF EntryOK, Due, Idle
    <2> QED BY <1>0, <1>F, <2>1
  <1>N. news[c] = Idle /\ \A d \in Consoles : d # c => news[d] = reqs[d]
    BY <1>0
  <1> HIDE DEF news
  <1>1. /\ IsFiniteSet(InFlight(news))
        /\ \A e : Count(reqs, e) = Count(news, e) + (IF e = x THEN 1 ELSE 0)
    <2>1. ~Due(Idle)
      BY DEF Idle, Due
    <2> QED BY <1>F, <1>N, <2>1, OneLessFlying
  <1> HIDE DEF x
  <1>3. /\ IsBag(A)
        /\ \A e : Copies(A, e) = Copies(log, e) + Count(reqs, e) + Copies(cut, e)
    BY <1>F, CopiesOfAccounted
  <1>4. /\ IsBag(cut1)
        /\ \A e : Copies(cut1, e) = Copies(cut, e) + (IF e = x THEN 1 ELSE 0)
    BY <1>0, <1>F, CopiesOfLog
  <1> HIDE DEF cut1
  <1>5. /\ IsBag(A1)
        /\ \A e : Copies(A1, e) = Copies(log, e) + Count(news, e) + Copies(cut1, e)
        /\ \A e : Count(news, e) \in Nat
    BY <1>1, <1>2, <1>4, <1>F, CopiesOfAccounted
  <1>6. \A e : Copies(log, e) \in Nat /\ Copies(cut, e) \in Nat
    BY <1>F, CopiesAreNumbers
  <1> HIDE DEF A, A1
  <1>7. \A e : Copies(A1, e) = Copies(A, e)
    BY <1>1, <1>3, <1>4, <1>5, <1>6
  <1>8. A1 = A
    BY <1>3, <1>5, <1>7, SameBag
  <1> QED BY <1>1, <1>2, <1>4, <1>8, <1>F DEF Balanced, A, A1, cut1, news, x

\* A crash cuts every request off.
LEMMA BalancedWhenCut ==
  ASSUME NEW log, NEW reqs, NEW cut, NEW done, NEW alone,
         Balanced(log, reqs, cut, done, alone),
         NEW news, \A c \in Consoles : news[c] = Idle
  PROVE  Balanced(log, news, cut (+) PendingOf(reqs), done, alone)
  <1> DEFINE cut1 == cut (+) PendingOf(reqs)
             A    == AccountedOf(log, reqs, cut)
             A1   == AccountedOf(log, news, cut1)
  <1>F. /\ IsFiniteSet(InFlight(reqs)) /\ \A d \in Consoles : EntryOK(reqs[d])
        /\ IsBag(log) /\ IsBag(cut) /\ IsBag(done)
    BY DEF Balanced
  <1>1. InFlight(news) = {} /\ \A c \in Consoles : EntryOK(news[c])
    BY DEF InFlight, EntryOK, Due, Idle
  <1>2. IsFiniteSet(InFlight(news))
    BY <1>1, FS_EmptySet
  <1>3. \A e : Count(news, e) = 0
    <2>1. \A e : Flying(news, e) = {}
      BY <1>1 DEF Flying
    <2> QED BY <2>1, FS_EmptySet DEF Count
  <1>4. /\ IsBag(A)
        /\ \A e : Copies(A, e) = Copies(log, e) + Count(reqs, e) + Copies(cut, e)
        /\ \A e : Count(reqs, e) \in Nat
    BY <1>F, CopiesOfAccounted
  <1>5. /\ IsBag(cut1)
        /\ \A e : Copies(cut1, e) = Copies(cut, e) + Count(reqs, e)
    <2>1. \A c \in InFlight(reqs) : reqs[c].event \in AuditEntry
      BY DEF InFlight, Balanced, EntryOK
    <2>2. /\ IsBag(PendingOf(reqs))
          /\ \A e : Copies(PendingOf(reqs), e) = Count(reqs, e)
      BY <2>1, <1>F, CopiesOfPending
    <2> QED BY <2>2, <1>F, CopiesOfUnion
  <1>B. IsBag(log) /\ IsBag(cut1)
    BY <1>5, <1>F
  <1> HIDE DEF cut1
  <1>6. /\ IsBag(A1)
        /\ \A e : Copies(A1, e) = Copies(log, e) + Count(news, e) + Copies(cut1, e)
    BY <1>1, <1>2, <1>B, CopiesOfAccounted
  <1>7. \A e : Copies(log, e) \in Nat /\ Copies(cut, e) \in Nat
    BY <1>F, CopiesAreNumbers
  <1> HIDE DEF A, A1
  <1>8. \A e : Copies(A1, e) = Copies(A, e)
    BY <1>3, <1>4, <1>5, <1>6, <1>7
  <1>9. A1 = A
    BY <1>4, <1>6, <1>8, SameBag
  <1> QED BY <1>1, <1>2, <1>5, <1>9 DEF Balanced, A, A1, cut1

-----------------------------------------------------------------------------
(* Every step keeps it.                                                     *)

LEMMA AloneWhenIdle ==
  ASSUME NEW reqs, \A c \in Consoles : reqs[c] = Idle, NEW s
  PROVE  Alone(reqs, s)
  BY DEF Alone, Foretold, Idle

LEMMA AloneKept ==
  ASSUME NEW reqs, NEW s, Alone(reqs, s), NEW t, DOMAIN t = DOMAIN s
  PROVE  Alone(reqs, t)
  BY DEF Alone, Foretold, Has

\* The only console there is moves on; the store may change.
LEMMA AloneMoves ==
  ASSUME NEW reqs, DOMAIN reqs = Consoles, NEW s, Alone(reqs, s),
         NEW c \in Consoles, reqs[c] # Idle, NEW r, r.at # "upsert", NEW t
  PROVE  Alone([reqs EXCEPT ![c] = r], t)
  <1>1. \A d \in Consoles : d # c => [reqs EXCEPT ![c] = r][d] = Idle
    BY DEF Alone
  <1>2. [reqs EXCEPT ![c] = r][c] = r
    OBVIOUS
  <1> QED BY <1>1, <1>2 DEF Alone, Foretold, Idle

LEMMA AloneBegins ==
  ASSUME NEW reqs, DOMAIN reqs = Consoles, \A c \in Consoles : reqs[c] = Idle,
         NEW c \in Consoles, NEW s, NEW r, Foretold(r, s)
  PROVE  Alone([reqs EXCEPT ![c] = r], s)
  <1>1. \A d \in Consoles : d # c => [reqs EXCEPT ![c] = r][d] = Idle
    OBVIOUS
  <1>2. [reqs EXCEPT ![c] = r][c] = r
    OBVIOUS
  <1> QED BY <1>1, <1>2 DEF Alone, Foretold, Idle

\* Steps of start-up and of the health service.
LEMMA AuditUntouched ==
  ASSUME AuditInv, TypeOK', UNCHANGED <<consoles, audit, lost, effects, overlap>>,
         mode = "up" \/ \A c \in Consoles : consoles[c] = Idle,
         mode' = "up" \/ \A c \in Consoles : consoles[c] = Idle,
         DOMAIN store' = DOMAIN store \/ \A c \in Consoles : consoles[c] = Idle
  PROVE  AuditInv'
  <1>1. Balanced(audit', consoles', lost', effects', ~overlap')
    BY DEF AuditInv
  <1>2. ~overlap' => Alone(consoles', store')
    BY AloneKept, AloneWhenIdle DEF AuditInv
  <1> QED BY <1>1, <1>2 DEF AuditInv

LEMMA BeginKeepsAudit ==
  ASSUME AuditInv, TypeOK', NEW c \in Consoles, NEW r, Begin(c, r),
         ~Due(r), EntryOK(r), Foretold(r, store)
  PROVE  AuditInv'
  <1>1. /\ mode = "up" /\ consoles[c] = Idle
        /\ consoles' = [consoles EXCEPT ![c] = r]
        /\ overlap' = (overlap \/ \E d \in Consoles : consoles[d] # Idle)
        /\ UNCHANGED <<mode, store, audit, lost, effects>>
    BY DEF Begin, server
  <1>2. DOMAIN consoles = Consoles /\ overlap \in BOOLEAN
    BY DEF AuditInv, TypeOK
  <1>3. consoles'[c] = r /\ \A d \in Consoles : d # c => consoles'[d] = consoles[d]
    BY <1>1, <1>2
  <1>4. Balanced(audit, consoles, lost, effects, ~overlap)
    BY DEF AuditInv
  <1>5. Balanced(audit, consoles', lost, effects, ~overlap)
    <2>1. InFlight(consoles') = InFlight(consoles)
      BY <1>1, <1>3 DEF InFlight, Due, Idle
    <2>2. \A d \in InFlight(consoles) : consoles'[d].event = consoles[d].event
      BY <1>1, <1>3 DEF InFlight, Due, Idle
    <2>3. \A d \in Consoles : EntryOK(consoles'[d])
      BY <1>3, <1>4 DEF Balanced
    <2> QED BY <1>4, <2>1, <2>2, <2>3, BalancedOnTheWay
  <1>6. Balanced(audit', consoles', lost', effects', ~overlap')
    <2>1. ~overlap' => ~overlap
      BY <1>1
    <2> QED BY <1>1, <1>5, <2>1 DEF Balanced
  <1>7. ~overlap' => Alone(consoles', store')
    <2> SUFFICES ASSUME ~overlap' PROVE Alone(consoles', store')
      OBVIOUS
    <2>1. \A d \in Consoles : consoles[d] = Idle
      BY <1>1
    <2> QED BY <1>1, <1>2, <2>1, AloneBegins
  <1> QED BY <1>1, <1>6, <1>7 DEF AuditInv

\* A handler goes on with its entry still to come.
LEMMA OnTheWayKeepsAudit ==
  ASSUME AuditInv, TypeOK', NEW c \in Consoles, Due(consoles[c]),
         NEW r, Due(r), r.event = consoles[c].event,
         consoles' = [consoles EXCEPT ![c] = r],
         UNCHANGED <<mode, store, audit, lost, effects, overlap>>
  PROVE  AuditInv'
  <1>1. DOMAIN consoles = Consoles /\ Balanced(audit, consoles, lost, effects, ~overlap)
    BY DEF AuditInv, TypeOK
  <1>2. consoles'[c] = r /\ \A d \in Consoles : d # c => consoles'[d] = consoles[d]
    BY <1>1
  <1>3. Balanced(audit, consoles', lost, effects, ~overlap)
    <2>1. InFlight(consoles') = InFlight(consoles)
      BY <1>2 DEF InFlight
    <2>2. \A d \in InFlight(consoles) : consoles'[d].event = consoles[d].event
      BY <1>2 DEF InFlight
    <2>3. \A d \in Consoles : EntryOK(consoles'[d])
      <3>1. EntryOK(r)
        BY <1>1 DEF Balanced, EntryOK, Due
      <3> QED BY <1>1, <1>2, <3>1 DEF Balanced
    <2> QED BY <1>1, <2>1, <2>2, <2>3, BalancedOnTheWay
  <1>4. consoles[c] # Idle /\ r.at # "upsert"
    BY DEF Due, Idle
  <1>5. ~overlap => Alone(consoles', store)
    BY <1>1, <1>4, AloneMoves DEF AuditInv
  <1>6. mode = "up"
    BY <1>4 DEF AuditInv
  <1> QED BY <1>3, <1>5, <1>6 DEF AuditInv

\* A handler carries its operation out: y is what it did to the store.
LEMMA CarriedOutKeepsAudit ==
  ASSUME AuditInv, TypeOK', NEW c \in Consoles,
         ~Due(consoles[c]), consoles[c] # Idle,
         NEW r, Due(r), r.event \in AuditEntry, NEW y \in AuditEntry,
         Akin(r.event, y), ~overlap => r.event = y,
         consoles' = [consoles EXCEPT ![c] = r], effects' = Log(effects, y),
         UNCHANGED <<mode, audit, lost, overlap>>
  PROVE  AuditInv'
  <1>1. DOMAIN consoles = Consoles /\ Balanced(audit, consoles, lost, effects, ~overlap)
    BY DEF AuditInv, TypeOK
  <1>2. c \notin InFlight(consoles)
    BY DEF InFlight
  <1>3. Balanced(audit, consoles', lost, effects', ~overlap)
    BY <1>1, <1>2, BalancedWhenCarriedOut
  <1>4. r.at # "upsert"
    BY DEF Due
  <1>5. ~overlap => Alone(consoles', store')
    BY <1>1, <1>4, AloneMoves DEF AuditInv
  <1>6. mode = "up"
    BY DEF AuditInv
  <1> QED BY <1>3, <1>5, <1>6 DEF AuditInv

LEMMA RecordAuditKeepsAudit ==
  ASSUME AuditInv, TypeOK', NEW c \in Consoles, RecordAudit(c)
  PROVE  AuditInv'
  <1>1. DOMAIN consoles = Consoles /\ Balanced(audit, consoles, lost, effects, ~overlap)
    BY DEF AuditInv, TypeOK
  <1>2. /\ consoles[c].at = "audit" /\ audit' = Log(audit, consoles[c].event)
        /\ consoles' = [consoles EXCEPT ![c] = Idle]
        /\ UNCHANGED <<mode, store, lost, effects, overlap>>
    BY DEF RecordAudit, history
  <1>3. c \in InFlight(consoles)
    BY <1>2 DEF InFlight, Due
  <1>4. Balanced(audit', consoles', lost, effects, ~overlap)
    BY <1>1, <1>2, <1>3, BalancedWhenRecorded
  <1>5. consoles[c] # Idle /\ Idle.at # "upsert"
    BY <1>2 DEF Idle
  <1>6. ~overlap => Alone(consoles', store)
    BY <1>1, <1>2, <1>5, AloneMoves DEF AuditInv
  <1>7. mode = "up"
    BY <1>5 DEF AuditInv
  <1> QED BY <1>2, <1>4, <1>6, <1>7 DEF AuditInv

LEMMA RecorderThrowsKeepsAudit ==
  ASSUME AuditInv, TypeOK', NEW c \in Consoles, RecorderThrows(c)
  PROVE  AuditInv'
  <1>1. DOMAIN consoles = Consoles /\ Balanced(audit, consoles, lost, effects, ~overlap)
    BY DEF AuditInv, TypeOK
  <1>2. /\ consoles[c].at \in {"health_event", "audit"}
        /\ lost' = Log(lost, consoles[c].event)
        /\ consoles' = [consoles EXCEPT ![c] = Idle]
        /\ UNCHANGED <<mode, store, audit, effects, overlap>>
    BY DEF RecorderThrows, server
  <1>3. c \in InFlight(consoles)
    BY <1>2 DEF InFlight, Due
  <1>4. Balanced(audit, consoles', lost', effects, ~overlap)
    BY <1>1, <1>2, <1>3, BalancedWhenLost
  <1>5. consoles[c] # Idle /\ Idle.at # "upsert"
    BY <1>2 DEF Idle
  <1>6. ~overlap => Alone(consoles', store)
    BY <1>1, <1>2, <1>5, AloneMoves DEF AuditInv
  <1>7. mode = "up"
    BY <1>5 DEF AuditInv
  <1> QED BY <1>2, <1>4, <1>6, <1>7 DEF AuditInv

LEMMA CrashKeepsAudit ==
  ASSUME AuditInv, TypeOK', Crash
  PROVE  AuditInv'
  <1>1. /\ consoles' = [c \in Consoles |-> Idle] /\ UNCHANGED overlap
        /\ \A c \in Consoles : consoles'[c] = Idle
    BY DEF Crash
  <1>2. Balanced(audit', consoles', lost', effects', ~overlap')
    <2>1. CASE storage = "memory"
      <3>1. audit' = EmptyBag /\ lost' = EmptyBag /\ effects' = EmptyBag
        BY <2>1 DEF Crash
      <3> QED BY <1>1, <3>1, BalancedAtStart
    <2>2. CASE storage # "memory"
      <3>1. lost' = lost (+) PendingOf(consoles) /\ UNCHANGED <<audit, effects>>
        BY <2>2, PendingIsPendingOf DEF Crash
      <3>2. Balanced(audit, consoles, lost, effects, ~overlap)
        BY DEF AuditInv
      <3> QED BY <1>1, <3>1, <3>2, BalancedWhenCut
    <2> QED BY <2>1, <2>2
  <1>3. Alone(consoles', store')
    BY <1>1, AloneWhenIdle
  <1> QED BY <1>1, <1>2, <1>3 DEF AuditInv

LEMMA HandlerKeepsAudit ==
  ASSUME AuditInv, TypeOK', NEW c \in Consoles, Handler(c)
  PROVE  AuditInv'
  <1>1. /\ IsRequest(consoles[c]) /\ EntryOK(consoles[c])
        /\ ~overlap => Foretold(consoles[c], store)
    BY DEF AuditInv, TypeOK, Balanced, Alone
  <1>2. CASE Upsert(c)
    <2> DEFINE id == consoles[c].id
               y  == Event(Written(id), id, "success")
               r  == [at |-> "list", event |-> consoles[c].event]
    <2>1. /\ consoles[c].at = "upsert" /\ consoles' = [consoles EXCEPT ![c] = r]
          /\ effects' = Log(effects, y) /\ UNCHANGED <<mode, audit, lost, overlap>>
      BY <1>2 DEF Upsert
    <2>2. id \in Keys /\ r.event \in Stored(id)
      BY <1>1, <2>1 DEF EntryOK
    <2>3. y \in Stored(id) /\ Stored(id) \subseteq AuditEntry
      BY <2>2 DEF Stored, Written, Event, AuditEntry, AuditActions
    <2>4. Akin(r.event, y) /\ r.event \in AuditEntry /\ y \in AuditEntry
      BY <2>2, <2>3, Zenon DEF Akin
    <2>5. ~overlap => r.event = y
      BY <1>1, <2>1 DEF Foretold, Written
    <2>6. Due(r) /\ ~Due(consoles[c]) /\ consoles[c] # Idle
      BY <2>1 DEF Due, Idle
    <2> HIDE DEF r, y
    <2> QED BY <2>1, <2>4, <2>5, <2>6, CarriedOutKeepsAudit
  <1>3. CASE List(c)
    <2> DEFINE r == [at |-> "restore", event |-> consoles[c].event, keys |-> store]
    <2>1. /\ consoles[c].at = "list" /\ consoles' = [consoles EXCEPT ![c] = r]
          /\ UNCHANGED <<mode, store, audit, lost, effects, overlap>>
      BY <1>3 DEF List, server, history
    <2>2. Due(consoles[c]) /\ Due(r) /\ r.event = consoles[c].event
      BY <2>1 DEF Due
    <2> HIDE DEF r
    <2> QED BY <2>1, <2>2, OnTheWayKeepsAudit
  <1>4. CASE GoThroughList(c)
    <2> DEFINE r == [at |-> "audit", event |-> consoles[c].event]
    <2>1. /\ consoles[c].at = "restore" /\ consoles' = [consoles EXCEPT ![c] = r]
          /\ UNCHANGED <<mode, store, audit, lost, effects, overlap>>
      BY <1>4 DEF GoThroughList, history
    <2>2. Due(consoles[c]) /\ Due(r) /\ r.event = consoles[c].event
      BY <2>1 DEF Due
    <2> HIDE DEF r
    <2> QED BY <2>1, <2>2, OnTheWayKeepsAudit
  <1>5. CASE RecordHealthEvent(c)
    <2> DEFINE r == [consoles[c] EXCEPT !.at = "audit"]
    <2>1. /\ consoles[c].at = "health_event" /\ consoles' = [consoles EXCEPT ![c] = r]
          /\ UNCHANGED <<mode, store, audit, lost, effects, overlap>>
      BY <1>5 DEF RecordHealthEvent, server, history
    <2>2. Due(consoles[c]) /\ Due(r) /\ r.event = consoles[c].event
      BY <2>1 DEF Due
    <2> HIDE DEF r
    <2> QED BY <2>1, <2>2, OnTheWayKeepsAudit
  <1>6. CASE UpdateKeyStatus(c)
    <2> DEFINE id == consoles[c].id
               y  == Event("key_status_changed", id,
                           IF Has(store, id) THEN "success" ELSE "error")
               r  == [at |-> IF Has(store, id) THEN "health_event" ELSE "audit",
                      event |-> y]
    <2>1. /\ consoles[c].at = "update" /\ consoles' = [consoles EXCEPT ![c] = r]
          /\ effects' = Log(effects, y) /\ UNCHANGED <<mode, audit, lost, overlap>>
      BY <1>6 DEF UpdateKeyStatus
    <2>2. y \in AuditEntry
      BY <1>1, <2>1 DEF IsRequest, Event, AuditEntry, AuditActions
    <2>3. Due(r) /\ ~Due(consoles[c]) /\ consoles[c] # Idle /\ r.event = y
      BY <2>1 DEF Due, Idle
    <2> HIDE DEF r, y
    <2> QED BY <2>1, <2>2, <2>3, CarriedOutKeepsAudit DEF Akin
  <1>7. CASE DeleteKey(c)
    <2> DEFINE id == consoles[c].id
               y  == Event("key_deleted", id,
                           IF Has(store, id) THEN "success" ELSE "error")
               r  == [at |-> "audit", event |-> y]
    <2>1. /\ consoles[c].at = "delete" /\ consoles' = [consoles EXCEPT ![c] = r]
          /\ effects' = Log(effects, y) /\ UNCHANGED <<mode, audit, lost, overlap>>
      BY <1>7 DEF DeleteKey
    <2>2. y \in AuditEntry
      BY <1>1, <2>1 DEF IsRequest, Event, AuditEntry, AuditActions
    <2>3. Due(r) /\ ~Due(consoles[c]) /\ consoles[c] # Idle /\ r.event = y
      BY <2>1 DEF Due, Idle
    <2> HIDE DEF r, y
    <2> QED BY <2>1, <2>2, <2>3, CarriedOutKeepsAudit DEF Akin
  <1>8. CASE RecordAudit(c)
    BY <1>8, RecordAuditKeepsAudit
  <1>9. CASE RecorderThrows(c)
    BY <1>9, RecorderThrowsKeepsAudit
  <1> QED BY <1>2, <1>3, <1>4, <1>5, <1>6, <1>7, <1>8, <1>9 DEF Handler

LEMMA AuditInit == Init => AuditInv
  <1> SUFFICES ASSUME Init PROVE AuditInv
    OBVIOUS
  <1>1. TypeOK
    BY InitTyped
  <1>2. \A c \in Consoles : consoles[c] = Idle
    BY DEF Init
  <1>3. Balanced(audit, consoles, lost, effects, ~overlap)
    BY <1>2, BalancedAtStart DEF Init
  <1>4. Alone(consoles, store)
    BY <1>2, AloneWhenIdle
  <1> QED BY <1>1, <1>2, <1>3, <1>4 DEF AuditInv

LEMMA AuditNext == AuditInv /\ [Next]_vars => AuditInv'
  <1> SUFFICES ASSUME AuditInv, [Next]_vars PROVE AuditInv'
    OBVIOUS
  <1>0. TypeOK /\ TypeOK'
    BY NextTyped DEF AuditInv
  <1>I. mode # "up" => \A c \in Consoles : consoles[c] = Idle
    BY DEF AuditInv
  <1>1. CASE UNCHANGED vars
    BY <1>0, <1>1, <1>I, AuditUntouched DEF vars, server, history
  <1>2. CASE Boot
    BY <1>0, <1>2, <1>I, AuditUntouched DEF Boot, history
  <1>3. CASE Open
    BY <1>0, <1>3, <1>I, AuditUntouched DEF Open, history
  <1>4. CASE Crash
    BY <1>0, <1>4, CrashKeepsAudit
  <1>5. ASSUME NEW r \in Requests, Judge(r) PROVE AuditInv'
    <2>1. judging[r] \in [key : Keys, cool : BOOLEAN] /\ IsStore(store)
      BY <1>0, <1>5 DEF Judge, TypeOK
    <2>2. DOMAIN store' = DOMAIN store
      BY <1>5, <2>1, StartCoolingDownAssesses, UpdateStatusAssesses, LifecycleAssumption
         DEF Judge, Assessed, Status
    <2> QED BY <1>0, <1>5, <1>I, <2>2, AuditUntouched DEF Judge, history
  <1>6. ASSUME NEW k \in Keys, SeedOne(k) PROVE AuditInv'
    BY <1>0, <1>6, <1>I, AuditUntouched DEF SeedOne, history
  <1>7. ASSUME NEW r \in Requests, NEW k \in Keys, CountFailure(r, k)
        PROVE  AuditInv'
    <2>1. DOMAIN store' = DOMAIN store
      BY <1>0, <1>7, RecordFailureAssesses DEF CountFailure, Assessed, TypeOK
    <2> QED BY <1>0, <1>7, <1>I, <2>1, AuditUntouched DEF CountFailure, history
  <1>8. ASSUME NEW k \in Keys, Succeed(k) PROVE AuditInv'
    <2>1. DOMAIN store' = DOMAIN store
      BY <1>0, <1>8, ResetFailuresAssesses DEF Succeed, Assessed, TypeOK
    <2> QED BY <1>0, <1>8, <1>I, <2>1, AuditUntouched DEF Succeed
  <1>9. ASSUME NEW c \in Consoles, Handler(c) PROVE AuditInv'
    BY <1>0, <1>9, HandlerKeepsAudit
  <1>10. ASSUME NEW c \in Consoles, NEW b \in Bodies, Post(c, b) PROVE AuditInv'
    <2> DEFINE r == [at |-> "upsert", id |-> b.id, record |-> KeyRecord(Resolve(b)),
                     event |-> Event(Written(b.id), b.id, "success")]
    <2>1. Begin(c, r)
      BY <1>10 DEF Post
    <2>2. ~Due(r)
      BY DEF Due
    <2>3. EntryOK(r)
      BY LifecycleAssumption DEF EntryOK, Due, Stored, Written
    <2>4. Foretold(r, store)
      BY DEF Foretold, Written
    <2> HIDE DEF r
    <2> QED BY <1>0, <2>1, <2>2, <2>3, <2>4, BeginKeepsAudit
  <1>11. ASSUME NEW c \in Consoles, NEW k \in Keys, Drop(c, k) PROVE AuditInv'
    <2> DEFINE r == [at |-> "delete", id |-> k]
    <2>1. Begin(c, r) /\ ~Due(r) /\ EntryOK(r) /\ Foretold(r, store)
      BY <1>11 DEF Drop, Due, EntryOK, Foretold
    <2> HIDE DEF r
    <2> QED BY <1>0, <2>1, BeginKeepsAudit
  <1>12. ASSUME NEW c \in Consoles, NEW k \in Keys, NEW s \in Statuses, Patch(c, k, s)
         PROVE  AuditInv'
    <2> DEFINE r == [at |-> "update", id |-> k, status |-> s]
    <2>1. Begin(c, r) /\ ~Due(r) /\ EntryOK(r) /\ Foretold(r, store)
      BY <1>12 DEF Patch, Due, EntryOK, Foretold
    <2> HIDE DEF r
    <2> QED BY <1>0, <2>1, BeginKeepsAudit
  <1> QED
    BY <1>1, <1>2, <1>3, <1>4, <1>5, <1>6, <1>7, <1>8, <1>9, <1>10, <1>11, <1>12
       DEF Next

LEMMA AuditExact == AuditInv => AuditComplete
  <1> SUFFICES ASSUME AuditInv PROVE AuditComplete
    OBVIOUS
  <1>1. Balanced(audit, consoles, lost, effects, ~overlap)
    BY DEF AuditInv
  <1>2. Accounted = AccountedOf(audit, consoles, lost)
    BY AccountedIsAccountedOf
  <1>3. IsBag(Accounted) /\ IsBag(effects)
    BY <1>1, <1>2, CopiesOfAccounted DEF Balanced
  <1>4. BagToSet(Accounted) \cup BagToSet(effects) \subseteq AuditEntry
    BY <1>3 DEF IsBag
  <1> QED BY <1>1, <1>2, <1>4 DEF AuditComplete, Balanced

(* admin.routes.ts POST, PATCH, DELETE: whatever the number of consoles,    *)
(* their interleaving, the crashes and the recorders that throw, the audit  *)
(* log, the entries still to come and those a crash cut off or a recorder   *)
(* did not write tell exactly what operations did to the keys, but for      *)
(* created and updated where operations overlapped.                         *)
THEOREM AuditTrue == Spec => []AuditComplete
  <1>1. Spec => []AuditInv
    BY AuditInit, AuditNext, PTL DEF Spec
  <1> QED BY <1>1, AuditExact, PTL

=============================================================================

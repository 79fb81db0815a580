--------------------------- MODULE KeyPool_proofs ---------------------------
(***************************************************************************)
(* Theorems about KeyPool, for every number of keys and clients, every     *)
(* limit, threshold and bound, every strategy and set of faults.           *)
(***************************************************************************)
EXTENDS KeyPool, FiniteSetTheorems, TLAPS

-----------------------------------------------------------------------------
(* The repository calls keep a store a store.                               *)

StoreOK(s) ==
  /\ DOMAIN s \subseteq Keys
  /\ \A k \in DOMAIN s : s[k] \in Record

(* Replacing or creating one record. *)
LEMMA PutKeepsStore ==
  ASSUME NEW s, StoreOK(s), NEW k \in Keys, NEW r \in Record
  PROVE  /\ StoreOK(Put(s, k, r))
         /\ DOMAIN Put(s, k, r) = DOMAIN s \cup {k}
         /\ Put(s, k, r)[k] = r
         /\ \A j \in DOMAIN s : j # k => Put(s, k, r)[j] = s[j]
  BY DEF StoreOK, Put

(* Removing one record. *)
LEMMA DeleteKeepsStore ==
  ASSUME NEW s, StoreOK(s), NEW k
  PROVE  /\ StoreOK(Delete(s, k))
         /\ DOMAIN Delete(s, k) \subseteq DOMAIN s
         /\ \A j \in DOMAIN Delete(s, k) : Delete(s, k)[j] = s[j]
  BY DEF StoreOK, Delete

(* Releasing every expired cooldown. *)
LEMMA ReleaseKeepsStore ==
  ASSUME NEW s, StoreOK(s), NEW t
  PROVE  LET s2 == ReleaseExpiredCooldowns(s, t)
         IN  /\ StoreOK(s2)
             /\ DOMAIN s2 = DOMAIN s
             /\ \A k \in DOMAIN s :
                  /\ s2[k].failures = s[k].failures
                  /\ s2[k].status = "healthy" => s[k].status = "healthy"
  BY DEF StoreOK, ReleaseExpiredCooldowns, Expired, Record, Status, NoDeadline

(* The calls on one key: what is stored afterwards, if the key exists. *)
LEMMA ChangeKeepsStore ==
  ASSUME NEW s, StoreOK(s), NEW k, NEW r, Has(s, k) => r \in Record
  PROVE  /\ StoreOK(Change(s, k, r))
         /\ DOMAIN Change(s, k, r) = DOMAIN s
         /\ Has(s, k) => Change(s, k, r)[k] = r
         /\ \A j \in DOMAIN s : j # k => Change(s, k, r)[j] = s[j]
  BY DEF StoreOK, Put, Change, Has

(* A failure raises the count of one key and changes no status. *)
LEMMA RecordFailureStore ==
  ASSUME NEW s, StoreOK(s), NEW k
  PROVE  LET s2 == RecordFailure(s, k)
         IN  /\ StoreOK(s2)
             /\ DOMAIN s2 = DOMAIN s
             /\ \A j \in DOMAIN s : /\ s2[j].status = s[j].status
                                    /\ j # k => s2[j] = s[j]
<1> DEFINE r == [s[k] EXCEPT !.failures = @ + 1]
<1>1. Has(s, k) => r \in Record /\ r.status = s[k].status
  BY DEF StoreOK, Has, Record
<1> HIDE DEF r
<1>2. RecordFailure(s, k) = Change(s, k, r)
  BY DEF RecordFailure, r
<1>3. QED
  BY <1>1, <1>2, ChangeKeepsStore DEF Has

(* A reset leaves no failures on the key, and no other key changes. *)
LEMMA ResetFailuresStore ==
  ASSUME NEW s, StoreOK(s), NEW k
  PROVE  LET s2 == ResetFailures(s, k)
         IN  /\ StoreOK(s2)
             /\ DOMAIN s2 = DOMAIN s
             /\ k \in DOMAIN s => s2[k].failures = 0
             /\ \A j \in DOMAIN s : j # k => s2[j] = s[j]
<1> DEFINE r == [s[k] EXCEPT !.status   = IF @ = "degraded" THEN "healthy" ELSE @,
                             !.failures = 0,
                             !.until    = NoDeadline]
<1>1. Has(s, k) => r \in Record /\ r.failures = 0
  BY DEF StoreOK, Has, Record, Status, NoDeadline
<1> HIDE DEF r
<1>2. ResetFailures(s, k) = Change(s, k, r)
  BY DEF ResetFailures, r
<1>3. QED
  BY <1>1, <1>2, ChangeKeepsStore DEF Has

(* A cooldown makes the status of one key "cooling_down". *)
LEMMA StartCoolingDownStore ==
  ASSUME NEW s, StoreOK(s), NEW k, NEW t \in Nat
  PROVE  LET s2 == StartCoolingDown(s, k, t)
         IN  /\ StoreOK(s2)
             /\ DOMAIN s2 = DOMAIN s
             /\ k \in DOMAIN s => s2[k].status = "cooling_down"
             /\ \A j \in DOMAIN s : j # k => s2[j] = s[j]
<1> DEFINE r == [s[k] EXCEPT !.status = "cooling_down", !.until = t]
<1>1. Has(s, k) => r \in Record /\ r.status = "cooling_down"
  BY DEF StoreOK, Has, Record, Status
<1> HIDE DEF r
<1>2. StartCoolingDown(s, k, t) = Change(s, k, r)
  BY DEF StartCoolingDown, r
<1>3. QED
  BY <1>1, <1>2, ChangeKeepsStore DEF Has

(* A status is set on one key. *)
LEMMA UpdateStatusStore ==
  ASSUME NEW s, StoreOK(s), NEW k, NEW status \in Status
  PROVE  LET s2 == UpdateStatus(s, k, status)
         IN  /\ StoreOK(s2)
             /\ DOMAIN s2 = DOMAIN s
             /\ k \in DOMAIN s => s2[k].status = status
             /\ \A j \in DOMAIN s : j # k => s2[j] = s[j]
<1> DEFINE r == [s[k] EXCEPT !.status = status,
                             !.until  = IF status = "cooling_down"
                                        THEN @ ELSE NoDeadline]
<1>1. Has(s, k) => r \in Record /\ r.status = status
  BY DEF StoreOK, Has, Record, Status
<1> HIDE DEF r
<1>2. UpdateStatus(s, k, status) = Change(s, k, r)
  BY DEF UpdateStatus, r
<1>3. QED
  BY <1>1, <1>2, ChangeKeepsStore DEF Has

-----------------------------------------------------------------------------
(* Type correctness                                                         *)

(* The windows stay windows when they are read or counted up. *)
LEMMA WindowTypes ==
  ASSUME NEW w \in Window, NEW t \in Nat
  PROVE  /\ CurrentWindow(w, t) \in Window
         /\ [CurrentWindow(w, t) EXCEPT !.count = @ + 1] \in Window
<1>1. WindowStart(t) \in Nat
  BY KeyPoolAssumption DEF WindowStart
<1>2. QED
  BY <1>1 DEF CurrentWindow, Window

(* Counting a request touches the window of its key only.                   *)
LEMMA RecordRequestWindows ==
  ASSUME windows \in [Keys -> Window], now \in Nat, NEW k \in Keys
  PROVE  /\ RecordRequest(k) \in [Keys -> Window]
         /\ \A j \in Keys : j # k \/ Rpm[j] = 0 => RecordRequest(k)[j] = windows[j]
         /\ Rpm[k] # 0 => RecordRequest(k)[k].count = CurrentWindow(windows[k], now).count + 1
<1> DEFINE w == [CurrentWindow(windows[k], now) EXCEPT !.count = @ + 1]
<1>1. w \in Window
  BY WindowTypes
<1>2. w.count = CurrentWindow(windows[k], now).count + 1
  BY WindowTypes DEF Window
<1>3. RecordRequest(k) = IF Rpm[k] = 0 THEN windows ELSE [windows EXCEPT ![k] = w]
  BY DEF RecordRequest
<1> HIDE DEF w
<1>4. QED
  BY <1>1, <1>2, <1>3

(* TypeOK is not inductive by itself: that attempted holds keys only follows *)
(* from a request having chosen a key when it counts it.                    *)
KeyInHand == \A c \in Clients : pc[c] = "charge" => chosen[c] \in Keys

TypeInv == TypeOK /\ KeyInHand

LEMMA TypeInit == Init => TypeInv
  BY KeyPoolAssumption
  DEF Init, TypeInv, KeyInHand, TypeOK, FreshRecord, Record, Status, NoDeadline,
      Window, NoWindow, PC, Verdict, NoVerdict

(* The selection steps of a request. *)
LEMMA TypeSelection ==
  ASSUME TypeInv, NEW c \in Clients, Release(c) \/ Find(c) \/ Pick(c) \/ Charge(c)
  PROVE  TypeInv'
<1> USE DEF TypeInv, KeyInHand, TypeOK, shared, local, Goto
<1>1. CASE Release(c)
  <2>1. StoreOK(store')
    BY <1>1, ReleaseKeepsStore DEF Release, StoreOK
  <2>2. QED
    BY <1>1, <2>1 DEF Release, StoreOK, PC
<1>2. CASE Find(c)
  <2>1. DOMAIN listed' = Clients
    BY <1>2 DEF Find
  <2>2. \A d \in Clients : /\ DOMAIN listed'[d] \subseteq Keys
                           /\ \A k \in DOMAIN listed'[d] : listed'[d][k] \in Status
    BY <1>2 DEF Find, Record
  <2>3. QED
    BY <1>2, <2>1, <2>2 DEF Find, PC
<1>3. CASE Pick(c)
  <2>1. windows' \in [Keys -> Window]
    BY <1>3, WindowTypes DEF Pick
  <2>2. Eligible(c) \subseteq Keys
    BY DEF Eligible
  <2>3. /\ pc' \in [Clients -> PC]
        /\ cursor' \in Nat
        /\ chosen' \in [Clients -> Keys \cup {NoKey}]
        /\ KeyInHand'
    <3>1. CASE Goto(c, "exhausted") /\ UNCHANGED <<cursor, chosen>>
      BY <1>3, <3>1 DEF PC
    <3>2. CASE \E k \in Eligible(c) : /\ chosen' = [chosen EXCEPT ![c] = k]
                                      /\ cursor' = cursor + 1
                                      /\ Goto(c, "charge")
      BY <1>3, <2>2, <3>2 DEF PC
    <3>3. QED
      BY <1>3, <3>1, <3>2 DEF Pick
  <2>4. /\ DOMAIN listed' = Clients
        /\ \A d \in Clients : /\ DOMAIN listed'[d] \subseteq Keys
                              /\ \A k \in DOMAIN listed'[d] : listed'[d][k] \in Status
    BY <1>3 DEF Pick
  <2>5. QED
    BY <1>3, <2>1, <2>3, <2>4 DEF Pick
<1>4. CASE Charge(c)
  <2>1. windows' \in [Keys -> Window]
    <3>1. chosen[c] \in Keys /\ windows' = RecordRequest(chosen[c])
      BY <1>4 DEF Charge
    <3>2. QED
      BY <3>1, RecordRequestWindows
  <2>2. attempted' \in [Clients -> Seq(Keys)]
    BY <1>4 DEF Charge
  <2>3. QED
    BY <1>4, <2>1, <2>2 DEF Charge, PC
<1>5. QED
  BY <1>1, <1>2, <1>3, <1>4

(* The provider's answer and the hooks that follow a success. *)
LEMMA TypeSuccess ==
  ASSUME TypeInv, NEW c \in Clients,
         \/ ProviderSucceeds(c) \/ RecordUsage(c) \/ RecordSuccess(c)
         \/ AnswerSuccess(c)
  PROVE  TypeInv'
<1> USE DEF TypeInv, KeyInHand, TypeOK, shared, local, Goto
<1>1. CASE ProviderSucceeds(c)
  BY <1>1 DEF ProviderSucceeds, PC
<1>2. CASE RecordUsage(c)
  BY <1>2 DEF RecordUsage, PC
<1>3. CASE RecordSuccess(c)
  <2>1. StoreOK(store')
    BY <1>3, ResetFailuresStore DEF RecordSuccess, StoreOK
  <2>2. QED
    BY <1>3, <2>1 DEF RecordSuccess, StoreOK, PC
<1>4. CASE AnswerSuccess(c)
  BY <1>4 DEF AnswerSuccess, Forget, PC
<1>5. QED
  BY <1>1, <1>2, <1>3, <1>4

(* A failed attempt, from the error to the retry or the report. *)
LEMMA TypeFailure ==
  ASSUME TypeInv, NEW c \in Clients,
         \/ ProviderFails(c) \/ LogFailure(c) \/ CountFailure(c) \/ Judge(c)
         \/ FinishFailure(c) \/ Exhausted(c) \/ ReportError(c)
  PROVE  TypeInv'
<1> USE DEF TypeInv, KeyInHand, TypeOK, shared, local, Goto
<1>1. CASE ProviderFails(c)
  <2> DEFINE k == chosen[c]
             n == IF streak[k] = NoCount THEN streak[k] ELSE streak[k] + 1
  <2>0. k \in Keys => n \in Nat \cup {NoCount}
    OBVIOUS
  <2>1. streak' \in [Keys -> Nat \cup {NoCount}]
    <3>1. streak' = [streak EXCEPT ![k] = n]
      BY <1>1 DEF ProviderFails
    <3> HIDE DEF k, n
    <3>2. QED
      BY <2>0, <3>1
  <2> HIDE DEF k, n
  <2>2. QED
    BY <1>1, <2>1 DEF ProviderFails, CatchError, PC
<1>2. CASE LogFailure(c)
  BY <1>2 DEF LogFailure, PC
<1>3. CASE CountFailure(c)
  <2>1. StoreOK(store')
    BY <1>3, RecordFailureStore DEF CountFailure, StoreOK
  <2>2. now + CoolingDown \in Nat
    BY KeyPoolAssumption
  <2>3. verdict' \in [Clients -> Verdict]
    <3>1. PICK next \in {"degraded", "cooling_down"}, changed \in BOOLEAN :
            verdict' \in {verdict,
                         [verdict EXCEPT ![c] = [next    |-> next,
                                                 until   |-> now + CoolingDown,
                                                 changed |-> changed]]}
      BY <1>3 DEF CountFailure
    <3> DEFINE v == [next |-> next, until |-> now + CoolingDown, changed |-> changed]
    <3>2. v \in Verdict
      BY <2>2 DEF Verdict
    <3>3. verdict' \in {verdict, [verdict EXCEPT ![c] = v]}
      BY <3>1
    <3> HIDE DEF v
    <3>4. QED
      BY <3>2, <3>3, ZenonT(30)
  <2>4. Goto(c, "judge") \/ Goto(c, "log_status")
    BY <1>3 DEF CountFailure
  <2>5. UNCHANGED <<windows, cursor, now, excluded, attempted, listed, chosen,
                    lastError, answer, entries, issued, adminOps, streak>>
    BY <1>3 DEF CountFailure
  <2>6. pc' \in [Clients -> PC]
    BY <2>4 DEF PC
  <2>7. KeyInHand'
    BY <2>4, <2>5
  <2>8. QED
    BY <2>1, <2>3, <2>5, <2>6, <2>7 DEF StoreOK
<1>4. CASE Judge(c)
  <2>1. verdict[c] \in Verdict
    OBVIOUS
  <2>2. StoreOK(store')
    <3>1. StoreOK(store) /\ verdict[c].until \in Nat /\ "degraded" \in Status
      BY <2>1 DEF StoreOK, Verdict, Status
    <3>2. \/ store' = StartCoolingDown(store, chosen[c], verdict[c].until)
          \/ store' = UpdateStatus(store, chosen[c], "degraded")
          \/ store' = store
      BY <1>4 DEF Judge
    <3>3. StoreOK(StartCoolingDown(store, chosen[c], verdict[c].until))
      BY <3>1, StartCoolingDownStore
    <3>4. StoreOK(UpdateStatus(store, chosen[c], "degraded"))
      BY <3>1, UpdateStatusStore
    <3>5. QED
      BY <3>1, <3>2, <3>3, <3>4
  <2>3. QED
    BY <1>4, <2>2 DEF Judge, StoreOK, PC
<1>5. CASE FinishFailure(c)
  <2>1. NoVerdict \in Verdict
    BY DEF NoVerdict, Verdict
  <2>2. /\ pc' \in [Clients -> PC]
        /\ answer' \in [Clients -> {"none", "ok", "provider_error", "request_error"}]
        /\ KeyInHand'
    <3>1. CASE Goto(c, "release") /\ UNCHANGED answer
      BY <1>5, <3>1 DEF FinishFailure, PC
    <3>2. CASE Goto(c, "report") /\ answer' = [answer EXCEPT ![c] = "provider_error"]
      BY <1>5, <3>2 DEF FinishFailure, PC
    <3>3. QED
      BY <1>5, <3>1, <3>2 DEF FinishFailure
  <2>3. QED
    BY <1>5, <2>1, <2>2 DEF FinishFailure
<1>6. CASE Exhausted(c)
  BY <1>6 DEF Exhausted, PC
<1>7. CASE ReportError(c)
  BY <1>7 DEF ReportError, Forget, PC
<1>8. QED
  BY <1>1, <1>2, <1>3, <1>4, <1>5, <1>6, <1>7

(* Recorders that throw. *)
LEMMA TypeFaults ==
  ASSUME TypeInv, NEW c \in Clients,
         SuccessHookThrows(c) \/ FailureHookThrows(c) \/ ReportThrows(c)
  PROVE  TypeInv'
<1> USE DEF TypeInv, KeyInHand, TypeOK, shared, local, Goto
<1>1. CASE SuccessHookThrows(c)
  BY <1>1 DEF SuccessHookThrows, CatchError, PC
<1>2. CASE FailureHookThrows(c)
  BY <1>2 DEF FailureHookThrows, NoVerdict, Verdict, PC
<1>3. CASE ReportThrows(c)
  BY <1>3 DEF ReportThrows, Forget, PC
<1>4. QED
  BY <1>1, <1>2, <1>3

(* Requests that arrive, the administrator, and the clock. *)
LEMMA TypeEnvironment ==
  ASSUME TypeInv,
         \/ \E c \in Clients, ex \in CallerExclusions : Submit(c, ex)
         \/ Admin
         \/ Tick
  PROVE  TypeInv'
<1> USE DEF TypeInv, KeyInHand, TypeOK, shared, local, Goto
<1>1. CASE \E c \in Clients, ex \in CallerExclusions : Submit(c, ex)
  BY <1>1, KeyPoolAssumption DEF Submit, PC
<1>2. CASE Admin
  <2>1. PICK k \in Keys : \/ AdminUpsert(k)
                          \/ AdminDelete(k)
                          \/ \E status \in AdminStatuses : AdminSetStatus(k, status)
    BY <1>2 DEF Admin
  <2>2. FreshRecord \in Record
    BY DEF FreshRecord, Record, Status, NoDeadline
  <2>3. AdminStatuses \subseteq Status
    BY KeyPoolAssumption
  <2>4. StoreOK(store') /\ adminOps' \in Nat
    <3>1. StoreOK(store)
      BY DEF StoreOK
    <3>2. CASE AdminUpsert(k)
      <4>1. StoreOK(Put(store, k, FreshRecord))
        BY <2>2, <3>1, PutKeepsStore
      <4>2. QED
        BY <3>2, <4>1 DEF AdminUpsert, AdminOp
    <3>3. CASE AdminDelete(k)
      BY <3>1, <3>3, DeleteKeepsStore DEF AdminDelete, AdminOp
    <3>4. CASE \E status \in AdminStatuses : AdminSetStatus(k, status)
      BY <2>3, <3>1, <3>4, UpdateStatusStore DEF AdminSetStatus, AdminOp
    <3>5. QED
      BY <2>1, <3>2, <3>3, <3>4
  <2>5. UNCHANGED <<windows, cursor, now, local, issued>>
    BY <2>1 DEF AdminUpsert, AdminDelete, AdminSetStatus
  <2>6. streak' \in [Keys -> Nat \cup {NoCount}]
    BY <2>1 DEF AdminUpsert, AdminDelete, AdminSetStatus
  <2>7. QED
    BY <2>4, <2>5, <2>6 DEF StoreOK
<1>3. CASE Tick
  BY <1>3 DEF Tick
<1>4. QED
  BY <1>1, <1>2, <1>3

(* Every step keeps the types. *)
LEMMA TypeNext == TypeInv /\ [Next]_vars => TypeInv'
<1> SUFFICES ASSUME TypeInv, [Next]_vars PROVE TypeInv'
  OBVIOUS
<1>1. CASE \E c \in Clients : Step(c)
  BY <1>1, TypeSelection, TypeSuccess, TypeFailure, TypeFaults DEF Step
<1>2. CASE \/ \E c \in Clients, ex \in CallerExclusions : Submit(c, ex)
           \/ Admin
           \/ Tick
  BY <1>2, TypeEnvironment
<1>3. CASE UNCHANGED vars
  BY <1>3 DEF vars, shared, local, TypeInv, KeyInHand, TypeOK
<1>4. QED
  BY <1>1, <1>2, <1>3 DEF Next

(* Every variable always has its type. *)
THEOREM TypeCorrect == Spec => []TypeOK
<1>1. TypeInv => TypeOK
  BY DEF TypeInv
<1>2. QED
  BY TypeInit, TypeNext, <1>1, PTL DEF Spec

-----------------------------------------------------------------------------
(* The overshoot of a request limit                                         *)

ReserveInv == TypeInv /\ RpmReserve

(* The requests that stand between check and count are clients.             *)
LEMMA ReservingFinite ==
  ASSUME NEW S \in SUBSET Clients
  PROVE  /\ IsFiniteSet(S)
         /\ Cardinality(S) \in Nat
         /\ Cardinality(S) <= Cardinality(Clients)
  BY KeyPoolAssumption, FS_Subset, FS_CardinalityType

(* Reading the window of the current minute never shows more than is stored. *)
LEMMA CurrentWindowBound ==
  ASSUME NEW w \in Window, NEW t \in Nat
  PROVE  /\ CurrentWindow(w, t).count \in Nat
         /\ CurrentWindow(w, t).count <= w.count
  BY WindowTypes DEF CurrentWindow, Window

LEMMA ReserveInit == Init => RpmReserve
<1> SUFFICES ASSUME Init, NEW k \in Keys, Rpm[k] > 0
             PROVE  windows[k].count + Cardinality(Reserving(k))
                      < Rpm[k] + Cardinality(Clients)
  BY DEF RpmReserve
<1>1. Reserving(k) = {}
  BY DEF Reserving, Init
<1>2. Cardinality(Reserving(k)) = 0
  BY <1>1, FS_EmptySet
<1>3. windows[k].count = 0
  BY DEF Init, NoWindow
<1>4. Rpm[k] \in Nat /\ Cardinality(Clients) \in Nat
  BY KeyPoolAssumption, ReservingFinite
<1>5. QED
  BY <1>2, <1>3, <1>4

(* A step that neither changes the windows nor lets a request reserve. *)
NoNewReservation ==
  \A d \in Clients : pc'[d] = "charge" => pc[d] = "charge" /\ chosen'[d] = chosen[d]

LEMMA ReserveFrame ==
  ASSUME ReserveInv, windows' = windows, NoNewReservation
  PROVE  RpmReserve'
<1> SUFFICES ASSUME NEW k \in Keys, Rpm[k] > 0
             PROVE  windows[k].count + Cardinality(Reserving(k)')
                      < Rpm[k] + Cardinality(Clients)
  BY DEF RpmReserve
<1>1. Reserving(k)' \in SUBSET Reserving(k)
  BY DEF Reserving, NoNewReservation
<1>2. Reserving(k) \in SUBSET Clients
  BY DEF Reserving
<1>3. /\ Cardinality(Reserving(k)') \in Nat
      /\ Cardinality(Reserving(k)) \in Nat
      /\ Cardinality(Reserving(k)') <= Cardinality(Reserving(k))
  <2>1. IsFiniteSet(Reserving(k)) /\ Cardinality(Reserving(k)) \in Nat
    BY <1>2, ReservingFinite
  <2>2. Reserving(k)' \in SUBSET Clients
    BY <1>1, <1>2
  <2>3. QED
    BY <1>1, <2>1, <2>2, ReservingFinite, FS_Subset
<1>4. windows[k].count \in Nat /\ Rpm[k] \in Nat /\ Cardinality(Clients) \in Nat
  BY KeyPoolAssumption, ReservingFinite DEF ReserveInv, TypeInv, TypeOK, Window
<1>5. windows[k].count + Cardinality(Reserving(k)) < Rpm[k] + Cardinality(Clients)
  BY DEF ReserveInv, RpmReserve
<1>6. QED
  BY <1>3, <1>4, <1>5

(* A selection: the key it chooses had room, and a check never adds to a    *)
(* window.                                                                  *)
LEMMA ReservePick ==
  ASSUME ReserveInv, NEW c \in Clients, Pick(c)
  PROVE  RpmReserve'
<1> SUFFICES ASSUME NEW k \in Keys, Rpm[k] > 0
             PROVE  windows'[k].count + Cardinality(Reserving(k)')
                      < Rpm[k] + Cardinality(Clients)
  BY DEF RpmReserve
<1>1. /\ windows[k] \in Window
      /\ windows[k].count \in Nat
      /\ now \in Nat
      /\ Rpm[k] \in Nat
      /\ Cardinality(Clients) \in Nat
  BY KeyPoolAssumption, ReservingFinite DEF ReserveInv, TypeInv, TypeOK, Window
<1>2. windows'[k] = IF k \in DOMAIN listed[c] \ Barred(c) /\ Rpm[k] # 0
                    THEN CurrentWindow(windows[k], now) ELSE windows[k]
  BY DEF Pick
<1>3. windows'[k].count \in Nat /\ windows'[k].count <= windows[k].count
  BY <1>1, <1>2, CurrentWindowBound
<1>4. /\ pc \in [Clients -> PC]
      /\ chosen \in [Clients -> Keys \cup {NoKey}]
  BY DEF ReserveInv, TypeInv, TypeOK
<1>5. CASE pc'[c] = "charge" /\ chosen'[c] = k
  <2>1. k \in Eligible(c)
    BY <1>4, <1>5 DEF Pick, Goto
  <2>2. windows'[k].count < Rpm[k]
    BY <1>1, <1>2, <2>1 DEF Eligible, QuotaEligible
  <2>3. Reserving(k)' \in SUBSET Clients
    BY DEF Reserving
  <2>4. QED
    BY <1>1, <1>3, <2>2, <2>3, ReservingFinite
<1>6. CASE ~(pc'[c] = "charge" /\ chosen'[c] = k)
  <2>1. Reserving(k)' \in SUBSET Reserving(k)
    BY <1>4, <1>6 DEF Reserving, Pick, Goto
  <2>2. Reserving(k) \in SUBSET Clients
    BY DEF Reserving
  <2>3. /\ Cardinality(Reserving(k)') \in Nat
        /\ Cardinality(Reserving(k)) \in Nat
        /\ Cardinality(Reserving(k)') <= Cardinality(Reserving(k))
    <3>1. IsFiniteSet(Reserving(k)) /\ Cardinality(Reserving(k)) \in Nat
      BY <2>2, ReservingFinite
    <3>2. Reserving(k)' \in SUBSET Clients
      BY <2>1, <2>2
    <3>3. QED
      BY <2>1, <3>1, <3>2, ReservingFinite, FS_Subset
  <2>4. windows[k].count + Cardinality(Reserving(k)) < Rpm[k] + Cardinality(Clients)
    BY DEF ReserveInv, RpmReserve
  <2>5. QED
    BY <1>1, <1>3, <2>3, <2>4
<1>7. QED
  BY <1>5, <1>6

(* Counting a request turns its reservation into a count. *)
LEMMA ReserveCharge ==
  ASSUME ReserveInv, NEW c \in Clients, Charge(c)
  PROVE  RpmReserve'
<1> SUFFICES ASSUME NEW k \in Keys, Rpm[k] > 0
             PROVE  windows'[k].count + Cardinality(Reserving(k)')
                      < Rpm[k] + Cardinality(Clients)
  BY DEF RpmReserve
<1>1. /\ windows \in [Keys -> Window]
      /\ windows[k].count \in Nat
      /\ now \in Nat
      /\ Rpm[k] \in Nat
      /\ Cardinality(Clients) \in Nat
      /\ pc \in [Clients -> PC]
      /\ chosen[c] \in Keys
      /\ windows' = RecordRequest(chosen[c])
  BY KeyPoolAssumption, ReservingFinite
  DEF ReserveInv, TypeInv, TypeOK, KeyInHand, Window, Charge
<1>2. Reserving(k)' = Reserving(k) \ {c}
  BY <1>1 DEF Reserving, Charge, Goto
<1>3. IsFiniteSet(Reserving(k)) /\ Cardinality(Reserving(k)) \in Nat
  BY ReservingFinite DEF Reserving
<1>4. windows[k].count + Cardinality(Reserving(k)) < Rpm[k] + Cardinality(Clients)
  BY DEF ReserveInv, RpmReserve
<1>5. Cardinality(Reserving(k)') =
        IF c \in Reserving(k) THEN Cardinality(Reserving(k)) - 1
                              ELSE Cardinality(Reserving(k))
  BY <1>2, <1>3, FS_RemoveElement
<1>6. CASE chosen[c] = k
  <2>1. c \in Reserving(k)
    BY <1>6 DEF Reserving, Charge
  <2>2. windows'[k].count = CurrentWindow(windows[k], now).count + 1
    BY <1>1, <1>6, RecordRequestWindows
  <2>3. /\ CurrentWindow(windows[k], now).count \in Nat
        /\ CurrentWindow(windows[k], now).count <= windows[k].count
    BY <1>1, CurrentWindowBound
  <2>4. QED
    BY <1>1, <1>3, <1>4, <1>5, <2>1, <2>2, <2>3
<1>7. CASE chosen[c] # k
  <2>1. windows'[k] = windows[k]
    BY <1>1, <1>7, RecordRequestWindows
  <2>2. c \notin Reserving(k)
    BY <1>7 DEF Reserving
  <2>3. QED
    BY <1>4, <1>5, <2>1, <2>2
<1>8. QED
  BY <1>6, <1>7

LEMMA ReserveNext == ReserveInv /\ [Next]_vars => RpmReserve'
<1> SUFFICES ASSUME ReserveInv, [Next]_vars PROVE RpmReserve'
  OBVIOUS
<1>1. CASE \E c \in Clients : Pick(c) \/ Charge(c)
  BY <1>1, ReservePick, ReserveCharge
<1>2. CASE windows' = windows /\ NoNewReservation
  BY <1>2, ReserveFrame
<1>3. (~ \E c \in Clients : Pick(c) \/ Charge(c))
        => windows' = windows /\ NoNewReservation
  <2> SUFFICES ASSUME ~ \E c \in Clients : Pick(c) \/ Charge(c)
               PROVE  windows' = windows /\ NoNewReservation
    OBVIOUS
  <2> USE DEF NoNewReservation, shared, local, Goto
  <2>0. pc \in [Clients -> PC] /\ chosen \in [Clients -> Keys \cup {NoKey}]
    BY DEF ReserveInv, TypeInv, TypeOK
  <2>1. ASSUME NEW c \in Clients,
               Release(c) \/ Find(c) \/ ProviderSucceeds(c) \/ ProviderFails(c)
        PROVE  windows' = windows /\ NoNewReservation
    BY <2>0, <2>1 DEF Release, Find, ProviderSucceeds, ProviderFails, CatchError
  <2>2. ASSUME NEW c \in Clients,
               RecordUsage(c) \/ RecordSuccess(c) \/ AnswerSuccess(c)
        PROVE  windows' = windows /\ NoNewReservation
    BY <2>0, <2>2 DEF RecordUsage, RecordSuccess, AnswerSuccess, Forget
  <2>3. ASSUME NEW c \in Clients, LogFailure(c) \/ CountFailure(c) \/ Judge(c)
        PROVE  windows' = windows /\ NoNewReservation
    BY <2>0, <2>3 DEF LogFailure, CountFailure, Judge
  <2>4. ASSUME NEW c \in Clients,
               FinishFailure(c) \/ Exhausted(c) \/ ReportError(c)
        PROVE  windows' = windows /\ NoNewReservation
    BY <2>0, <2>4 DEF FinishFailure, Exhausted, ReportError, Forget
  <2>5. ASSUME NEW c \in Clients,
               SuccessHookThrows(c) \/ FailureHookThrows(c) \/ ReportThrows(c)
        PROVE  windows' = windows /\ NoNewReservation
    BY <2>0, <2>5
    DEF SuccessHookThrows, CatchError, FailureHookThrows, ReportThrows, Forget
  <2>6. ASSUME NEW c \in Clients, NEW ex \in CallerExclusions, Submit(c, ex)
        PROVE  windows' = windows /\ NoNewReservation
    BY <2>0, <2>6 DEF Submit
  <2>7. CASE Admin \/ Tick \/ UNCHANGED vars
    BY <2>7 DEF Admin, AdminUpsert, AdminDelete, AdminSetStatus, Tick, vars
  <2>8. QED
    BY <2>1, <2>2, <2>3, <2>4, <2>5, <2>6, <2>7 DEF Next, Step
<1>4. QED
  BY <1>1, <1>2, <1>3

(* RpmReserve for every instance (scheduler.ts:29-40): whatever overlaps,   *)
(* the requests between check and count of a key's limit, and those counted *)
(* in its window, together exceed the limit by less than the number of      *)
(* clients.                                                                 *)
THEOREM ReserveHolds == Spec => []RpmReserve
  BY TypeInit, TypeNext, ReserveInit, ReserveNext, PTL DEF Spec, ReserveInv

(* The requests counted against a limit in one minute never exceed it by    *)
(* more than the number of clients less one.                                *)
THEOREM RpmBound == Spec => []RpmOvershootBounded
<1>1. ReserveInv => RpmOvershootBounded
  <2> SUFFICES ASSUME ReserveInv, NEW k \in Keys, Rpm[k] > 0
               PROVE  windows[k].count < Rpm[k] + Cardinality(Clients)
    BY DEF RpmOvershootBounded
  <2>1. windows[k].count + Cardinality(Reserving(k)) < Rpm[k] + Cardinality(Clients)
    BY DEF ReserveInv, RpmReserve
  <2>2. /\ Cardinality(Reserving(k)) \in Nat
        /\ windows[k].count \in Nat
        /\ Rpm[k] \in Nat
        /\ Cardinality(Clients) \in Nat
    BY KeyPoolAssumption, ReservingFinite
    DEF Reserving, ReserveInv, TypeInv, TypeOK, Window
  <2>3. QED
    BY <2>1, <2>2
<1>2. QED
  BY TypeInit, TypeNext, ReserveInit, ReserveNext, <1>1, PTL DEF Spec, ReserveInv

-----------------------------------------------------------------------------
(* The health of keys                                                       *)

HealthInv == TypeInv /\ HealthyMeansNoFailures

(* The step takes no request out of the gap between count and status ...    *)
KeepsJudging ==
  \A d \in Clients :
    pc[d] = "judge" => /\ pc'[d] = "judge"
                       /\ chosen'[d] = chosen[d]
                       /\ verdict'[d] = verdict[d]

(* ... and makes no key with failures healthy.                              *)
NoNewFalseHealth ==
  \A k \in DOMAIN store' :
    store'[k].status = "healthy" /\ store'[k].failures > 0 =>
      /\ k \in DOMAIN store
      /\ store[k].status = "healthy"
      /\ store[k].failures > 0

LEMMA HealthFrame ==
  ASSUME HealthyMeansNoFailures, KeepsJudging, NoNewFalseHealth
  PROVE  HealthyMeansNoFailures'
  BY DEF HealthyMeansNoFailures, KeepsJudging, NoNewFalseHealth

LEMMA HealthInit == Init => HealthyMeansNoFailures
  BY DEF Init, HealthyMeansNoFailures, FreshRecord

(* Releases, recoveries and the console.                                    *)
LEMMA HealthStoreSteps ==
  ASSUME HealthInv, "healthy" \notin AdminStatuses,
         \/ \E c \in Clients : Release(c) \/ RecordSuccess(c)
         \/ Admin
  PROVE  HealthyMeansNoFailures'
<1> USE DEF shared, local, Goto
<1>0. /\ StoreOK(store)
      /\ pc \in [Clients -> PC]
  BY DEF HealthInv, TypeInv, TypeOK, StoreOK
<1>1. ASSUME NEW c \in Clients, Release(c)
      PROVE  KeepsJudging /\ NoNewFalseHealth
  <2>1. KeepsJudging
    BY <1>0, <1>1 DEF Release, KeepsJudging
  <2>2. store' = ReleaseExpiredCooldowns(store, now)
    BY <1>1 DEF Release
  <2>3. QED
    BY <1>0, <2>1, <2>2, ReleaseKeepsStore DEF NoNewFalseHealth
<1>2. ASSUME NEW c \in Clients, RecordSuccess(c)
      PROVE  KeepsJudging /\ NoNewFalseHealth
  <2>1. KeepsJudging
    BY <1>0, <1>2 DEF RecordSuccess, KeepsJudging
  <2>2. store' = ResetFailures(store, chosen[c])
    BY <1>2 DEF RecordSuccess
  <2>3. QED
    <3>1. /\ DOMAIN store' = DOMAIN store
          /\ chosen[c] \in DOMAIN store => store'[chosen[c]].failures = 0
          /\ \A j \in DOMAIN store : j # chosen[c] => store'[j] = store[j]
      BY <1>0, <2>2, ResetFailuresStore
    <3>2. NoNewFalseHealth
      BY <3>1 DEF NoNewFalseHealth
    <3>3. QED
      BY <2>1, <3>2
<1>3. ASSUME Admin
      PROVE  KeepsJudging /\ NoNewFalseHealth
  <2>1. PICK k \in Keys : \/ AdminUpsert(k)
                          \/ AdminDelete(k)
                          \/ \E status \in AdminStatuses : AdminSetStatus(k, status)
    BY <1>3 DEF Admin
  <2>2. KeepsJudging
    BY <2>1 DEF AdminUpsert, AdminDelete, AdminSetStatus, KeepsJudging
  <2>3. CASE AdminUpsert(k)
    <3>1. FreshRecord \in Record /\ FreshRecord.failures = 0
      BY DEF FreshRecord, Record, Status, NoDeadline
    <3>2. store' = Put(store, k, FreshRecord)
      BY <2>3 DEF AdminUpsert
    <3>3. /\ DOMAIN store' = DOMAIN store \cup {k}
          /\ store'[k] = FreshRecord
          /\ \A j \in DOMAIN store : j # k => store'[j] = store[j]
      BY <1>0, <3>1, <3>2, PutKeepsStore
    <3>4. NoNewFalseHealth
      BY <3>1, <3>3 DEF NoNewFalseHealth
    <3>5. QED
      BY <2>2, <3>4
  <2>4. CASE AdminDelete(k)
    <3>1. store' = Delete(store, k)
      BY <2>4 DEF AdminDelete
    <3>2. NoNewFalseHealth
      BY <1>0, <3>1, DeleteKeepsStore DEF NoNewFalseHealth
    <3>3. QED
      BY <2>2, <3>2
  <2>5. CASE \E status \in AdminStatuses : AdminSetStatus(k, status)
    <3>1. PICK status \in AdminStatuses : AdminSetStatus(k, status)
      BY <2>5
    <3>2. status \in Status /\ status # "healthy"
      BY <3>1, KeyPoolAssumption
    <3>3. store' = UpdateStatus(store, k, status)
      BY <3>1 DEF AdminSetStatus
    <3>4. NoNewFalseHealth
      BY <1>0, <3>2, <3>3, UpdateStatusStore DEF NoNewFalseHealth
    <3>5. QED
      BY <2>2, <3>4
  <2>6. QED
    BY <2>1, <2>3, <2>4, <2>5
<1>4. QED
  BY <1>1, <1>2, <1>3, HealthFrame DEF HealthInv

(* Counting a failure on a healthy key opens the gap.                       *)
LEMMA HealthCountFailure ==
  ASSUME HealthInv, NEW c \in Clients, CountFailure(c)
  PROVE  HealthyMeansNoFailures'
<1> SUFFICES ASSUME NEW k \in DOMAIN store',
                    store'[k].status = "healthy", store'[k].failures > 0
             PROVE  \E d \in Clients : /\ pc'[d] = "judge"
                                       /\ chosen'[d] = k
                                       /\ verdict'[d].changed
  BY DEF HealthyMeansNoFailures
<1>1. /\ StoreOK(store)
      /\ pc \in [Clients -> PC]
      /\ verdict \in [Clients -> Verdict]
      /\ chosen' = chosen
      /\ store' = RecordFailure(store, chosen[c])
  BY DEF HealthInv, TypeInv, TypeOK, StoreOK, CountFailure
<1>2. /\ k \in DOMAIN store
      /\ store[k].status = "healthy"
      /\ k # chosen[c] => store'[k] = store[k]
  BY <1>1, RecordFailureStore
<1>3. CASE k = chosen[c]
  <2>1. Has(store, chosen[c])
    BY <1>2, <1>3 DEF Has
  <2>2. pc'[c] = "judge"
    BY <1>1, <2>1 DEF CountFailure, Goto
  <2>3. PICK next \in {"degraded", "cooling_down"} :
          verdict'[c].changed = (store[chosen[c]].status # next)
    BY <1>1, <2>1 DEF CountFailure
  <2>4. store[chosen[c]].status # next
    BY <1>2, <1>3
  <2>5. verdict'[c].changed
    BY <2>3, <2>4
  <2>6. QED
    BY <1>1, <1>3, <2>2, <2>5
<1>4. CASE k # chosen[c]
  <2>1. store[k].failures > 0
    BY <1>2, <1>4
  <2>2. PICK d \in Clients : pc[d] = "judge" /\ chosen[d] = k /\ verdict[d].changed
    BY <1>2, <2>1 DEF HealthInv, HealthyMeansNoFailures
  <2>3. d # c
    BY <2>2 DEF CountFailure
  <2>4. pc'[d] = pc[d] /\ verdict'[d] = verdict[d]
    BY <1>1, <2>3 DEF CountFailure, Goto
  <2>5. QED
    BY <1>1, <2>2, <2>4
<1>5. QED
  BY <1>3, <1>4

(* Applying the decision closes it: the key is not healthy any more.        *)
LEMMA HealthJudge ==
  ASSUME HealthInv, NEW c \in Clients, Judge(c)
  PROVE  HealthyMeansNoFailures'
<1> SUFFICES ASSUME NEW k \in DOMAIN store',
                    store'[k].status = "healthy", store'[k].failures > 0
             PROVE  \E d \in Clients : /\ pc'[d] = "judge"
                                       /\ chosen'[d] = k
                                       /\ verdict'[d].changed
  BY DEF HealthyMeansNoFailures
<1>1. /\ StoreOK(store)
      /\ pc \in [Clients -> PC]
      /\ verdict[c] \in Verdict
      /\ verdict[c].until \in Nat
      /\ "degraded" \in Status
      /\ chosen' = chosen
      /\ verdict' = verdict
  BY DEF HealthInv, TypeInv, TypeOK, StoreOK, Judge, Verdict, Status
<1>2. \/ store' = StartCoolingDown(store, chosen[c], verdict[c].until)
      \/ store' = UpdateStatus(store, chosen[c], "degraded")
      \/ store' = store /\ ~verdict[c].changed
  BY <1>1 DEF Judge, Verdict
<1>3. /\ k \in DOMAIN store
      /\ store'[k] = store[k]
      /\ k = chosen[c] => ~verdict[c].changed
  <2>1. CASE store' = StartCoolingDown(store, chosen[c], verdict[c].until)
    BY <1>1, <2>1, StartCoolingDownStore
  <2>2. CASE store' = UpdateStatus(store, chosen[c], "degraded")
    BY <1>1, <2>2, UpdateStatusStore
  <2>3. QED
    BY <1>2, <2>1, <2>2
<1>4. PICK d \in Clients : pc[d] = "judge" /\ chosen[d] = k /\ verdict[d].changed
  BY <1>3 DEF HealthInv, HealthyMeansNoFailures
<1>5. d # c
  BY <1>3, <1>4
<1>6. pc'[d] = pc[d]
  BY <1>1, <1>5 DEF Judge, Goto
<1>7. QED
  BY <1>1, <1>4, <1>6

LEMMA HealthNext ==
  ASSUME "healthy" \notin AdminStatuses
  PROVE  HealthInv /\ [Next]_vars => HealthyMeansNoFailures'
<1> SUFFICES ASSUME HealthInv, [Next]_vars PROVE HealthyMeansNoFailures'
  OBVIOUS
<1>1. CASE \/ \E c \in Clients : Release(c) \/ RecordSuccess(c)
           \/ Admin
  BY <1>1, HealthStoreSteps
<1>2. CASE \E c \in Clients : CountFailure(c) \/ Judge(c)
  BY <1>2, HealthCountFailure, HealthJudge
<1>3. CASE store' = store /\ KeepsJudging
  BY <1>3, HealthFrame DEF NoNewFalseHealth, HealthInv
<1>4. ASSUME ~ \E c \in Clients : Release(c) \/ RecordSuccess(c),
             ~ \E c \in Clients : CountFailure(c) \/ Judge(c),
             ~ Admin
      PROVE  store' = store /\ KeepsJudging
  <2> USE DEF KeepsJudging, shared, local, Goto
  <2>0. /\ pc \in [Clients -> PC]
        /\ chosen \in [Clients -> Keys \cup {NoKey}]
        /\ verdict \in [Clients -> Verdict]
    BY DEF HealthInv, TypeInv, TypeOK
  <2>1. ASSUME NEW c \in Clients,
               Find(c) \/ Pick(c) \/ Charge(c) \/ ProviderSucceeds(c) \/ ProviderFails(c)
        PROVE  store' = store /\ KeepsJudging
    BY <2>0, <2>1
    DEF Find, Pick, Charge, ProviderSucceeds, ProviderFails, CatchError
  <2>2. ASSUME NEW c \in Clients, RecordUsage(c) \/ AnswerSuccess(c) \/ LogFailure(c)
        PROVE  store' = store /\ KeepsJudging
    BY <2>0, <2>2 DEF RecordUsage, AnswerSuccess, LogFailure, Forget
  <2>3. ASSUME NEW c \in Clients,
               FinishFailure(c) \/ Exhausted(c) \/ ReportError(c)
        PROVE  store' = store /\ KeepsJudging
    BY <2>0, <2>3 DEF FinishFailure, Exhausted, ReportError, Forget
  <2>4. ASSUME NEW c \in Clients,
               SuccessHookThrows(c) \/ FailureHookThrows(c) \/ ReportThrows(c)
        PROVE  store' = store /\ KeepsJudging
    BY <2>0, <2>4
    DEF SuccessHookThrows, CatchError, FailureHookThrows, ReportThrows, Forget
  <2>5. ASSUME NEW c \in Clients, NEW ex \in CallerExclusions, Submit(c, ex)
        PROVE  store' = store /\ KeepsJudging
    BY <2>0, <2>5 DEF Submit
  <2>6. CASE Tick \/ UNCHANGED vars
    BY <2>6 DEF Tick, vars
  <2>7. QED
    BY <1>4, <2>1, <2>2, <2>3, <2>4, <2>5, <2>6 DEF Next, Step
<1>5. QED
  BY <1>1, <1>2, <1>3, <1>4

(* Unless the administrator declares keys healthy himself, no key with      *)
(* failures passes for healthy outside the gap between the two steps of the *)
(* health service.                                                          *)
THEOREM HealthHonest ==
  ASSUME "healthy" \notin AdminStatuses
  PROVE  Spec => []HealthyMeansNoFailures
BY TypeInit, TypeNext, HealthInit, HealthNext, PTL DEF Spec, HealthInv


-----------------------------------------------------------------------------
(* The health policy, for requests that do not overlap                      *)

(* A record between requests: its status is the one its failures call for,  *)
(* and it has a deadline exactly while it cools.                            *)
Settled(r) ==
  /\ r.status = "healthy" <=> r.failures = 0
  /\ r.failures \in 1 .. Threshold - 1 => r.status = "degraded"
  /\ r.status = "cooling_down" <=> r.until # NoDeadline

\* From being chosen until its failure is counted.
InFlight == {"charge", "sending", "succeeded", "recover", "log_success",
             "log_failure", "count_failure"}

Usable(k) == Has(store, k) /\ store[k].status \in {"healthy", "degraded"}

\* A failure is counted and the decision about it is still the right one.
Pending(c) ==
  LET r == store[chosen[c]]
  IN  /\ Usable(chosen[c])
      /\ r.failures > 0
      /\ r.until = NoDeadline
      /\ verdict[c].next = IF r.failures >= Threshold THEN "cooling_down"
                                                      ELSE "degraded"
      /\ verdict[c].changed <=> r.status # verdict[c].next

(* What a lone request knows of its key stays true until it acts on it: the *)
(* snapshot it selects from is current, the key it chose stays selectable   *)
(* until the failure is counted, and every record other than the one under  *)
(* judgement is settled.                                                    *)
SnapshotCurrent ==
  \A c \in Clients :
    pc[c] = "pick" => listed[c] = [k \in DOMAIN store |-> store[k].status]
ChosenUsable == \A c \in Clients : pc[c] \in InFlight => Usable(chosen[c])
JudgementPending == \A c \in Clients : pc[c] = "judge" => Pending(c)
OthersSettled ==
  \A k \in DOMAIN store :
    Settled(store[k]) \/ \E c \in Clients : pc[c] = "judge" /\ chosen[c] = k

\* Between the provider's answer and the health service's count of it.
Uncounted == {"log_failure", "count_failure"}
Unreset   == {"succeeded", "recover"}

Stands(r) == r.status = IF r.failures >= Threshold THEN "cooling_down" ELSE "degraded"

(* A judgement has been applied to the key it is about; and a record has    *)
(* the failures its key had in a row, but for the answer under way.         *)
JudgementStands ==
  \A c \in Clients : pc[c] = "log_status" =>
    Has(store, chosen[c]) /\ Stands(store[chosen[c]])
CountKept ==
  \A k \in DOMAIN store : streak[k] # NoCount =>
    \/ /\ store[k].failures = streak[k]
       /\ \A c \in Clients : chosen[c] = k => pc[c] \notin Uncounted \cup Unreset
    \/ /\ store[k].failures + 1 = streak[k]
       /\ \E c \in Clients : chosen[c] = k /\ pc[c] \in Uncounted
    \/ /\ streak[k] = 0
       /\ \E c \in Clients : chosen[c] = k /\ pc[c] \in Unreset

PolicyInv == /\ TypeInv /\ SnapshotCurrent /\ ChosenUsable /\ JudgementPending
             /\ OthersSettled /\ JudgementStands /\ CountKept

(* What the repository calls leave in the record they are about.            *)
LEMMA CountedRecord ==
  ASSUME NEW s, StoreOK(s), NEW k \in DOMAIN s
  PROVE  LET r == RecordFailure(s, k)[k]
         IN  /\ r.failures = s[k].failures + 1
             /\ r.status = s[k].status
             /\ r.until = s[k].until
  BY DEF StoreOK, RecordFailure, Change, Has, Put, Record

LEMMA ResetRecord ==
  ASSUME NEW s, StoreOK(s), NEW k \in DOMAIN s
  PROVE  LET r == ResetFailures(s, k)[k]
         IN  /\ r.failures = 0
             /\ r.status = IF s[k].status = "degraded" THEN "healthy"
                                                       ELSE s[k].status
             /\ r.until = NoDeadline
  BY DEF StoreOK, ResetFailures, Change, Has, Put, Record

LEMMA CooledRecord ==
  ASSUME NEW s, StoreOK(s), NEW k \in DOMAIN s, NEW t \in Nat
  PROVE  LET r == StartCoolingDown(s, k, t)[k]
         IN  /\ r.failures = s[k].failures
             /\ r.status = "cooling_down"
             /\ r.until = t
  BY DEF StoreOK, StartCoolingDown, Change, Has, Put, Record

LEMMA DegradedRecord ==
  ASSUME NEW s, StoreOK(s), NEW k \in DOMAIN s
  PROVE  LET r == UpdateStatus(s, k, "degraded")[k]
         IN  /\ r.failures = s[k].failures
             /\ r.status = "degraded"
             /\ r.until = NoDeadline
  BY DEF StoreOK, UpdateStatus, Change, Has, Put, Record

(* A released key stays settled: it is degraded, and its failures stand.    *)
LEMMA ReleaseSettles ==
  ASSUME NEW s, StoreOK(s), NEW t, NEW k \in DOMAIN s, Settled(s[k])
  PROVE  Settled(ReleaseExpiredCooldowns(s, t)[k])
  BY DEF StoreOK, ReleaseExpiredCooldowns, Expired, Settled, Record, Status, NoDeadline

LEMMA PolicyInit == Init => PolicyInv
<1> SUFFICES ASSUME Init PROVE PolicyInv
  OBVIOUS
<1>1. TypeInv
  BY TypeInit
<1>2. \A k \in DOMAIN store : Settled(store[k])
  <2>1. Settled(FreshRecord)
    BY KeyPoolAssumption DEF Settled, FreshRecord
  <2>2. QED
    BY <2>1 DEF Init
<1>3. SnapshotCurrent /\ ChosenUsable /\ JudgementPending /\ OthersSettled
  BY <1>1, <1>2
  DEF Init, SnapshotCurrent, ChosenUsable, JudgementPending, OthersSettled, InFlight
<1>4. JudgementStands
  BY DEF Init, JudgementStands
<1>5. CountKept
  BY KeyPoolAssumption DEF Init, CountKept, FreshRecord, Uncounted, Unreset
<1>6. QED
  BY <1>1, <1>3, <1>4, <1>5 DEF PolicyInv

(* A step that changes no record, opens or closes no judgement, and after   *)
(* which the request still holds the key it held, keeps the invariant.      *)
LEMMA PolicyFrame ==
  ASSUME NEW c, Clients = {c}, PolicyInv, store' = store,
         pc[c] # "judge", pc'[c] \notin {"judge", "pick"},
         pc'[c] \in InFlight => pc[c] \in InFlight /\ chosen' = chosen
  PROVE  SnapshotCurrent' /\ ChosenUsable' /\ JudgementPending' /\ OthersSettled'
  BY DEF PolicyInv, SnapshotCurrent, ChosenUsable, JudgementPending,
         OthersSettled, Usable

(* Releasing, listing and choosing: the three steps of a selection.         *)
LEMMA PolicySelection ==
  ASSUME NEW c, Clients = {c}, PolicyInv, Release(c) \/ Find(c) \/ Pick(c)
  PROVE  SnapshotCurrent' /\ ChosenUsable' /\ JudgementPending' /\ OthersSettled'
<1>0. /\ StoreOK(store)
      /\ pc \in [Clients -> PC]
      /\ chosen \in [Clients -> Keys \cup {NoKey}]
      /\ DOMAIN listed = Clients
  BY DEF PolicyInv, TypeInv, TypeOK, StoreOK
<1>1. CASE Release(c)
  <2>1. \A k \in DOMAIN store : Settled(store[k])
    BY <1>1 DEF PolicyInv, OthersSettled, Release
  <2>2. pc'[c] = "find" /\ store' = ReleaseExpiredCooldowns(store, now)
    BY <1>0, <1>1 DEF Release, Goto
  <2>3. \A k \in DOMAIN store' : Settled(store'[k])
    BY <1>0, <2>1, <2>2, ReleaseKeepsStore, ReleaseSettles
  <2>4. QED
    BY <2>2, <2>3
    DEF SnapshotCurrent, ChosenUsable, JudgementPending, OthersSettled, InFlight
<1>2. CASE Find(c)
  <2>1. \A k \in DOMAIN store : Settled(store[k])
    BY <1>2 DEF PolicyInv, OthersSettled, Find
  <2>2. /\ pc'[c] = "pick"
        /\ store' = store
        /\ listed'[c] = [k \in DOMAIN store |-> store[k].status]
    BY <1>0, <1>2 DEF Find, Goto, shared
  <2>3. QED
    BY <2>1, <2>2
    DEF SnapshotCurrent, ChosenUsable, JudgementPending, OthersSettled, InFlight
<1>3. CASE Pick(c)
  <2>1. /\ store' = store
        /\ pc[c] = "pick"
        /\ listed[c] = [k \in DOMAIN store |-> store[k].status]
    BY <1>3 DEF Pick, PolicyInv, SnapshotCurrent
  <2>2. \A k \in DOMAIN store : Settled(store[k])
    BY <2>1 DEF PolicyInv, OthersSettled
  <2>3. \/ pc'[c] = "exhausted"
        \/ pc'[c] = "charge" /\ chosen'[c] \in Eligible(c)
    BY <1>0, <1>3 DEF Pick, Goto
  <2>4. \A k \in Eligible(c) : k \in DOMAIN store /\ store[k].status \in {"healthy", "degraded"}
    BY <1>0, <2>1 DEF Eligible, StoreOK, Record, Status
  <2>5. QED
    BY <2>1, <2>2, <2>3, <2>4
    DEF SnapshotCurrent, ChosenUsable, JudgementPending, OthersSettled,
        InFlight, Usable, Has
<1>4. QED
  BY <1>1, <1>2, <1>3

(* A success settles the key it was served by.                              *)
LEMMA PolicySuccess ==
  ASSUME NEW c, Clients = {c}, PolicyInv, RecordSuccess(c)
  PROVE  SnapshotCurrent' /\ ChosenUsable' /\ JudgementPending' /\ OthersSettled'
<1> DEFINE k == chosen[c]
<1>1. /\ StoreOK(store)
      /\ pc'[c] = "log_success"
      /\ chosen' = chosen
      /\ store' = ResetFailures(store, k)
      /\ pc[c] = "recover"
  BY DEF PolicyInv, TypeInv, TypeOK, StoreOK, RecordSuccess, Goto
<1>2. k \in DOMAIN store /\ store[k].status \in {"healthy", "degraded"}
  BY <1>1 DEF PolicyInv, ChosenUsable, InFlight, Usable, Has
<1> HIDE DEF k
<1>3. /\ DOMAIN store' = DOMAIN store
      /\ \A j \in DOMAIN store : j # k => store'[j] = store[j]
      /\ store'[k].failures = 0
      /\ store'[k].status = "healthy"
      /\ store'[k].until = NoDeadline
  BY <1>1, <1>2, ResetFailuresStore, ResetRecord
<1>4. Settled(store'[k])
  BY <1>3, KeyPoolAssumption DEF Settled
<1>5. \A j \in DOMAIN store : Settled(store[j])
  BY <1>1 DEF PolicyInv, OthersSettled
<1>6. \A j \in DOMAIN store' : Settled(store'[j])
  BY <1>3, <1>4, <1>5
<1>7. Usable(k)'
  BY <1>1, <1>2, <1>3 DEF Usable, Has, k
<1>8. QED
  BY <1>1, <1>6, <1>7
  DEF SnapshotCurrent, ChosenUsable, JudgementPending, OthersSettled, k

(* Counting a failure opens a judgement that fits the record it is about.   *)
LEMMA PolicyCount ==
  ASSUME NEW c, Clients = {c}, PolicyInv, CountFailure(c)
  PROVE  SnapshotCurrent' /\ ChosenUsable' /\ JudgementPending' /\ OthersSettled'
<1> DEFINE k == chosen[c]
           next == IF store[k].failures + 1 >= Threshold THEN "cooling_down"
                                                         ELSE "degraded"
<1>1. /\ StoreOK(store)
      /\ chosen' = chosen
      /\ store' = RecordFailure(store, k)
      /\ pc[c] = "count_failure"
  BY DEF PolicyInv, TypeInv, TypeOK, StoreOK, CountFailure
<1>2. k \in DOMAIN store /\ store[k].status \in {"healthy", "degraded"}
  BY <1>1 DEF PolicyInv, ChosenUsable, InFlight, Usable, Has
<1>3. /\ pc'[c] = "judge"
      /\ verdict'[c].next = next
      /\ verdict'[c].changed = (store[k].status # next)
  BY <1>2 DEF PolicyInv, TypeInv, TypeOK, CountFailure, Goto, Has
<1>4. /\ DOMAIN store' = DOMAIN store
      /\ \A j \in DOMAIN store : j # k => store'[j] = store[j]
      /\ store'[k].failures = store[k].failures + 1
      /\ store'[k].status = store[k].status
      /\ store'[k].until = store[k].until
  BY <1>1, <1>2, RecordFailureStore, CountedRecord
<1>5. \A j \in DOMAIN store : Settled(store[j])
  BY <1>1 DEF PolicyInv, OthersSettled
<1>6. store[k].failures \in Nat /\ store[k].until = NoDeadline
  BY <1>1, <1>2, <1>5 DEF StoreOK, Record, Settled
<1>7. /\ store'[k].failures > 0
      /\ next = IF store'[k].failures >= Threshold THEN "cooling_down" ELSE "degraded"
  BY <1>4, <1>6
<1> HIDE DEF next
<1>8. Pending(c)'
  BY <1>1, <1>2, <1>3, <1>4, <1>6, <1>7 DEF Pending, Usable, Has
<1>9. \A j \in DOMAIN store' : j = k \/ Settled(store'[j])
  BY <1>4, <1>5
<1>10. QED
  BY <1>1, <1>3, <1>8, <1>9
  DEF SnapshotCurrent, ChosenUsable, JudgementPending, OthersSettled, InFlight

(* Applying the judgement settles the key.                                  *)
LEMMA PolicyJudge ==
  ASSUME NEW c, Clients = {c}, PolicyInv, Judge(c)
  PROVE  SnapshotCurrent' /\ ChosenUsable' /\ JudgementPending' /\ OthersSettled'
<1> DEFINE k == chosen[c]
<1>1. /\ StoreOK(store)
      /\ verdict[c] \in Verdict
      /\ chosen' = chosen
      /\ pc'[c] = "log_status"
      /\ pc[c] = "judge"
  BY DEF PolicyInv, TypeInv, TypeOK, StoreOK, Judge, Goto
<1>2. /\ k \in DOMAIN store
      /\ store[k].status \in {"healthy", "degraded"}
      /\ store[k].failures > 0
      /\ store[k].until = NoDeadline
      /\ verdict[c].next = IF store[k].failures >= Threshold
                           THEN "cooling_down" ELSE "degraded"
      /\ verdict[c].changed <=> store[k].status # verdict[c].next
  BY <1>1 DEF PolicyInv, JudgementPending, Pending, Usable, Has
<1>3. store[k].failures \in Nat /\ verdict[c].until \in Nat
  BY <1>1, <1>2 DEF StoreOK, Record, Verdict
<1>4. \/ /\ store[k].failures >= Threshold
         /\ store' = StartCoolingDown(store, k, verdict[c].until)
      \/ /\ store[k].failures < Threshold
         /\ store' = UpdateStatus(store, k, "degraded")
      \/ /\ store[k].failures < Threshold
         /\ store[k].status = "degraded"
         /\ store' = store
  BY <1>2, <1>3, KeyPoolAssumption DEF Judge
<1>5. \A j \in DOMAIN store : j # k => Settled(store[j])
  BY <1>1 DEF PolicyInv, OthersSettled
<1> HIDE DEF k
<1>6. /\ DOMAIN store' = DOMAIN store
      /\ \A j \in DOMAIN store : j # k => store'[j] = store[j]
  <2>1. CASE store' = StartCoolingDown(store, k, verdict[c].until)
    BY <1>1, <1>3, <2>1, StartCoolingDownStore
  <2>2. CASE store' = UpdateStatus(store, k, "degraded")
    BY <1>1, <2>2, UpdateStatusStore DEF Status
  <2>3. QED
    BY <1>4, <2>1, <2>2
<1>7. Settled(store'[k])
  <2>1. CASE /\ store[k].failures >= Threshold
             /\ store' = StartCoolingDown(store, k, verdict[c].until)
    <3>1. /\ store'[k].failures = store[k].failures
          /\ store'[k].status = "cooling_down"
          /\ store'[k].until \in Nat
      BY <1>1, <1>2, <1>3, <2>1, CooledRecord
    <3>2. QED
      BY <1>2, <1>3, <2>1, <3>1, KeyPoolAssumption DEF Settled, NoDeadline
  <2>2. CASE /\ store[k].failures < Threshold
             /\ store' = UpdateStatus(store, k, "degraded")
    <3>1. /\ store'[k].failures = store[k].failures
          /\ store'[k].status = "degraded"
          /\ store'[k].until = NoDeadline
      BY <1>1, <1>2, <2>2, DegradedRecord
    <3>2. QED
      BY <1>2, <1>3, <3>1 DEF Settled
  <2>3. CASE /\ store[k].status = "degraded"
             /\ store' = store
    BY <1>2, <1>3, <2>3 DEF Settled
  <2>4. QED
    BY <1>4, <2>1, <2>2, <2>3
<1>8. \A j \in DOMAIN store' : Settled(store'[j])
  BY <1>5, <1>6, <1>7
<1>9. QED
  BY <1>1, <1>8
  DEF SnapshotCurrent, ChosenUsable, JudgementPending, OthersSettled, InFlight

(* A step that leaves the counts and the answer under way alone.            *)
LEMMA CountFrame ==
  ASSUME NEW c, Clients = {c}, CountKept, UNCHANGED streak,
         DOMAIN store' = DOMAIN store,
         \A k \in DOMAIN store : store'[k].failures = store[k].failures,
         chosen'[c] = chosen[c] \/ pc[c] \notin Uncounted \cup Unreset,
         pc'[c] \in Uncounted <=> pc[c] \in Uncounted,
         pc'[c] \in Unreset <=> pc[c] \in Unreset
  PROVE  CountKept'
  BY DEF CountKept

(* A step about the key of the request, and of no other.                    *)
LEMMA CountStep ==
  ASSUME NEW c, Clients = {c}, CountKept, NEW k, chosen[c] = k, chosen'[c] = k,
         DOMAIN store' = DOMAIN store,
         \A j \in DOMAIN store : j # k => store'[j] = store[j] /\ streak'[j] = streak[j],
         \/ streak'[k] = NoCount
         \/ store'[k].failures = streak'[k] /\ pc'[c] \notin Uncounted \cup Unreset
         \/ store'[k].failures + 1 = streak'[k] /\ pc'[c] \in Uncounted
         \/ streak'[k] = 0 /\ pc'[c] \in Unreset
  PROVE  CountKept'
  <1> SUFFICES ASSUME NEW j \in DOMAIN store, streak'[j] # NoCount
               PROVE  \/ /\ store'[j].failures = streak'[j]
                         /\ \A d \in Clients : chosen'[d] = j => pc'[d] \notin Uncounted \cup Unreset
                      \/ /\ store'[j].failures + 1 = streak'[j]
                         /\ \E d \in Clients : chosen'[d] = j /\ pc'[d] \in Uncounted
                      \/ /\ streak'[j] = 0
                         /\ \E d \in Clients : chosen'[d] = j /\ pc'[d] \in Unreset
    BY DEF CountKept
  <1>1. CASE j = k
    BY <1>1
  <1>2. CASE j # k
    BY <1>2 DEF CountKept
  <1> QED BY <1>1, <1>2

(* The provider's answer, and the steps of the hooks that tell the health   *)
(* service of it or fail to.                                                *)
LEMMA CountAnswer ==
  ASSUME NEW c, Clients = {c}, PolicyInv,
         \/ ProviderSucceeds(c) \/ ProviderFails(c) \/ SuccessHookThrows(c)
         \/ RecordSuccess(c) \/ CountFailure(c)
         \/ FailureHookThrows(c) /\ pc[c] = "log_failure"
  PROVE  CountKept'
<1> DEFINE k == chosen[c]
<1>0. /\ StoreOK(store) /\ CountKept /\ c \in Clients
      /\ pc \in [Clients -> PC]
      /\ streak \in [Keys -> Nat \cup {NoCount}]
  BY DEF PolicyInv, TypeInv, TypeOK, StoreOK
<1>1. pc[c] \in InFlight /\ chosen' = chosen
  BY DEF ProviderSucceeds, ProviderFails, SuccessHookThrows, RecordSuccess,
         CountFailure, FailureHookThrows, CatchError, InFlight
<1>2. k \in DOMAIN store /\ k \in Keys
  BY <1>0, <1>1 DEF PolicyInv, ChosenUsable, Usable, Has, StoreOK
<1>3. store[k].failures \in Nat
  BY <1>0, <1>2 DEF StoreOK, Record
<1>4. streak[k] # NoCount =>
        \/ store[k].failures = streak[k] /\ pc[c] \notin Uncounted \cup Unreset
        \/ store[k].failures + 1 = streak[k] /\ pc[c] \in Uncounted
        \/ streak[k] = 0 /\ pc[c] \in Unreset
  BY <1>0, <1>2 DEF CountKept
<1>5. \A j \in DOMAIN store : j \in Keys
  BY <1>0 DEF StoreOK
<1> HIDE DEF k
<1>6. CASE ProviderSucceeds(c)
  <2>1. /\ store' = store /\ pc'[c] = "succeeded"
        /\ streak' = [streak EXCEPT ![k] = 0]
    BY <1>0, <1>6 DEF ProviderSucceeds, Goto, shared, k
  <2>2. streak'[k] = 0 /\ \A j \in DOMAIN store : j # k => streak'[j] = streak[j]
    BY <1>0, <1>2, <1>5, <2>1
  <2>3. QED
    BY <1>0, <1>1, <2>1, <2>2, CountStep DEF Unreset, k
<1>7. CASE ProviderFails(c)
  <2>1. /\ store' = store /\ pc[c] = "sending" /\ pc'[c] = "log_failure"
        /\ streak' = [streak EXCEPT ![k] = IF @ = NoCount THEN @ ELSE @ + 1]
    BY <1>0, <1>7 DEF ProviderFails, CatchError, Goto, shared, k
  <2>2. /\ streak'[k] = IF streak[k] = NoCount THEN NoCount ELSE streak[k] + 1
        /\ \A j \in DOMAIN store : j # k => streak'[j] = streak[j]
    BY <1>0, <1>2, <1>5, <2>1
  <2>3. streak'[k] = NoCount \/ store'[k].failures + 1 = streak'[k]
    BY <1>3, <1>4, <2>1, <2>2 DEF Uncounted, Unreset
  <2>4. QED
    BY <1>0, <1>1, <2>1, <2>2, <2>3, CountStep DEF Uncounted, k
<1>8. CASE SuccessHookThrows(c) \/ (FailureHookThrows(c) /\ pc[c] = "log_failure")
  <2>1. store' = store /\ streak' = [streak EXCEPT ![k] = NoCount]
    BY <1>8 DEF SuccessHookThrows, FailureHookThrows, CatchError, shared, k
  <2>2. streak'[k] = NoCount /\ \A j \in DOMAIN store : j # k => streak'[j] = streak[j]
    BY <1>0, <1>2, <1>5, <2>1
  <2>3. QED
    BY <1>0, <1>1, <2>1, <2>2, CountStep DEF k
<1>9. CASE RecordSuccess(c)
  <2>1. /\ pc[c] = "recover" /\ pc'[c] = "log_success" /\ UNCHANGED streak
        /\ store' = ResetFailures(store, k)
    BY <1>0, <1>9 DEF RecordSuccess, Goto, k
  <2>2. /\ DOMAIN store' = DOMAIN store
        /\ \A j \in DOMAIN store : j # k => store'[j] = store[j]
        /\ store'[k].failures = 0
    BY <1>0, <1>2, <2>1, ResetFailuresStore, ResetRecord
  <2>3. streak[k] = NoCount \/ streak[k] = 0
    BY <1>4, <2>1 DEF Uncounted, Unreset
  <2>4. QED
    BY <1>0, <1>1, <2>1, <2>2, <2>3, CountStep DEF Uncounted, Unreset, k
<1>10. CASE CountFailure(c)
  <2>1. /\ pc[c] = "count_failure" /\ pc'[c] = "judge" /\ UNCHANGED streak
        /\ store' = RecordFailure(store, k)
    BY <1>0, <1>2, <1>10 DEF CountFailure, Goto, Has, k
  <2>2. /\ DOMAIN store' = DOMAIN store
        /\ \A j \in DOMAIN store : j # k => store'[j] = store[j]
        /\ store'[k].failures = store[k].failures + 1
    BY <1>0, <1>2, <2>1, RecordFailureStore, CountedRecord
  <2>3. streak[k] = NoCount \/ store[k].failures + 1 = streak[k]
    BY <1>4, <2>1 DEF Uncounted, Unreset
  <2>4. QED
    BY <1>0, <1>1, <2>1, <2>2, <2>3, CountStep DEF Uncounted, Unreset, k
<1>11. QED
  BY <1>6, <1>7, <1>8, <1>9, <1>10

(* The other steps of the request.                                          *)
LEMMA CountQuiet ==
  ASSUME NEW c, Clients = {c}, PolicyInv,
         \/ Release(c) \/ Find(c) \/ Pick(c) \/ Charge(c) \/ RecordUsage(c)
         \/ LogFailure(c) \/ Judge(c) \/ AnswerSuccess(c) \/ FinishFailure(c)
         \/ Exhausted(c) \/ ReportError(c) \/ ReportThrows(c)
         \/ FailureHookThrows(c) /\ pc[c] # "log_failure"
         \/ \E ex \in CallerExclusions : Submit(c, ex)
  PROVE  CountKept'
<1>0. /\ StoreOK(store) /\ CountKept /\ c \in Clients
      /\ pc \in [Clients -> PC] /\ verdict[c] \in Verdict
      /\ chosen \in [Clients -> Keys \cup {NoKey}]
  BY DEF PolicyInv, TypeInv, TypeOK, StoreOK
<1>1. UNCHANGED streak
  BY DEF Release, Find, Pick, Charge, RecordUsage, LogFailure, Judge, AnswerSuccess,
         FinishFailure, Exhausted, ReportError, ReportThrows, FailureHookThrows, Submit
<1>2. /\ chosen'[c] = chosen[c] \/ pc[c] \notin Uncounted \cup Unreset
      /\ pc'[c] \in Uncounted <=> pc[c] \in Uncounted
      /\ pc'[c] \in Unreset <=> pc[c] \in Unreset
  BY <1>0
  DEF Release, Find, Pick, Charge, RecordUsage, LogFailure, Judge, AnswerSuccess,
      FinishFailure, Exhausted, ReportError, ReportThrows, FailureHookThrows, Submit,
      Goto, Uncounted, Unreset, Forget
<1>3. /\ DOMAIN store' = DOMAIN store
      /\ \A k \in DOMAIN store : store'[k].failures = store[k].failures
  <2>1. CASE Release(c)
    <3>1. store' = ReleaseExpiredCooldowns(store, now)
      BY <2>1 DEF Release
    <3>2. QED
      BY <1>0, <3>1 DEF ReleaseExpiredCooldowns, StoreOK, Record
  <2>2. CASE Judge(c)
    <3>1. \/ store' = StartCoolingDown(store, chosen[c], verdict[c].until)
          \/ store' = UpdateStatus(store, chosen[c], "degraded")
          \/ store' = store
      BY <2>2 DEF Judge
    <3>2. verdict[c].until \in Nat /\ chosen[c] \in DOMAIN store /\ "degraded" \in Status
      BY <1>0, <2>2 DEF Verdict, Judge, Status, PolicyInv, JudgementPending, Pending, Usable, Has
    <3>3. CASE store' = StartCoolingDown(store, chosen[c], verdict[c].until)
      <4>1. store'[chosen[c]].failures = store[chosen[c]].failures
        BY <1>0, <3>2, <3>3, CooledRecord
      <4>2. /\ DOMAIN store' = DOMAIN store
            /\ \A k \in DOMAIN store : k # chosen[c] => store'[k] = store[k]
        BY <1>0, <3>2, <3>3, StartCoolingDownStore
      <4>3. QED
        BY <4>1, <4>2
    <3>4. CASE store' = UpdateStatus(store, chosen[c], "degraded")
      <4>1. store'[chosen[c]].failures = store[chosen[c]].failures
        BY <1>0, <3>2, <3>4, DegradedRecord
      <4>2. /\ DOMAIN store' = DOMAIN store
            /\ \A k \in DOMAIN store : k # chosen[c] => store'[k] = store[k]
        BY <1>0, <3>2, <3>4, UpdateStatusStore
      <4>3. QED
        BY <4>1, <4>2
    <3>5. QED
      BY <3>1, <3>3, <3>4
  <2>3. CASE ~Release(c) /\ ~Judge(c)
    BY <2>3
    DEF Find, Pick, Charge, RecordUsage, LogFailure, AnswerSuccess, FinishFailure,
        Exhausted, ReportError, ReportThrows, FailureHookThrows, Submit, shared
  <2>4. QED
    BY <2>1, <2>2, <2>3
<1>4. QED
  BY <1>0, <1>1, <1>2, <1>3, CountFrame

(* Only Judge leads to log_status: the key was there when it was chosen.    *)
LEMMA JudgementNext ==
  ASSUME NEW c, Clients = {c}, PolicyInv, Step(c)
  PROVE  JudgementStands'
<1>0. /\ StoreOK(store) /\ c \in Clients
      /\ pc \in [Clients -> PC] /\ verdict[c] \in Verdict
  BY DEF PolicyInv, TypeInv, TypeOK, StoreOK
<1>1. CASE Judge(c)
  <2> DEFINE k == chosen[c]
  <2>1. /\ k \in DOMAIN store
        /\ store[k].status \in {"healthy", "degraded"}
        /\ verdict[c].next = IF store[k].failures >= Threshold
                             THEN "cooling_down" ELSE "degraded"
        /\ verdict[c].changed <=> store[k].status # verdict[c].next
        /\ chosen' = chosen
    BY <1>0, <1>1 DEF Judge, PolicyInv, JudgementPending, Pending, Usable, Has
  <2>2. verdict[c].until \in Nat /\ "degraded" \in Status
    BY <1>0 DEF Verdict, Status
  <2>3. \/ /\ verdict[c].next = "cooling_down"
           /\ store' = StartCoolingDown(store, k, verdict[c].until)
        \/ /\ verdict[c].next = "degraded"
           /\ store' = UpdateStatus(store, k, "degraded")
        \/ /\ verdict[c].next = "degraded" /\ store[k].status = "degraded"
           /\ store' = store
    BY <1>1, <2>1 DEF Judge
  <2> HIDE DEF k
  <2>4. CASE store' = StartCoolingDown(store, k, verdict[c].until)
             /\ verdict[c].next = "cooling_down"
    <3>1. k \in DOMAIN store' /\ Stands(store'[k])
      BY <1>0, <2>1, <2>2, <2>4, StartCoolingDownStore, CooledRecord DEF Stands
    <3>2. QED
      BY <2>1, <3>1 DEF JudgementStands, Has, k
  <2>5. CASE store' = UpdateStatus(store, k, "degraded") /\ verdict[c].next = "degraded"
    <3>1. k \in DOMAIN store' /\ Stands(store'[k])
      BY <1>0, <2>1, <2>2, <2>5, UpdateStatusStore, DegradedRecord DEF Stands
    <3>2. QED
      BY <2>1, <3>1 DEF JudgementStands, Has, k
  <2>6. CASE store' = store /\ verdict[c].next = "degraded" /\ store[k].status = "degraded"
    BY <2>1, <2>6 DEF JudgementStands, Stands, Has, k
  <2>7. QED
    BY <2>3, <2>4, <2>5, <2>6
<1>2. CASE ~Judge(c)
  <2>1. CountFailure(c) => Has(store, chosen[c])
    BY DEF CountFailure, PolicyInv, ChosenUsable, InFlight, Usable
  <2>2. pc'[c] # "log_status"
    BY <1>0, <1>2, <2>1
    DEF Step, Release, Find, Pick, Charge, ProviderSucceeds, ProviderFails, RecordUsage,
        RecordSuccess, AnswerSuccess, LogFailure, CountFailure, FinishFailure, Exhausted,
        ReportError, SuccessHookThrows, FailureHookThrows, ReportThrows, CatchError, Goto
  <2>3. QED
    BY <2>2 DEF JudgementStands
<1>3. QED
  BY <1>1, <1>2

LEMMA PolicyNext ==
  ASSUME NEW c, Clients = {c}, MaxAdmin = 0
  PROVE  PolicyInv /\ [Next]_vars => PolicyInv'
<1> SUFFICES ASSUME PolicyInv, [Next]_vars
             PROVE  /\ SnapshotCurrent' /\ ChosenUsable' /\ JudgementPending' /\ OthersSettled'
                    /\ JudgementStands' /\ CountKept'
  BY TypeNext DEF PolicyInv
<1>0. /\ pc \in [Clients -> PC]
      /\ adminOps \in Nat
  BY DEF PolicyInv, TypeInv, TypeOK
<1>S. Step(c) => JudgementStands' /\ CountKept'
  <2>1. Step(c) => JudgementStands'
    BY JudgementNext
  <2>2. Step(c) => CountKept'
    BY CountAnswer, CountQuiet DEF Step
  <2>3. QED
    BY <2>1, <2>2
<1>1. CASE Release(c) \/ Find(c) \/ Pick(c)
  BY <1>1, <1>S, PolicySelection DEF Step
<1>2. CASE RecordSuccess(c) \/ CountFailure(c) \/ Judge(c)
  BY <1>2, <1>S, PolicySuccess, PolicyCount, PolicyJudge DEF Step
<1>3. CASE \/ Charge(c) \/ ProviderSucceeds(c) \/ ProviderFails(c)
           \/ RecordUsage(c) \/ LogFailure(c) \/ SuccessHookThrows(c)
  <2>1. /\ store' = store
        /\ chosen' = chosen
        /\ pc[c] \in InFlight
        /\ pc'[c] \in InFlight
    BY <1>0, <1>3
    DEF Charge, ProviderSucceeds, ProviderFails, RecordUsage, LogFailure,
        SuccessHookThrows, CatchError, Goto, shared, InFlight
  <2>2. SnapshotCurrent' /\ ChosenUsable' /\ JudgementPending' /\ OthersSettled'
    BY <2>1, PolicyFrame DEF InFlight
  <2>3. QED
    BY <1>3, <1>S, <2>2 DEF Step
<1>4. CASE \/ AnswerSuccess(c) \/ FinishFailure(c) \/ Exhausted(c) \/ ReportError(c)
           \/ FailureHookThrows(c) \/ ReportThrows(c)
           \/ \E ex \in CallerExclusions : Submit(c, ex)
  <2>1. /\ store' = store
        /\ pc[c] # "judge"
        /\ pc'[c] \in {"idle", "release", "report"}
    BY <1>0, <1>4
    DEF AnswerSuccess, FinishFailure, Exhausted, ReportError,
        FailureHookThrows, ReportThrows, Submit, Goto, shared
  <2>2. SnapshotCurrent' /\ ChosenUsable' /\ JudgementPending' /\ OthersSettled'
    BY <2>1, PolicyFrame DEF InFlight
  <2>3. CASE \E ex \in CallerExclusions : Submit(c, ex)
    <3>1. CountKept'
      BY <2>3, CountQuiet
    <3>2. JudgementStands'
      BY <1>0, <2>3 DEF Submit, Goto, JudgementStands
    <3>3. QED
      BY <2>2, <3>1, <3>2
  <2>4. QED
    BY <1>4, <1>S, <2>2, <2>3 DEF Step
<1>5. CASE Tick \/ UNCHANGED vars
  <2>1. UNCHANGED <<store, pc, listed, chosen, verdict, streak>>
    BY <1>5 DEF Tick, vars, shared, local
  <2>2. QED
    BY <2>1
    DEF PolicyInv, SnapshotCurrent, ChosenUsable, JudgementPending, OthersSettled,
        Pending, Usable, JudgementStands, CountKept
<1>6. ~Admin
  BY <1>0 DEF Admin, AdminUpsert, AdminDelete, AdminSetStatus, AdminOp
<1>7. QED
  BY <1>1, <1>2, <1>3, <1>4, <1>5, <1>6 DEF Next, Step

(* README.md:199-203.  Where requests do not overlap and the console does   *)
(* not touch the keys, the documented policy holds for every Threshold and  *)
(* any answers of the provider; a recorder that throws may let the count of *)
(* a key go wrong, until it next succeeds, and leaves its status in step    *)
(* with its count.                                                          *)
THEOREM PolicyHolds ==
  ASSUME NEW c, Clients = {c}, MaxAdmin = 0
  PROVE  Spec => []HealthPolicyInTurn
<1>1. PolicyInv => HealthPolicyInTurn
  <2> SUFFICES ASSUME PolicyInv PROVE HealthPolicyInTurn
    OBVIOUS
  <2>0. \A k \in DOMAIN store : k \in Keys
    BY DEF PolicyInv, TypeInv, TypeOK
  <2>1. ASSUME pc[c] = "log_status", Has(store, chosen[c])
        PROVE  /\ Stands(store[chosen[c]])
               /\ streak[chosen[c]] \in {NoCount, store[chosen[c]].failures}
    <3>1. Stands(store[chosen[c]])
      BY <2>1 DEF PolicyInv, JudgementStands
    <3>2. streak[chosen[c]] \in {NoCount, store[chosen[c]].failures}
      BY <2>1 DEF PolicyInv, CountKept, Has, Uncounted, Unreset
    <3>3. QED
      BY <3>1, <3>2
  <2>2. ASSUME pc[c] = "idle", NEW k \in DOMAIN store
        PROVE  Settled(store[k]) /\ streak[k] \in {NoCount, store[k].failures}
    <3>1. Settled(store[k])
      BY <2>2 DEF PolicyInv, OthersSettled
    <3>2. streak[k] \in {NoCount, store[k].failures}
      BY <2>2 DEF PolicyInv, CountKept, Uncounted, Unreset
    <3>3. QED
      BY <3>1, <3>2
  <2>3. QED
    BY <2>1, <2>2 DEF HealthPolicyInTurn, Stands, Settled
<1>2. QED
  BY <1>1, PolicyInit, PolicyNext, PTL DEF Spec

-----------------------------------------------------------------------------
(* Disabled keys                                                            *)

\* k is disabled and no request in flight may still use it.
Out(k) ==
  /\ k \in DOMAIN store
  /\ store[k].status = "disabled"
  /\ \A c \in Clients : ~Holding(c, k)

(* A release, and the calls of the health service on another key, leave a   *)
(* disabled key disabled.                                                   *)
LEMMA ReleaseSparesDisabled ==
  ASSUME NEW s, NEW t, NEW k \in DOMAIN s, s[k].status = "disabled"
  PROVE  ReleaseExpiredCooldowns(s, t)[k] = s[k]
  BY DEF ReleaseExpiredCooldowns, Expired

LEMMA ChangeSparesOthers ==
  ASSUME NEW s, NEW j, NEW r, NEW k \in DOMAIN s, k # j
  PROVE  Change(s, j, r)[k] = s[k]
  BY DEF Change, Put, Has

(* Steps of a request that write to the repository.                         *)
LEMMA DisabledStoreSteps ==
  ASSUME TypeInv, NEW k, Out(k), NEW c \in Clients,
         Release(c) \/ RecordSuccess(c) \/ CountFailure(c) \/ Judge(c)
  PROVE  store'[k].status = "disabled"
<1>1. k \in DOMAIN store /\ store[k].status = "disabled" /\ ~Holding(c, k)
  BY DEF Out
<1>2. CASE Release(c)
  BY <1>1, <1>2, ReleaseSparesDisabled DEF Release
<1>3. CASE RecordSuccess(c)
  <2>1. k # chosen[c] /\ store' = ResetFailures(store, chosen[c])
    BY <1>1, <1>3 DEF RecordSuccess, Holding
  <2>2. QED
    BY <1>1, <2>1, ChangeSparesOthers DEF ResetFailures
<1>4. CASE CountFailure(c)
  <2>1. k # chosen[c] /\ store' = RecordFailure(store, chosen[c])
    BY <1>1, <1>4 DEF CountFailure, Holding
  <2>2. QED
    BY <1>1, <2>1, ChangeSparesOthers DEF RecordFailure
<1>5. CASE Judge(c)
  <2>1. k # chosen[c]
    BY <1>1, <1>5 DEF Judge, Holding
  <2>2. \/ store' = StartCoolingDown(store, chosen[c], verdict[c].until)
        \/ store' = UpdateStatus(store, chosen[c], "degraded")
        \/ store' = store
    BY <1>5 DEF Judge
  <2>3. QED
    BY <1>1, <2>1, <2>2, ChangeSparesOthers DEF StartCoolingDown, UpdateStatus
<1>6. QED
  BY <1>2, <1>3, <1>4, <1>5

(* What the request in step holds afterwards.  It can come to hold a key    *)
(* only by listing it as usable; it chooses only what it listed as usable.  *)
LEMMA DisabledNotTaken ==
  ASSUME TypeInv, NEW k, Out(k), NEW c \in Clients, Step(c)
  PROVE  ~Holding(c, k)'
<1> USE DEF Goto, Holding
<1>0. /\ pc \in [Clients -> PC]
      /\ chosen \in [Clients -> Keys \cup {NoKey}]
      /\ DOMAIN listed = Clients
      /\ k \in DOMAIN store /\ store[k].status = "disabled"
      /\ ~Holding(c, k)
  BY DEF TypeInv, TypeOK, Out
<1>1. CASE Release(c)
  BY <1>0, <1>1 DEF Release
<1>2. CASE Find(c)
  <2>1. pc'[c] = "pick" /\ listed'[c] = [j \in DOMAIN store |-> store[j].status]
    BY <1>0, <1>2 DEF Find
  <2>2. listed'[c][k] = "disabled"
    BY <1>0, <2>1
  <2>3. QED
    BY <2>1, <2>2
<1>3. CASE Pick(c)
  <2>1. k \notin Eligible(c)
    BY <1>0, <1>3 DEF Pick, Eligible
  <2>2. \/ pc'[c] = "exhausted"
        \/ pc'[c] = "charge" /\ chosen'[c] \in Eligible(c)
    BY <1>0, <1>3 DEF Pick
  <2>3. QED
    BY <2>1, <2>2
<1>4. CASE Charge(c) \/ ProviderSucceeds(c) \/ ProviderFails(c) \/ RecordUsage(c)
  BY <1>0, <1>4
  DEF Charge, ProviderSucceeds, ProviderFails, CatchError, RecordUsage
<1>5. CASE RecordSuccess(c) \/ LogFailure(c) \/ CountFailure(c) \/ SuccessHookThrows(c)
  BY <1>0, <1>5
  DEF RecordSuccess, LogFailure, CountFailure, SuccessHookThrows, CatchError
<1>6. CASE \/ AnswerSuccess(c) \/ Judge(c) \/ FinishFailure(c) \/ Exhausted(c)
           \/ ReportError(c) \/ FailureHookThrows(c) \/ ReportThrows(c)
  <2>1. pc'[c] \in {"idle", "log_status", "release", "report"}
    BY <1>0, <1>6
    DEF AnswerSuccess, Judge, FinishFailure, Exhausted, ReportError,
        FailureHookThrows, ReportThrows
  <2>2. QED
    BY <2>1
<1>7. QED
  BY <1>1, <1>2, <1>3, <1>4, <1>5, <1>6 DEF Step

(* The other requests are where they were, with what they had.              *)
LEMMA StepSparesOthers ==
  ASSUME TypeInv, NEW c \in Clients, Step(c), NEW d \in Clients, d # c
  PROVE  pc'[d] = pc[d] /\ listed'[d] = listed[d] /\ chosen'[d] = chosen[d]
<1> USE DEF shared, local, Goto
<1>0. DOMAIN pc = Clients /\ DOMAIN listed = Clients /\ DOMAIN chosen = Clients
  BY DEF TypeInv, TypeOK
<1>1. CASE Release(c) \/ Find(c) \/ Pick(c) \/ Charge(c)
  BY <1>0, <1>1 DEF Release, Find, Pick, Charge
<1>2. CASE \/ ProviderSucceeds(c) \/ ProviderFails(c) \/ RecordUsage(c)
           \/ RecordSuccess(c) \/ AnswerSuccess(c)
  BY <1>0, <1>2 DEF ProviderSucceeds, ProviderFails, CatchError, RecordUsage,
              RecordSuccess, AnswerSuccess, Forget
<1>3. CASE \/ LogFailure(c) \/ CountFailure(c) \/ Judge(c) \/ FinishFailure(c)
           \/ Exhausted(c) \/ ReportError(c)
  BY <1>0, <1>3 DEF LogFailure, CountFailure, Judge, FinishFailure, Exhausted,
              ReportError, Forget
<1>4. CASE SuccessHookThrows(c) \/ FailureHookThrows(c) \/ ReportThrows(c)
  BY <1>0, <1>4 DEF SuccessHookThrows, CatchError, FailureHookThrows, ReportThrows, Forget
<1>5. QED
  BY <1>1, <1>2, <1>3, <1>4 DEF Step

(* The steps of a request that leave the repository alone.                  *)
LEMMA StepsOffTheStore ==
  ASSUME NEW c \in Clients, Step(c),
         ~Release(c), ~RecordSuccess(c), ~CountFailure(c), ~Judge(c)
  PROVE  store' = store
<1> USE DEF shared
<1>1. CASE Find(c) \/ Pick(c) \/ Charge(c) \/ ProviderSucceeds(c) \/ ProviderFails(c)
  BY <1>1 DEF Find, Pick, Charge, ProviderSucceeds, ProviderFails, CatchError
<1>2. CASE \/ RecordUsage(c) \/ AnswerSuccess(c) \/ LogFailure(c)
           \/ FinishFailure(c) \/ Exhausted(c) \/ ReportError(c)
  BY <1>2 DEF RecordUsage, AnswerSuccess, LogFailure, FinishFailure, Exhausted,
              ReportError
<1>3. CASE SuccessHookThrows(c) \/ FailureHookThrows(c) \/ ReportThrows(c)
  BY <1>3 DEF SuccessHookThrows, CatchError, FailureHookThrows, ReportThrows
<1>4. QED
  BY <1>1, <1>2, <1>3 DEF Step

LEMMA DisabledNext ==
  ASSUME TypeInv, [Next]_vars, ~Admin, NEW k, Out(k)
  PROVE  /\ store'[k].status = "disabled"
         /\ \A c \in Clients : ~Holding(c, k)'
<1>1. ASSUME NEW c \in Clients, Step(c)
      PROVE  /\ store'[k].status = "disabled"
             /\ \A d \in Clients : ~Holding(d, k)'
  <2>1. store'[k].status = "disabled"
    BY <1>1, DisabledStoreSteps, StepsOffTheStore DEF Out
  <2>2. ASSUME NEW d \in Clients PROVE ~Holding(d, k)'
    <3>1. CASE d = c
      BY <1>1, <3>1, DisabledNotTaken
    <3>2. CASE d # c
      BY <1>1, <3>2, StepSparesOthers DEF Out, Holding
    <3>3. QED
      BY <3>1, <3>2
  <2>3. QED
    BY <2>1, <2>2
<1>2. ASSUME NEW c \in Clients, NEW ex \in CallerExclusions, Submit(c, ex)
      PROVE  /\ store'[k].status = "disabled"
             /\ \A d \in Clients : ~Holding(d, k)'
  <2>1. /\ store' = store /\ listed' = listed /\ chosen' = chosen
        /\ \A d \in Clients : pc'[d] = pc[d] \/ pc'[d] = "release"
    BY <1>2 DEF Submit, Goto, shared, TypeInv, TypeOK
  <2>2. QED
    BY <2>1 DEF Out, Holding
<1>3. CASE Tick \/ UNCHANGED vars
  BY <1>3 DEF Tick, vars, shared, local, Out, Holding
<1>4. QED
  BY <1>1, <1>2, <1>3 DEF Next

(* key-eligibility.ts:3.  However requests and the console overlap, a       *)
(* disabled key that no request in flight holds is taken up by none and     *)
(* stays disabled until the administrator acts: the requests that were in   *)
(* flight when it was disabled are the only ones that can bring it back.    *)
THEOREM DisabledStays == Spec => DisabledStaysOut
<1>1. TypeInv /\ [Next]_vars =>
        [\A k \in DOMAIN store \cap DOMAIN store' :
           store[k].status = "disabled" /\ (\A c \in Clients : ~Holding(c, k)) =>
             \/ Admin
             \/ /\ store'[k].status = "disabled"
                /\ \A c \in Clients : ~Holding(c, k)']_vars
  BY DisabledNext DEF Out
<1>2. QED
  BY <1>1, TypeInit, TypeNext, PTL DEF Spec, DisabledStaysOut

-----------------------------------------------------------------------------
(* Requests that do not overlap                                             *)

(* rpmLimit as documented.  With one request at a time nothing stands       *)
(* between check and count, and a key is never used above its limit.        *)
THEOREM RpmSequential ==
  ASSUME NEW c, Clients = {c}
  PROVE  Spec => []RpmRespected
<1>1. ReserveInv => RpmRespected
  <2> SUFFICES ASSUME ReserveInv, NEW k \in Keys, Rpm[k] > 0
               PROVE  windows[k].count <= Rpm[k]
    BY DEF RpmRespected
  <2>1. windows[k].count + Cardinality(Reserving(k)) < Rpm[k] + Cardinality(Clients)
    BY DEF ReserveInv, RpmReserve
  <2>2. /\ Cardinality(Reserving(k)) \in Nat
        /\ windows[k].count \in Nat
        /\ Rpm[k] \in Nat
    BY KeyPoolAssumption, ReservingFinite
    DEF Reserving, ReserveInv, TypeInv, TypeOK, Window
  <2>3. Cardinality(Clients) = 1
    BY FS_Singleton
  <2>4. QED
    BY <2>1, <2>2, <2>3
<1>2. QED
  BY TypeInit, TypeNext, ReserveInit, ReserveNext, <1>1, PTL DEF Spec, ReserveInv

(* A cooling key can lose its deadline only to a recovery, which clears the *)
(* deadline of a key that is cooling already.  A lone request recovers only *)
(* a key it chose as usable, and until then nothing else cools one.         *)
CoolingListed ==
  \A c \in Clients : pc[c] = "pick" =>
    \A k \in DOMAIN listed[c] \cap DOMAIN store :
      store[k].status = "cooling_down" => listed[c][k] = "cooling_down"

ChosenNotCooling ==
  \A c \in Clients :
    pc[c] \in {"charge", "sending", "succeeded", "recover"} /\ Has(store, chosen[c])
      => store[chosen[c]].status # "cooling_down"

DeadlineInv == TypeInv /\ CoolingKeyHasDeadline /\ CoolingListed /\ ChosenNotCooling

\* From s to t no key starts to cool, and no cooling key changes its deadline.
CoolsNone(s, t) ==
  \A k \in DOMAIN t :
    t[k].status = "cooling_down" =>
      k \in DOMAIN s /\ s[k].status = "cooling_down" /\ t[k].until = s[k].until

(* Where no key starts to cool, neither deadlines nor what a lone request   *)
(* knows of the cooling keys can be lost.                                   *)
LEMMA DeadlineFrame ==
  ASSUME CoolingKeyHasDeadline, CoolsNone(store, store')
  PROVE  CoolingKeyHasDeadline'
  BY DEF CoolingKeyHasDeadline, CoolsNone

LEMMA KnowledgeFrame ==
  ASSUME CoolingListed, ChosenNotCooling, CoolsNone(store, store'),
         NEW c, Clients = {c},
         pc'[c] = "pick" => pc[c] = "pick" /\ listed' = listed,
         pc'[c] \in {"charge", "sending", "succeeded", "recover"} =>
           /\ pc[c] \in {"charge", "sending", "succeeded", "recover"}
           /\ chosen' = chosen
  PROVE  CoolingListed' /\ ChosenNotCooling'
  BY DEF CoolingListed, ChosenNotCooling, CoolsNone, Has

(* The calls that cool no key: every call but startCoolingDown, a recovery  *)
(* if the key it is about is not cooling, a change of status if it is to    *)
(* another status.                                                          *)
LEMMA ChangeCoolsNone ==
  ASSUME NEW s, NEW k, NEW r,
         r.status = "cooling_down" =>
           /\ Has(s, k)
           /\ s[k].status = "cooling_down"
           /\ r.until = s[k].until
  PROVE  CoolsNone(s, Change(s, k, r))
  BY DEF CoolsNone, Change, Put, Has

LEMMA CallsCoolNone ==
  ASSUME NEW s, StoreOK(s), NEW k
  PROVE  /\ \A t : CoolsNone(s, ReleaseExpiredCooldowns(s, t))
         /\ CoolsNone(s, RecordFailure(s, k))
         /\ ~(Has(s, k) /\ s[k].status = "cooling_down") =>
              CoolsNone(s, ResetFailures(s, k))
         /\ \A status \in Status \ {"cooling_down"} :
              CoolsNone(s, UpdateStatus(s, k, status))
         /\ CoolsNone(s, Put(s, k, FreshRecord))
         /\ CoolsNone(s, Delete(s, k))
<1>1. \A t : CoolsNone(s, ReleaseExpiredCooldowns(s, t))
  BY DEF CoolsNone, ReleaseExpiredCooldowns, StoreOK, Record
<1>2. CoolsNone(s, RecordFailure(s, k))
  <2>1. CASE Has(s, k)
    <3> DEFINE r == [s[k] EXCEPT !.failures = @ + 1]
    <3>1. r.status = s[k].status /\ r.until = s[k].until
      BY <2>1 DEF StoreOK, Has, Record
    <3>2. RecordFailure(s, k) = Change(s, k, r)
      BY DEF RecordFailure
    <3> HIDE DEF r
    <3>3. QED
      BY <2>1, <3>1, <3>2, ChangeCoolsNone
  <2>2. CASE ~Has(s, k)
    BY <2>2 DEF RecordFailure, Change, CoolsNone
  <2>3. QED
    BY <2>1, <2>2
<1>3. ASSUME ~(Has(s, k) /\ s[k].status = "cooling_down")
      PROVE  CoolsNone(s, ResetFailures(s, k))
  <2>1. CASE Has(s, k)
    <3> DEFINE r == [s[k] EXCEPT !.status   = IF @ = "degraded" THEN "healthy" ELSE @,
                                 !.failures = 0,
                                 !.until    = NoDeadline]
    <3>1. r.status # "cooling_down"
      BY <1>3, <2>1 DEF StoreOK, Has, Record
    <3>2. ResetFailures(s, k) = Change(s, k, r)
      BY DEF ResetFailures
    <3> HIDE DEF r
    <3>3. QED
      BY <3>1, <3>2, ChangeCoolsNone
  <2>2. CASE ~Has(s, k)
    BY <2>2 DEF ResetFailures, Change, CoolsNone
  <2>3. QED
    BY <2>1, <2>2
<1>4. ASSUME NEW status \in Status \ {"cooling_down"}
      PROVE  CoolsNone(s, UpdateStatus(s, k, status))
  <2>1. CASE Has(s, k)
    <3> DEFINE r == [s[k] EXCEPT !.status = status,
                                 !.until  = IF status = "cooling_down" THEN @
                                                                       ELSE NoDeadline]
    <3>1. r.status # "cooling_down"
      BY <2>1 DEF StoreOK, Has, Record
    <3>2. UpdateStatus(s, k, status) = Change(s, k, r)
      BY DEF UpdateStatus
    <3> HIDE DEF r
    <3>3. QED
      BY <3>1, <3>2, ChangeCoolsNone
  <2>2. CASE ~Has(s, k)
    BY <2>2 DEF UpdateStatus, Change, CoolsNone
  <2>3. QED
    BY <2>1, <2>2
<1>5. CoolsNone(s, Put(s, k, FreshRecord))
  BY DEF CoolsNone, Put, FreshRecord
<1>6. CoolsNone(s, Delete(s, k))
  BY DEF CoolsNone, Delete
<1>7. QED
  BY <1>1, <1>2, <1>3, <1>4, <1>5, <1>6

LEMMA DeadlineInit == Init => DeadlineInv
<1>1. Init => TypeInv
  BY TypeInit
<1>2. Init => CoolingKeyHasDeadline /\ CoolingListed /\ ChosenNotCooling
  BY DEF Init, CoolingKeyHasDeadline, CoolingListed, ChosenNotCooling, FreshRecord
<1>3. QED
  BY <1>1, <1>2 DEF DeadlineInv

(* Listing and choosing: the snapshot is current, and what is chosen from   *)
(* it is not cooling.                                                       *)
LEMMA DeadlineSelection ==
  ASSUME NEW c, Clients = {c}, DeadlineInv, Find(c) \/ Pick(c)
  PROVE  CoolingKeyHasDeadline' /\ CoolingListed' /\ ChosenNotCooling'
<1>0. /\ pc \in [Clients -> PC]
      /\ chosen \in [Clients -> Keys \cup {NoKey}]
      /\ DOMAIN listed = Clients
      /\ CoolingKeyHasDeadline
  BY DEF DeadlineInv, TypeInv, TypeOK
<1>1. store' = store
  BY DEF Find, Pick, shared
<1>2. CoolingKeyHasDeadline'
  BY <1>0, <1>1 DEF CoolingKeyHasDeadline
<1>3. CASE Find(c)
  <2>1. pc'[c] = "pick" /\ listed'[c] = [k \in DOMAIN store |-> store[k].status]
    BY <1>0, <1>3 DEF Find, Goto
  <2>2. QED
    BY <1>1, <1>2, <2>1 DEF CoolingListed, ChosenNotCooling
<1>4. CASE Pick(c)
  <2>1. \/ pc'[c] = "exhausted"
        \/ pc'[c] = "charge" /\ chosen'[c] \in Eligible(c)
    BY <1>0, <1>4 DEF Pick, Goto
  <2>2. \A k \in Eligible(c) : Has(store, k) => store[k].status # "cooling_down"
    BY <1>4 DEF Pick, Eligible, DeadlineInv, CoolingListed, Has
  <2>3. QED
    BY <1>1, <1>2, <2>1, <2>2 DEF CoolingListed, ChosenNotCooling
<1>5. QED
  BY <1>3, <1>4

(* The verdict: the only step that starts to cool a key, with a deadline.   *)
LEMMA DeadlineJudge ==
  ASSUME NEW c, Clients = {c}, DeadlineInv, Judge(c)
  PROVE  CoolingKeyHasDeadline' /\ CoolingListed' /\ ChosenNotCooling'
<1>0. /\ StoreOK(store)
      /\ pc \in [Clients -> PC]
      /\ verdict[c] \in Verdict
      /\ CoolingKeyHasDeadline
  BY DEF DeadlineInv, TypeInv, TypeOK, StoreOK
<1>1. pc'[c] = "log_status"
  BY <1>0 DEF Judge, Goto
<1>2. CoolingListed' /\ ChosenNotCooling'
  BY <1>1 DEF CoolingListed, ChosenNotCooling
<1>3. CASE store' = StartCoolingDown(store, chosen[c], verdict[c].until)
  <2>1. verdict[c].until \in Nat
    BY <1>0 DEF Verdict
  <2>2. CASE Has(store, chosen[c])
    <3>1. /\ store'[chosen[c]].until = verdict[c].until
          /\ DOMAIN store' = DOMAIN store
          /\ \A j \in DOMAIN store : j # chosen[c] => store'[j] = store[j]
      BY <1>0, <1>3, <2>1, <2>2, CooledRecord, StartCoolingDownStore DEF Has
    <3>2. QED
      BY <1>0, <1>2, <2>1, <3>1 DEF CoolingKeyHasDeadline, NoDeadline
  <2>3. CASE ~Has(store, chosen[c])
    BY <1>0, <1>2, <1>3, <2>3 DEF StartCoolingDown, Change, CoolingKeyHasDeadline
  <2>4. QED
    BY <2>2, <2>3
<1>4. CASE store' = UpdateStatus(store, chosen[c], "degraded")
  <2>1. CoolsNone(store, store')
    BY <1>0, <1>4, CallsCoolNone DEF Status
  <2>2. QED
    BY <1>0, <1>2, <2>1, DeadlineFrame
<1>5. CASE store' = store
  BY <1>0, <1>2, <1>5 DEF CoolingKeyHasDeadline
<1>6. QED
  BY <1>3, <1>4, <1>5 DEF Judge

LEMMA DeadlineNext ==
  ASSUME NEW c, Clients = {c}, "cooling_down" \notin AdminStatuses
  PROVE  DeadlineInv /\ [Next]_vars => DeadlineInv'
<1> SUFFICES ASSUME DeadlineInv, [Next]_vars
             PROVE  CoolingKeyHasDeadline' /\ CoolingListed' /\ ChosenNotCooling'
  BY TypeNext DEF DeadlineInv
<1>0. /\ StoreOK(store)
      /\ pc \in [Clients -> PC]
      /\ CoolingKeyHasDeadline /\ CoolingListed /\ ChosenNotCooling
  BY DEF DeadlineInv, TypeInv, TypeOK, StoreOK
<1>1. CASE Find(c) \/ Pick(c)
  BY <1>1, DeadlineSelection
<1>2. CASE Judge(c)
  BY <1>2, DeadlineJudge
<1>3. CASE Release(c) \/ RecordSuccess(c) \/ CountFailure(c)
  <2>1. CoolsNone(store, store')
    <3>1. CASE Release(c)
      BY <1>0, <3>1, CallsCoolNone DEF Release
    <3>2. CASE RecordSuccess(c)
      <4>1. ~(Has(store, chosen[c]) /\ store[chosen[c]].status = "cooling_down")
        BY <1>0, <3>2 DEF RecordSuccess, ChosenNotCooling
      <4>2. QED
        BY <1>0, <3>2, <4>1, CallsCoolNone DEF RecordSuccess
    <3>3. CASE CountFailure(c)
      BY <1>0, <3>3, CallsCoolNone DEF CountFailure
    <3>4. QED
      BY <1>3, <3>1, <3>2, <3>3
  <2>2. pc'[c] \in {"find", "log_success", "judge", "log_status"}
    BY <1>0, <1>3 DEF Release, RecordSuccess, CountFailure, Goto
  <2>3. QED
    BY <1>0, <2>1, <2>2, DeadlineFrame, KnowledgeFrame
<1>4. CASE \/ Charge(c) \/ ProviderSucceeds(c) \/ ProviderFails(c)
           \/ RecordUsage(c) \/ LogFailure(c) \/ SuccessHookThrows(c)
           \/ AnswerSuccess(c) \/ FinishFailure(c) \/ Exhausted(c)
           \/ ReportError(c) \/ FailureHookThrows(c) \/ ReportThrows(c)
           \/ \E ex \in CallerExclusions : Submit(c, ex)
  <2>1. CoolsNone(store, store')
    <3>1. store' = store
      BY <1>4
      DEF Charge, ProviderSucceeds, ProviderFails, RecordUsage, LogFailure,
          SuccessHookThrows, CatchError, AnswerSuccess, FinishFailure, Exhausted,
          ReportError, FailureHookThrows, ReportThrows, Submit, shared
    <3>2. QED
      BY <3>1 DEF CoolsNone
  <2>2. pc'[c] # "pick"
    BY <1>0, <1>4
    DEF Charge, ProviderSucceeds, ProviderFails, RecordUsage, LogFailure,
        SuccessHookThrows, CatchError, AnswerSuccess, FinishFailure, Exhausted,
        ReportError, FailureHookThrows, ReportThrows, Submit, Goto
  <2>3. pc'[c] \in {"charge", "sending", "succeeded", "recover"} =>
          /\ pc[c] \in {"charge", "sending", "succeeded", "recover"}
          /\ chosen' = chosen
    BY <1>0, <1>4
    DEF Charge, ProviderSucceeds, ProviderFails, RecordUsage, LogFailure,
        SuccessHookThrows, CatchError, AnswerSuccess, FinishFailure, Exhausted,
        ReportError, FailureHookThrows, ReportThrows, Submit, Goto, shared
  <2>4. QED
    BY <1>0, <2>1, <2>2, <2>3, DeadlineFrame, KnowledgeFrame
<1>5. CASE Admin
  <2>1. CoolsNone(store, store')
    BY <1>0, <1>5, CallsCoolNone, KeyPoolAssumption
    DEF Admin, AdminUpsert, AdminDelete, AdminSetStatus
  <2>2. UNCHANGED <<pc, listed, chosen>>
    BY <1>5 DEF Admin, AdminUpsert, AdminDelete, AdminSetStatus, local
  <2>3. QED
    BY <1>0, <2>1, <2>2, DeadlineFrame, KnowledgeFrame
<1>6. CASE Tick \/ UNCHANGED vars
  BY <1>6
  DEF Tick, vars, shared, local, DeadlineInv, CoolingKeyHasDeadline,
      CoolingListed, ChosenNotCooling
<1>7. QED
  BY <1>1, <1>2, <1>3, <1>4, <1>5, <1>6 DEF Next, Step

(* scheduler.ts:23, "expired cooldowns are released before scheduling".     *)
(* Where requests do not overlap, every cooling key has the deadline that   *)
(* the release looks for, whatever recorder fails and whatever the console  *)
(* does to keys in the meantime, short of setting cooling_down by hand.     *)
THEOREM DeadlinesKept ==
  ASSUME NEW c, Clients = {c}, "cooling_down" \notin AdminStatuses
  PROVE  Spec => []CoolingKeyHasDeadline
<1>1. DeadlineInv => CoolingKeyHasDeadline
  BY DEF DeadlineInv
<1>2. QED
  BY <1>1, DeadlineInit, DeadlineNext, PTL DEF Spec

=============================================================================

------------------------------ MODULE KeyPool -------------------------------
(***************************************************************************)
(* The request path of the gateway: concurrent chat requests, each driven  *)
(* by the executor through key selection, the provider call and the health *)
(* and usage hooks, next to an administrator who changes keys and a clock. *)
(*                                                                         *)
(* The program is single-threaded and asynchronous: what runs between two  *)
(* awaits is one action, and anything may happen at an await.  A client is *)
(* a connection with at most one request in flight; pc[c] names the        *)
(* asynchronous call its request makes next.                               *)
(*                                                                         *)
(* One pool with one provider (strategy cursors are per pool; selection    *)
(* filters by pool and provider before anything else is done with keys).   *)
(* A request is one that the route accepted: a body that is refused (400)  *)
(* or a model that nothing serves (503) is answered before the executor.   *)
(***************************************************************************)
EXTENDS KeyStore, Rotation, Sequences

CONSTANTS
  NoKey,            \* not a key
  Clients,          \* connections that issue requests
  SeededKeys,       \* keys of the config file, in the store at the start
  Rpm,              \* [Keys -> Nat], 0 for a key without rpmLimit
  MaxAttempts,      \* retry.maxAttempts
  Threshold,        \* coolingDownFailureThreshold
  CoolingDown,      \* coolingDownMs, in clock ticks
  Minute,           \* 60 000 ms, in clock ticks
  CallerExclusions, \* the excludedKeyIds callers pass: {} or a sticky session's
  AdminStatuses,    \* the statuses the console sets
  Faults,           \* recorders that may throw: a subset of {"usage", "health"}
  MaxRequests,      \* bound: requests issued in all
  MaxAdmin,         \* bound: administrator operations in all
  MaxNow            \* bound: clock ticks

ASSUME KeyPoolAssumption ==
  /\ NoKey \notin Keys
  /\ IsFiniteSet(Clients)
  /\ SeededKeys \subseteq Keys
  /\ Strategy \in {"round_robin", "weighted_round_robin"}
  /\ Weight \in [Keys -> Nat]
  /\ Rpm \in [Keys -> Nat]
  /\ MaxAttempts \in Nat \ {0}
  /\ Threshold \in Nat \ {0}
  /\ CoolingDown \in Nat
  /\ Minute \in Nat \ {0}
  /\ CallerExclusions \subseteq SUBSET Keys
  /\ AdminStatuses \subseteq Status
  /\ Faults \subseteq {"usage", "health"}

VARIABLES
  \* shared by all requests
  store,      \* the key repository
  windows,    \* the quota manager's request window of each key
  cursor,     \* the strategy's cursor for the pool
  now,        \* the clock
  \* of the request in flight on a client
  pc,
  excluded,   \* callerExcluded
  attempted,  \* attemptedKeyIds
  listed,     \* the keys findByPool returned, with the status they had then
  chosen,     \* selected.key.id
  lastError,  \* lastProviderError: none, retryable or fatal
  verdict,    \* the health service's decision after a failure
  answer,     \* the response decided on
  entries,    \* usage entries recorded for the request
  \* history: how often in a row the provider failed with each key, or
  \* NoCount where a recorder that threw kept that from the health service
  streak,
  \* bounds
  issued, adminOps

shared == <<store, windows, cursor, now>>
local  == <<pc, excluded, attempted, listed, chosen, lastError, verdict,
            answer, entries>>
vars   == <<shared, local, issued, adminOps, streak>>

PC == {"idle", "release", "find", "pick", "charge", "sending", "succeeded",
       "recover", "log_success", "log_failure", "count_failure", "judge",
       "log_status", "exhausted", "report"}

Verdict == [next : {"degraded", "cooling_down"}, until : Nat, changed : BOOLEAN]
NoVerdict == [next |-> "degraded", until |-> 0, changed |-> FALSE]
NoCount == -1

-----------------------------------------------------------------------------
(* Quota: a fixed window per key, replaced when the minute changes.         *)

WindowStart(t) == (t \div Minute) * Minute

Window == [start : Nat \cup {NoDeadline}, count : Nat]
NoWindow == [start |-> NoDeadline, count |-> 0]

CurrentWindow(w, t) ==
  IF w.start = WindowStart(t) THEN w ELSE [start |-> WindowStart(t), count |-> 0]

\* Mutant of QuotaEligible: the limit itself still passes.
QuotaEligibleInclusive(k) ==
  Rpm[k] = 0 \/ CurrentWindow(windows[k], now).count <= Rpm[k]

QuotaEligible(k) ==
  Rpm[k] = 0 \/ CurrentWindow(windows[k], now).count < Rpm[k]

\* Mutant of RecordRequest: counted when used and again when sent.
RecordRequestTwice(k) ==
  LET w == CurrentWindow(windows[k], now)
  IN  IF Rpm[k] = 0 THEN windows
      ELSE [windows EXCEPT ![k] = [w EXCEPT !.count = @ + 2]]

RecordRequest(k) ==
  LET w == CurrentWindow(windows[k], now)
  IN  IF Rpm[k] = 0 THEN windows
      ELSE [windows EXCEPT ![k] = [w EXCEPT !.count = @ + 1]]

-----------------------------------------------------------------------------
(* Selection                                                                *)

\* Mutant of Barred: a retry may pick the key that just failed.
BarredByCaller(c) == excluded[c]

\* Keys a selection skips: the caller's, and those this request tried.
Barred(c) == excluded[c] \cup Range(attempted[c])

\* Mutant of Eligible: disabled keys are skipped, cooling ones are not.
EligibleThoughCooling(c) ==
  {k \in DOMAIN listed[c] :
     /\ k \notin Barred(c)
     /\ QuotaEligible(k)
     /\ listed[c][k] # "disabled"}

\* Mutant of Eligible: cooling keys are skipped, disabled ones are not.
EligibleThoughDisabled(c) ==
  {k \in DOMAIN listed[c] :
     /\ k \notin Barred(c)
     /\ QuotaEligible(k)
     /\ listed[c][k] # "cooling_down"}

Eligible(c) ==
  {k \in DOMAIN listed[c] :
     /\ k \notin Barred(c)
     /\ QuotaEligible(k)
     /\ listed[c][k] \notin {"disabled", "cooling_down"}}

\* Mutant of ShouldRetry: one attempt short.
ShouldRetryEarlyStop(error, attempt) ==
  error = "retryable" /\ attempt + 1 < MaxAttempts

ShouldRetry(error, attempt) == error = "retryable" /\ attempt < MaxAttempts

-----------------------------------------------------------------------------
Init ==
  /\ store = [k \in SeededKeys |-> FreshRecord]
  /\ windows = [k \in Keys |-> NoWindow]
  /\ cursor = 0
  /\ now = 0
  /\ pc = [c \in Clients |-> "idle"]
  /\ excluded = [c \in Clients |-> {}]
  /\ attempted = [c \in Clients |-> <<>>]
  /\ listed = [c \in Clients |-> [k \in {} |-> "healthy"]]
  /\ chosen = [c \in Clients |-> NoKey]
  /\ lastError = [c \in Clients |-> "none"]
  /\ verdict = [c \in Clients |-> NoVerdict]
  /\ answer = [c \in Clients |-> "none"]
  /\ entries = [c \in Clients |-> 0]
  /\ streak = [k \in Keys |-> 0]
  /\ issued = 0
  /\ adminOps = 0

Goto(c, label) == pc' = [pc EXCEPT ![c] = label]

(* A chat request arrives and the executor starts its first attempt. *)
Submit(c, ex) ==
  /\ pc[c] = "idle"
  /\ issued < MaxRequests
  /\ issued' = issued + 1
  /\ excluded' = [excluded EXCEPT ![c] = ex]
  /\ attempted' = [attempted EXCEPT ![c] = <<>>]
  /\ lastError' = [lastError EXCEPT ![c] = "none"]
  /\ answer' = [answer EXCEPT ![c] = "none"]
  /\ entries' = [entries EXCEPT ![c] = 0]
  /\ Goto(c, "release")
  /\ UNCHANGED <<shared, listed, chosen, verdict, adminOps, streak>>

(* Scheduler: await releaseExpiredCooldowns(new Date()) *)
Release(c) ==
  /\ pc[c] = "release"
  /\ store' = ReleaseExpiredCooldowns(store, now)
  /\ Goto(c, "find")
  /\ UNCHANGED <<windows, cursor, now, excluded, attempted, listed, chosen,
                 lastError, verdict, answer, entries, issued, adminOps, streak>>

(* Scheduler: await findByPool; the records returned are a snapshot. *)
Find(c) ==
  /\ pc[c] = "find"
  /\ listed' = [listed EXCEPT ![c] = [k \in DOMAIN store |-> store[k].status]]
  /\ Goto(c, "pick")
  /\ UNCHANGED <<shared, excluded, attempted, chosen, lastError, verdict,
                 answer, entries, issued, adminOps, streak>>

(* Scheduler: filter the snapshot, then await strategy.selectKey.  Asking   *)
(* the quota manager about a key replaces its window if it is of an earlier *)
(* minute; with no key left the strategy throws.                            *)
Pick(c) ==
  /\ pc[c] = "pick"
  /\ windows' = [k \in Keys |->
                   IF k \in DOMAIN listed[c] \ Barred(c) /\ Rpm[k] # 0
                   THEN CurrentWindow(windows[k], now)
                   ELSE windows[k]]
  /\ \/ /\ Eligible(c) = {}
        /\ Goto(c, "exhausted")
        /\ UNCHANGED <<cursor, chosen>>
     \/ \E k \in Eligible(c) :
          /\ ServedBy(Eligible(c), k, cursor)
          /\ chosen' = [chosen EXCEPT ![c] = k]
          /\ cursor' = cursor + 1
          /\ Goto(c, "charge")
  /\ listed' = [listed EXCEPT ![c] = [k \in {} |-> "healthy"]]
  /\ UNCHANGED <<store, now, excluded, attempted, lastError, verdict, answer,
                 entries, issued, adminOps, streak>>

(* Scheduler: the request is counted only after await markUsed; then the    *)
(* executor notes the key and calls adapter.send.                           *)
Charge(c) ==
  /\ pc[c] = "charge"
  /\ windows' = RecordRequest(chosen[c])
  /\ attempted' = [attempted EXCEPT ![c] = Append(@, chosen[c])]
  /\ Goto(c, "sending")
  /\ UNCHANGED <<store, cursor, now, excluded, listed, chosen, lastError,
                 verdict, answer, entries, issued, adminOps, streak>>

(* The provider answers 2xx. *)
ProviderSucceeds(c) ==
  /\ pc[c] = "sending"
  /\ streak' = [streak EXCEPT ![chosen[c]] = 0]
  /\ Goto(c, "succeeded")
  /\ UNCHANGED <<shared, excluded, attempted, listed, chosen, lastError,
                 verdict, answer, entries, issued, adminOps>>

(* catch of execute: the error is normalised and the failure hook starts. *)
CatchError(c, error) ==
  /\ lastError' = [lastError EXCEPT ![c] = error]
  /\ Goto(c, "log_failure")
  /\ UNCHANGED <<shared, excluded, attempted, listed, chosen, verdict,
                 answer, entries, issued, adminOps>>

(* The provider answers an error status or the call fails: retryable for    *)
(* 429, 500, 502, 503, 504 and network errors, fatal otherwise.             *)
ProviderFails(c) ==
  /\ pc[c] = "sending"
  /\ streak' = [streak EXCEPT ![chosen[c]] = IF @ = NoCount THEN @ ELSE @ + 1]
  /\ \E error \in {"retryable", "fatal"} : CatchError(c, error)

(* onAttemptSuccess: await usageRecorder.record *)
RecordUsage(c) ==
  /\ pc[c] = "succeeded"
  /\ entries' = [entries EXCEPT ![c] = @ + 1]
  /\ Goto(c, "recover")
  /\ UNCHANGED <<shared, excluded, attempted, listed, chosen, lastError,
                 verdict, answer, issued, adminOps, streak>>

(* onAttemptSuccess: await keyHealthService.recordSuccess *)
RecordSuccess(c) ==
  /\ pc[c] = "recover"
  /\ store' = ResetFailures(store, chosen[c])
  /\ Goto(c, "log_success")
  /\ UNCHANGED <<windows, cursor, now, excluded, attempted, listed, chosen,
                 lastError, verdict, answer, entries, issued, adminOps, streak>>

(* The locals of a request that has been answered. *)
Forget(c) ==
  /\ excluded' = [excluded EXCEPT ![c] = {}]
  /\ attempted' = [attempted EXCEPT ![c] = <<>>]
  /\ chosen' = [chosen EXCEPT ![c] = NoKey]
  /\ lastError' = [lastError EXCEPT ![c] = "none"]
  /\ UNCHANGED <<listed, verdict>>

(* onAttemptSuccess: the health events are written, execute returns and the *)
(* route sends the provider's response.                                     *)
AnswerSuccess(c) ==
  /\ pc[c] = "log_success"
  /\ answer' = [answer EXCEPT ![c] = "ok"]
  /\ Forget(c)
  /\ Goto(c, "idle")
  /\ UNCHANGED <<shared, entries, issued, adminOps, streak>>

(* Mutant of LogFailure: every failed attempt leaves a usage entry. *)
LogFailureWithUsage(c) ==
  /\ pc[c] = "log_failure"
  /\ entries' = [entries EXCEPT ![c] = @ + 1]
  /\ Goto(c, "count_failure")
  /\ UNCHANGED <<shared, excluded, attempted, listed, chosen, lastError,
                 verdict, answer, issued, adminOps, streak>>

(* onAttemptFailure: await healthEventRecorder.record *)
LogFailure(c) ==
  /\ pc[c] = "log_failure"
  /\ Goto(c, "count_failure")
  /\ UNCHANGED <<shared, excluded, attempted, listed, chosen, lastError,
                 verdict, answer, entries, issued, adminOps, streak>>

(* Mutant of CountFailure: the verdict goes by the count before this failure. *)
CountFailureLate(c) ==
  LET k == chosen[c]
      next == IF store[k].failures >= Threshold THEN "cooling_down"
                                                ELSE "degraded"
  IN
  /\ pc[c] = "count_failure"
  /\ store' = RecordFailure(store, k)
  /\ \/ /\ Has(store, k)
        /\ verdict' = [verdict EXCEPT ![c] =
                         [next    |-> next,
                          until   |-> now + CoolingDown,
                          changed |-> store[k].status # next]]
        /\ Goto(c, "judge")
     \/ /\ ~Has(store, k)
        /\ Goto(c, "log_status")
        /\ UNCHANGED verdict
  /\ UNCHANGED <<windows, cursor, now, excluded, attempted, listed, chosen,
                 lastError, answer, entries, issued, adminOps, streak>>

(* keyHealthService.recordFailure: the count is raised, and the status the  *)
(* key should get is decided from the record as it was at that moment.      *)
CountFailure(c) ==
  LET k == chosen[c]
      next == IF store[k].failures + 1 >= Threshold THEN "cooling_down"
                                                    ELSE "degraded"
  IN
  /\ pc[c] = "count_failure"
  /\ store' = RecordFailure(store, k)
  /\ \/ /\ Has(store, k)
        /\ verdict' = [verdict EXCEPT ![c] =
                         [next    |-> next,
                          until   |-> now + CoolingDown,
                          changed |-> store[k].status # next]]
        /\ Goto(c, "judge")
     \/ /\ ~Has(store, k)
        /\ Goto(c, "log_status")
        /\ UNCHANGED verdict
  /\ UNCHANGED <<windows, cursor, now, excluded, attempted, listed, chosen,
                 lastError, answer, entries, issued, adminOps, streak>>

(* keyHealthService.recordFailure: the decision is applied to whatever      *)
(* record the key has by now.                                               *)
Judge(c) ==
  /\ pc[c] = "judge"
  /\ store' = CASE verdict[c].next = "cooling_down" ->
                     StartCoolingDown(store, chosen[c], verdict[c].until)
                [] verdict[c].next = "degraded" /\ verdict[c].changed ->
                     UpdateStatus(store, chosen[c], "degraded")
                [] OTHER -> store
  /\ Goto(c, "log_status")
  /\ UNCHANGED <<windows, cursor, now, excluded, attempted, listed, chosen,
                 lastError, verdict, answer, entries, issued, adminOps, streak>>

(* onAttemptFailure: a change of status is logged; then execute retries     *)
(* with another key or gives up with the last provider error.               *)
FinishFailure(c) ==
  /\ pc[c] = "log_status"
  /\ verdict' = [verdict EXCEPT ![c] = NoVerdict]
  /\ \/ /\ ShouldRetry(lastError[c], Len(attempted[c]))
        /\ Goto(c, "release")
        /\ UNCHANGED answer
     \/ /\ ~ShouldRetry(lastError[c], Len(attempted[c]))
        /\ answer' = [answer EXCEPT ![c] = "provider_error"]
        /\ Goto(c, "report")
  /\ UNCHANGED <<shared, excluded, attempted, listed, chosen, lastError,
                 entries, issued, adminOps, streak>>

(* Mutant of Exhausted: wait for a key instead of giving up. *)
ExhaustedTriesAgain(c) ==
  /\ pc[c] = "exhausted"
  /\ Goto(c, "release")
  /\ UNCHANGED <<shared, excluded, attempted, listed, chosen, lastError,
                 verdict, answer, entries, issued, adminOps, streak>>

(* await onKeyExhausted; execute then throws the last provider error, or a  *)
(* generic one if no key was ever tried.                                    *)
Exhausted(c) ==
  /\ pc[c] = "exhausted"
  /\ answer' = [answer EXCEPT ![c] = "provider_error"]
  /\ Goto(c, "report")
  /\ UNCHANGED <<shared, excluded, attempted, listed, chosen, lastError,
                 verdict, entries, issued, adminOps, streak>>

(* catch of the route: one usage entry for the request, then the response. *)
ReportError(c) ==
  /\ pc[c] = "report"
  /\ entries' = [entries EXCEPT ![c] = @ + 1]
  /\ Forget(c)
  /\ Goto(c, "idle")
  /\ UNCHANGED <<shared, answer, issued, adminOps, streak>>

-----------------------------------------------------------------------------
(* Recorders that throw (SQLite storage: a full disk, a locked database).   *)

(* Both writes of the success hook are inside the try of execute: their     *)
(* errors are normalised as a retryable provider error.                     *)
SuccessHookThrows(c) ==
  /\ \/ pc[c] = "succeeded" /\ "usage" \in Faults
     \/ pc[c] = "log_success" /\ "health" \in Faults
  /\ streak' = [streak EXCEPT ![chosen[c]] = NoCount]
  /\ CatchError(c, "retryable")

(* An error of the failure hook or of onKeyExhausted leaves execute.        *)
(* log_status writes an event only if the status changed and the key still  *)
(* exists.                                                                  *)
FailureHookThrows(c) ==
  /\ "health" \in Faults
  /\ \/ pc[c] \in {"log_failure", "exhausted"}
     \/ pc[c] = "log_status" /\ verdict[c].changed /\ Has(store, chosen[c])
  /\ streak' = IF pc[c] = "log_failure"
               THEN [streak EXCEPT ![chosen[c]] = NoCount] ELSE streak
  /\ answer' = [answer EXCEPT ![c] = "request_error"]
  /\ verdict' = [verdict EXCEPT ![c] = NoVerdict]
  /\ Goto(c, "report")
  /\ UNCHANGED <<shared, excluded, attempted, listed, chosen, lastError,
                 entries, issued, adminOps>>

(* Mutant of ReportThrows: the failed write is ignored. *)
ReportThrowsSilently(c) ==
  /\ pc[c] = "report"
  /\ "usage" \in Faults
  /\ Forget(c)
  /\ Goto(c, "idle")
  /\ UNCHANGED <<shared, answer, entries, issued, adminOps, streak>>

(* The route's own usage entry cannot be written: the error handler answers. *)
ReportThrows(c) ==
  /\ pc[c] = "report"
  /\ "usage" \in Faults
  /\ answer' = [answer EXCEPT ![c] = "request_error"]
  /\ Forget(c)
  /\ Goto(c, "idle")
  /\ UNCHANGED <<shared, entries, issued, adminOps, streak>>

-----------------------------------------------------------------------------
(* The administrator's console, and time.                                   *)

AdminOp == adminOps < MaxAdmin /\ adminOps' = adminOps + 1

(* POST /admin/api/keys: the record is replaced, or created. *)
AdminUpsert(k) ==
  /\ AdminOp
  /\ store' = Put(store, k, FreshRecord)
  /\ streak' = [streak EXCEPT ![k] = 0]
  /\ UNCHANGED <<windows, cursor, now, local, issued>>

(* PATCH /admin/api/keys/:id/status *)
AdminSetStatus(k, status) ==
  /\ AdminOp
  /\ Has(store, k)
  /\ store' = UpdateStatus(store, k, status)
  /\ UNCHANGED <<windows, cursor, now, local, issued, streak>>

(* DELETE /admin/api/keys/:id; the key's request window stays. *)
AdminDelete(k) ==
  /\ AdminOp
  /\ Has(store, k)
  /\ store' = Delete(store, k)
  /\ streak' = [streak EXCEPT ![k] = 0]
  /\ UNCHANGED <<windows, cursor, now, local, issued>>

Tick ==
  /\ now < MaxNow
  /\ now' = now + 1
  /\ UNCHANGED <<store, windows, cursor, local, issued, adminOps, streak>>

(* What the program does for the request of a client, once submitted. *)
Step(c) ==
  \/ Release(c) \/ Find(c) \/ Pick(c) \/ Charge(c)
  \/ ProviderSucceeds(c) \/ ProviderFails(c)
  \/ RecordUsage(c) \/ RecordSuccess(c) \/ AnswerSuccess(c)
  \/ LogFailure(c) \/ CountFailure(c) \/ Judge(c) \/ FinishFailure(c)
  \/ Exhausted(c) \/ ReportError(c)
  \/ SuccessHookThrows(c) \/ FailureHookThrows(c) \/ ReportThrows(c)

Admin ==
  \E k \in Keys :
    \/ AdminUpsert(k)
    \/ AdminDelete(k)
    \/ \E status \in AdminStatuses : AdminSetStatus(k, status)

Next ==
  \/ \E c \in Clients : Step(c) \/ \E ex \in CallerExclusions : Submit(c, ex)
  \/ Admin
  \/ Tick

(* The event loop runs every continuation that is ready, and a provider     *)
(* call settles (fetch gives up on a silent peer).  Nothing obliges clients *)
(* or the administrator to act.                                             *)
Spec == Init /\ [][Next]_vars /\ \A c \in Clients : WF_vars(Step(c))

-----------------------------------------------------------------------------
(* Properties                                                               *)

(* Every variable has its type. *)
TypeOK ==
  /\ DOMAIN store \subseteq Keys
  /\ \A k \in DOMAIN store : store[k] \in Record
  /\ windows \in [Keys -> Window]
  /\ cursor \in Nat
  /\ now \in Nat
  /\ pc \in [Clients -> PC]
  /\ excluded \in [Clients -> SUBSET Keys]
  /\ attempted \in [Clients -> Seq(Keys)]
  /\ DOMAIN listed = Clients
  /\ \A c \in Clients : /\ DOMAIN listed[c] \subseteq Keys
                        /\ \A k \in DOMAIN listed[c] : listed[c][k] \in Status
  /\ chosen \in [Clients -> Keys \cup {NoKey}]
  /\ lastError \in [Clients -> {"none", "retryable", "fatal"}]
  /\ verdict \in [Clients -> Verdict]
  /\ answer \in [Clients -> {"none", "ok", "provider_error", "request_error"}]
  /\ entries \in [Clients -> Nat]
  /\ streak \in [Keys -> Nat \cup {NoCount}]
  /\ issued \in Nat
  /\ adminOps \in Nat

(* Limiting a key's requests is checked in one continuation and counted two *)
(* awaits later, so a limit can be exceeded, but never by more than the     *)
(* number of other requests that can stand between check and count.         *)
RpmOvershootBounded ==
  \A k \in Keys : Rpm[k] > 0 => windows[k].count < Rpm[k] + Cardinality(Clients)

\* The requests that chose k and are not counted yet.
Reserving(k) == {c \in Clients : pc[c] = "charge" /\ chosen[c] = k}

(* scheduler.ts:29-40, what makes it so: the requests between check and     *)
(* count are part of the budget.                                            *)
RpmReserve ==
  \A k \in Keys :
    Rpm[k] > 0 =>
      windows[k].count + Cardinality(Reserving(k)) < Rpm[k] + Cardinality(Clients)

(* The health service counts a failure and changes the status in two steps, *)
(* while others reset, release, replace and delete the key: yet a key with  *)
(* failures on record never passes for healthy, except while the request    *)
(* that counted the failure is between the two steps.                       *)
HealthyMeansNoFailures ==
  \A k \in DOMAIN store :
    store[k].status = "healthy" /\ store[k].failures > 0 =>
      \E c \in Clients : pc[c] = "judge" /\ chosen[c] = k /\ verdict[c].changed

(* A request gives up for one of three reasons: no key is left, the error   *)
(* does not permit a retry, or all its attempts are spent.                  *)
GivesUpOnlyWithReason ==
  [][\A c \in Clients :
       answer[c] = "none" /\ answer'[c] = "provider_error" =>
         \/ pc[c] = "exhausted"
         \/ lastError[c] = "fatal"
         \/ Len(attempted[c]) = MaxAttempts]_vars

(* Without recorder faults a request leaves exactly one usage entry, on the *)
(* success path from the hook, on every other path from the route.          *)
OneUsageEntryPerRequest ==
  \A c \in Clients : pc[c] = "idle" /\ answer[c] # "none" => entries[c] = 1

(* Whatever recorders fail, a response other than an internal error is      *)
(* accounted for: its request left at least one usage entry.                *)
AnsweredIsRecorded ==
  \A c \in Clients :
    pc[c] = "idle" /\ answer[c] \in {"ok", "provider_error"} => entries[c] >= 1

(* README.md:199-203, where requests do not overlap and the console leaves  *)
(* the keys alone: a failure that was judged has left its key degraded, or  *)
(* cooling from the Threshold-th in a row on; between requests the status   *)
(* of a key is the one its failures call for, and it has a deadline exactly *)
(* while it cools.  The failures on record are the provider's in a row, but *)
(* after a recorder threw where a hook had yet to tell the health service   *)
(* (app.ts:85 leaves a failure uncounted, app.ts:127 and 142 turn a success *)
(* into a failure): then they are some number, until the key next succeeds. *)
HealthPolicyInTurn ==
  /\ \A c \in Clients :
       pc[c] = "log_status" /\ Has(store, chosen[c]) =>
         LET r == store[chosen[c]] IN
         /\ r.status = IF r.failures >= Threshold THEN "cooling_down" ELSE "degraded"
         /\ streak[chosen[c]] \in {NoCount, r.failures}
  /\ (\A c \in Clients : pc[c] = "idle") =>
       \A k \in DOMAIN store :
         LET r == store[k] IN
         /\ r.status = "healthy" <=> r.failures = 0
         /\ r.failures \in 1 .. Threshold - 1 => r.status = "degraded"
         /\ r.status = "cooling_down" <=> r.until # NoDeadline
         /\ streak[k] \in {NoCount, r.failures}

(* "Expired cooldowns are released before scheduling": every cooling key    *)
(* has the deadline the release looks for.  It holds for requests that do   *)
(* not overlap, and fails for those that do: a late success clears it.      *)
CoolingKeyHasDeadline ==
  \A k \in DOMAIN store :
    store[k].status = "cooling_down" => store[k].until # NoDeadline

(* "disabled keys are skipped by scheduling": only the administrator brings *)
(* a disabled key back.                                                     *)
OnlyAdminEnables ==
  [][\A k \in DOMAIN store \cap DOMAIN store' :
       store[k].status = "disabled" /\ store'[k].status # "disabled" => Admin]_vars

\* A request that may still use a key: it listed the key as usable, or chose it
\* and has not had its verdict.
Holding(c, k) ==
  \/ /\ pc[c] = "pick"
     /\ k \in DOMAIN listed[c]
     /\ listed[c][k] \notin {"disabled", "cooling_down"}
  \/ /\ pc[c] \in {"charge", "sending", "succeeded", "recover", "log_success",
                   "log_failure", "count_failure", "judge"}
     /\ chosen[c] = k

(* key-eligibility.ts:3, what the skipping comes to where requests and the  *)
(* console overlap: a disabled key that no request in flight holds is taken *)
(* up by none, and stays disabled, until the administrator acts.            *)
DisabledStaysOut ==
  [][\A k \in DOMAIN store \cap DOMAIN store' :
       store[k].status = "disabled" /\ (\A c \in Clients : ~Holding(c, k)) =>
         \/ Admin
         \/ /\ store'[k].status = "disabled"
            /\ \A c \in Clients : ~Holding(c, k)']_vars

(* Per-key RPM limit, as documented: scheduler.ts keeps it as long as no     *)
(* two selections overlap.                                                  *)
RpmRespected ==
  \A k \in Keys : Rpm[k] > 0 => windows[k].count <= Rpm[k]

(* "Single entry per logical request" (app.ts:82): kept as long as health   *)
(* events can be written, even if usage entries cannot.                     *)
SingleUsageEntry == \A c \in Clients : entries[c] <= 1

-----------------------------------------------------------------------------
(* What a client is promised: see RequestLog.                               *)

Phase(c) == IF pc[c] # "idle" THEN "open"
            ELSE IF answer[c] = "none" THEN "new" ELSE "closed"

Log == INSTANCE RequestLog WITH
         phase   <- [c \in Clients |-> Phase(c)],
         barred  <- excluded,
         tried   <- attempted,
         refused <- {c \in Clients : lastError[c] = "fatal"}

LogSpec == Log!Spec

=============================================================================

# Verification of KeyPool

KeyPool is a gateway between applications and language-model providers: it
holds a pool of API keys, picks one for each chat request, retries with another
when the provider fails, and keeps track of the health and the use of every key.
This directory specifies that behaviour in TLA+, checks it with TLC on small
instances, and proves part of it with TLAPS for every instance.

Paths below are relative to `src/apps/api/src/` unless they start with `src/`; a bare file name is that of
the one file there with that name.

## The system

The server is one Node.js process. JavaScript runs on a single thread, so what
happens between two `await`s is atomic and every `await` is a point where other
requests, the administrator's requests and the clock get their turn. All
concurrency in the models is of that kind.

| Component | State | Operations | Talks to |
|---|---|---|---|
| Chat route (`http/routes/proxy.routes.ts`) | none of its own | submit, answer, catch | executor, usage recorder |
| Executor (`core/provider-executor`, `core/retry`) | per request: excluded keys, attempted keys, last error | `execute` and its three hooks | scheduler, adapter, hooks in `app.ts` |
| Scheduler (`core/scheduler`) | none of its own | `selectKey` | repository, quota manager, strategies |
| Strategies (`core/scheduler/strategies`) | one cursor per pool and strategy | `selectKey` | - |
| Quota manager (`core/quota`) | per key: start and count of a one-minute window | `isEligible`, `recordRequest` | - |
| Key health (`core/health`) | none of its own | `recordFailure`, `recordSuccess` | repository |
| Repository (`storage/repositories`) | per key: record with status, failure count, cooldown deadline | upsert, delete, reads, six updates | memory or SQLite |
| Admin routes (`http/routes/admin.routes.ts`) | none of their own | POST, PATCH, DELETE of keys, queries | repository, runtime config, recorders |
| Runtime config (`runtime`, `providers/provider-registry.ts`) | providers, pools, models, adapters | upsert, restore at start | config object, registry |
| Recorders (`observability`) | newest-first logs with a cap (memory) or tables | record, page, stats | - |
| Demo runner (`http/routes/demo.routes.ts`) | per call: pinned key, attempts | a series of turns | executor |
| Fake provider (`providers/fake`) | per key: script state | send | - |
| OpenAI adapter (`providers/openai`) | none | send, normalizeError | network |

A chat request takes this path: route -> executor -> scheduler (release expired
cooldowns, list keys, filter, let the strategy choose, mark used, count) ->
adapter -> success hook (usage entry, reset failures, health events) or failure
hook (health event, count the failure, change the status, health event) -> next
attempt or answer.

What is hard, and what correctness means there:

* **Check, then act, across awaits.** The quota is checked two awaits before it
  is counted; keys are filtered from a snapshot; the health service decides from
  one record and writes to a later one. Wanted: bounds that survive every
  interleaving, and records that stay consistent.
* **Order of completion.** Provider calls take arbitrarily long, so successes
  and failures of one key arrive in any order.
* **Retries.** Never the same key twice, never an excluded key, at most
  `maxAttempts`, never after an error that is not retryable, and an answer always.
* **Partial failure.** Recorders write to SQLite and may throw in the middle of
  a hook. Wanted: every answer accounted for once.
* **Rotation.** A shared, ever-growing cursor over a list whose length changes.
* **Restarts.** Quota windows and cursors are forgotten, SQLite records are not.

`PROJECT.json` lists each hazard at the line where it bites.

## Modules

| Module | What it is |
|---|---|
| `KeyStore` | The in-memory key repository as operators from a store to the next store; a store is a function from the existing ids to records. |
| `SqlKeys` | The SQLite repository: the same calls as statements on a table, a set of rows. |
| `Rotation` | The list a strategy serves and which key stands at a position; shared by the next two. |
| `KeyPool` | The whole request path: route, executor, scheduler, quota, health, hooks, next to the administrator and a clock. |
| `RequestLog` | Abstract: what `execute` promises its caller. `KeyPool` implements it (`LogSpec`). |
| `RotationFairness` | Successive selections from one pool by the requests of its providers. |
| `Lifecycle` | Start-up, the console's POST, PATCH and DELETE await by await, runtime config and model routing, crashes and restarts. |
| `Registry` | Abstract: how the key registry of a gateway with a database may change. `Lifecycle` implements it (`DurableRegistry`). |
| `Console` | The recorders' logs, the routes that page through them and the browser script that shows them; sign-in and sign-out. |
| `FakeScripts` | The failure scripts of the fake provider: what a directive means and what each call answers. |
| `Demo` | The demo runner over scripted keys: turns, sessions, retries, the summary of a call. |
| `MCKeyPool`, `MCRotation`, `MCLifecycle`, `MCConsole`, `MCDemo` | Values of the constants for TLC. |
| `Lemmas` | What the proofs share: induction and recursion over numbers and finite sets, remainders. |
| `KeyPool_proofs`, `RequestLog_proofs` | Theorems about `KeyPool`; the second has the refinement of `RequestLog` and the accounting. |
| `Rotation_proofs` | Theorems about `RotationFairness`. |
| `Lifecycle_proofs`, `Routing_proofs` | Theorems about `Lifecycle`, `Registry` and `SqlKeys`; the second is about what can be routed. |
| `Console_proofs`, `Demo_proofs` | Theorems about `Console` and `Demo`. |

`KeyPool`, `Lifecycle` and `Demo` look at a request from three sides. `KeyPool` has every
await of a request and takes the configuration as given; `Lifecycle` has every
await of the console and of start-up and keeps of a request its two writes to
the repository; `Demo` has the turns and the scripts, and lets an attempt take any
key `KeyPool` might choose.

### KeyStore and SqlKeys

A record keeps `status`, `failureCount` and `coolingDownUntil` (`NoDeadline` if
absent); `Lifecycle` adds provider, pool and model. Both storages make each call
atomic (a `Map` update, or one statement on a synchronous database), so the call
is an operator. `SqlKeys` has the statements as they are written (`CASE`, `ON
CONFLICT`, `NULL` for an absent deadline), `TableOf` says which table stands for which store, and
`StorageAgrees` that the two agree on every store a gateway comes to. `KeyPool` can then use
the operators of `KeyStore` for both. `lastUsedAt` is written and never read.
Secrets, weights and limits change only when the console replaces a key; here a
key id keeps its weight and limit (constants `Weight`, `Rpm`). Not covered by the
agreement: the order of lists (insertion in the `Map`, id in the table).

### KeyPool

A client is a connection with at most one request in flight. `pc[c]` names the
asynchronous call the request makes next, so each action is the code from one
await to the next:

| `pc` | Action | Code |
|---|---|---|
| idle | `Submit` | `proxy.routes.ts` 12-32; the caller's exclusions are empty or a sticky demo session's |
| release | `Release` | `scheduler.ts` 23 |
| find | `Find` | `scheduler.ts` 25-28: `listed` is the snapshot |
| pick | `Pick` | `scheduler.ts` 29-37: filter (the quota check replaces old windows), strategy, cursor |
| charge | `Charge` | `scheduler.ts` 39-45: count in the window; executor notes the key |
| sending | `ProviderSucceeds`, `ProviderFails` | the adapter's answer, retryable or not |
| succeeded, recover, log_success | `RecordUsage`, `RecordSuccess`, `AnswerSuccess` | success hook, `app.ts` 121-170 |
| log_failure, count_failure, judge, log_status | `LogFailure`, `CountFailure`, `Judge`, `FinishFailure` | failure hook, `app.ts` 71-120 with `key-health.service.ts` 31-61; then retry or give up |
| exhausted | `Exhausted` | `onKeyExhausted` and the final throw |
| report | `ReportError` | the route's catch: one usage entry, the response |

`SuccessHookThrows`, `FailureHookThrows` and `ReportThrows` are the writes of
the recorders that throw; `Faults` says which recorders may. `AdminUpsert`,
`AdminSetStatus` and `AdminDelete` are what POST, PATCH and DELETE do to the
repository; `Tick` is the clock.

`Submit` leaves out the answers that need no key: 400 for a body the schema refuses
and 503 for a model without a route. Nothing is recorded and nothing changes there.

`streak` is a history variable: the failures of a key since its last success, as its
provider gave them; `NoCount` from the moment a recorder that threw kept one of them
(or a success) from the health service, until the next success or replacement.

Abstractions, all of them over-approximations:

* Any other step may run at any await. In memory mode an await only yields to
  the microtask queue, so requests interleave only when they are resumed in the
  same turn of the event loop (pipelined requests, provider answers that arrive
  together); the model also has orders that Node would not produce. The
  safety properties hold for all of them. The counterexamples of
  `stuck_cooldown` and `disabled` need only the wait for the provider;
  `rpm_strict` needs two selections in the same turn; `usage_single` needs one
  request and a write that fails.
* The health service's read-only calls (`findById` before and after) decide
  only which event is logged; they are part of the neighbouring step.
* Listings follow `Order` (SQLite's `ORDER BY id`). The in-memory map lists in
  order of insertion, which differs only after a key was deleted and recreated.
* One pool with one provider. Selection filters by pool and provider before
  anything else, and the shared cursor is the subject of `RotationFairness`.
* Repository calls do not throw (recorders do). A repository call that throws
  inside `selectKey` is handled by the code as if no key were left.

### RequestLog and the refinement

`RequestLog` knows only whether a request is open, which keys the caller bars,
which were tried, in order, and whether the last error permits another attempt. `Try`
requires a key neither barred nor tried, fewer than `MaxAttempts` tries and no
refusal; weak fairness of `Close` says every open request is answered.
`KeyPool` maps `tried` to the attempted keys, in order, `refused` to the requests
whose last error is fatal. `LogSpec` is checked as a property with its fairness,
so it contains the termination of every request.

### Rotation and RotationFairness

Both strategies serve a list in which a key stands `Slots` times and take
position `cursor % length`. `ServedBy(S, k, n)` says that by prefix sums, without
building the list. `RotationFairness` starts from any set of eligible keys and
any cursor and lets the providers of a pool select in any order until each had a
full round.

### Lifecycle and Registry

| Action | Code |
|---|---|
| `Boot` | `app.ts` up to the storage: the config read anew, the `Map` filled from the file |
| `SeedOne` | `sqlite-api-key.repository.ts` 157-164, one key of the file that is not in the table |
| `Open` | adapters of the file's providers of type `openai` (no other type has one), `restoreRuntimeConfigFromKeys`, listening |
| `Post` | POST up to `findById`: preset, defaults, refusals (no provider, base URL or pool), and the choice between created and updated |
| `Upsert` | the runtime config is changed, then the key is stored |
| `List`, `GoThroughList` | `restoreRuntimeConfigFromKeys` after a POST, whose list is an await old when it is used |
| `Patch`, `UpdateKeyStatus`, `RecordHealthEvent` | PATCH |
| `Drop`, `DeleteKey` | DELETE |
| `RecordAudit` | the audit entry all three end with |
| `RecorderThrows` | a health event or audit entry that cannot be written: the key has changed, the console gets an error, no entry follows |
| `CountFailure`, `Judge`, `Succeed` | the health service's writes, so that a crash can come between them; each request has its own verdict under way (`judging[r]`), so several can stand between the two |
| `Crash` | the process dies at any await; memory is gone, a table stays |

`config` holds the providers, the pools with their entries in order, and the adapter
registry, as the process has them in memory; `Route` is `resolveChatCompletionRoute`:
the first entry, in the order of pools and entries, that takes the model and whose provider has an
adapter. A behaviour runs on memory or on a database (`storage`), as the
environment chose.

The history variables are bags of audit entries: `effects` is what the operations
did, decided at the step that changes the store; `lost` is what a crash cut off before its
entry was written, and what a recorder that threw did not write. `dropped` counts, per key, failures
whose verdict a crash cut off.

`Registry` says what an operator with a database relies on: keys are uploaded, removed,
assessed (status and counters, never what the key is for), and a restart only adds keys of
the file that are missing. `DurableRegistry` is the refinement, with `reg` the store on a
database.

### Console

A behaviour follows one list page (`requests`, `health`, `audit`) on one kind of storage, with
the recorder behind it. `Record` puts an entry first (and truncates the array in memory);
`ReadPage` is the route: filter, window of one more than a page, offset cursor.
On the browser's side a fetch is a record that is `sent`, then `answered` or `failed`, then applied, and
several are in flight at once: `ClickRefresh`, `EnterTarget`, `ChooseClass`, `ChooseRange`, `LoadMore`,
`Navigate` send them; `Show`, `ShowBelow`, `ShowMore`, `KeepList`, `ShowState` apply them. `Submit`,
`Reload`, `LogOut`, `ApplyLoad`, `FailLoad` are the session. The model keeps the
differences between the three pages and the two storages: the SQL of the recorders
leaves `since` out, and on the audit page `refreshState` replaces the list without a cursor.

The audit page differs in one more way. Its listeners (`admin-panel.script.ts:376`) pass
the click's Event as the cursor, and the script appends to a list it should replace. So the rows
of a page are two variables: `items`, what the last refresh and the pages loaded since have
brought, and `older`, the rows before them, which on the audit page a click on refresh or on a
filter leaves there (`ShowBelow`). On the other two pages `older` is always empty, which
`RepeatsBounded` and `ShownMatchesFilter` assert (`AllRows`); on the audit page the list
properties speak of `items` only, because nothing holds of the rest: it repeats what is
shown and mixes filters with nothing recorded.

`coherent` is a history variable: the last refresh arrived and overlapped no other fetch of the
list, and neither did the "load more" fetches since. Without it none of the list properties
hold, since the script applies answers in the order they arrive and has no defence against an
older answer that comes last (`ShownMatchesFilter` fails with two overlapping refreshes).

One tab is modelled. Two tabs share `localStorage`, so that a sign-out in one leaves the other
open, with fetches that are refused; `OpenMeansSignedIn` does not hold across tabs.

### FakeScripts and Demo

`FakeScripts` translates a directive into a script with its defaults and refusals (`BuildScript`),
and a call into the outcomes it may have and the state it leaves (`Outcomes`, `Advance`). A
probability script is a free choice between two outcomes, but for `p` at an end of its range and for
seed 0, where the generator yields only 0.

`Demo` takes a call through its turns: `List` (the session's exclusions), `Select`, `Send` (the script
decides), `Respond`, `Record` (the usage entry of a success), `Succeed` (the rest of the hook, and the pin),
`FailAttempt`, `Exhausted`, `Catch`, and the next turn or the answer; `Refuse` and `CatchThrows` are
the other answers. `setting.throws` says which recorders may throw. In the success hook, before its
usage entry (`hook`) or after it (`judge`), the attempt fails with a network error (`Fails`) and the
turn is retried; the entry, if it was written, stays. In the failure hook or the event of an exhausted pool
the error leaves `execute` (`HookThrows`): no retry, and the attempt under way is not in the list the result is made from. Scripts are shared by the keys of a
provider that have none of their own. `AddKey` and `DeleteKey` are the console between any two
awaits; `Tick` is the clock. `Exhausted` may happen at every selection, since whether a key is eligible is `KeyPool`'s matter.

## What is checked

| Run | Result | What it shows |
|---|---|---|
| `requests` | holds | two overlapping requests, two keys, two attempts, sticky exclusions, one administrator operation, one tick |
| `rpm` | holds | two clients, four requests, a limit of 1, weights 2 and 1, a change of minute, usage entries that fail |
| `serial` | holds | one client, four requests, a limit of 1, every recorder may throw at every write: the health policy, deadlines and limits where nothing overlaps |
| `lifecycle` | holds | start-up, two administrators, two failing requests, recorders that throw and crashes, on memory and on a database |
| `console` | holds | paging, filtering and signing in while entries arrive; fetches that overlap, fail and are reordered |
| `demo` | holds | sessions, bursts, periodic and random failures, recorders that throw in the hooks and in the catch, files that are refused |
| `fair` | holds | one provider, weights 1, 1, 2, 3, every subset of the keys, cursors 0 to 12 |
| `shared` | violated | two providers that share a pool do not rotate |
| `stuck_cooldown` | violated | a late success leaves a cooling key without a deadline |
| `disabled` | violated | a late failure re-enables a disabled key |
| `rpm_strict` | violated | two overlapping selections exceed a limit of one |
| `usage_single` | violated | a failed health event makes a request leave two usage entries |

Properties:

* `RpmOvershootBounded`, with `RpmReserve` behind it: a limit is exceeded by less
  than the number of clients. This is the guarantee the code really gives where
  `RpmRespected`, the documented one, fails.
* `HealthyMeansNoFailures`: over all interleavings of counting, judging,
  resetting, releasing and administration, a key with failures on record is
  never `healthy`, except between the two steps of the request that is about to
  change its status.
* `HealthPolicyInTurn`: the policy of `src/README.md` 199-203 for requests that do not
  overlap. When the failure hook has judged, the key is cooling exactly if its count has reached the threshold,
  and degraded below it. Between requests a key is healthy exactly if its count is zero, degraded
  below the threshold, and has a deadline exactly if it is cooling. The count is the number of the provider's failures
  since the last success, unless a recorder that threw came between: a failure log that cannot be
  written leaves its failure uncounted, and a success whose entries cannot be written counts as a
  failure. `streak` is `NoCount` from then to the next success, so that the property claims the
  policy for the count alone.
* `RpmRespected`, `CoolingKeyHasDeadline`: documented, violated where requests overlap (`rpm_strict`,
  `stuck_cooldown`), and checked in `serial`, where they do not.
* `OneUsageEntryPerRequest`, `AnsweredIsRecorded`: accounting without and with
  failing recorders. `SingleUsageEntry` is documented; it holds in `rpm`, where usage entries fail, and is
  violated in `usage_single`, where health events do.
* `GivesUpOnlyWithReason`: no request gives up while it may still retry.
* `DisabledStaysOut`: what the code does give where the documented `OnlyAdminEnables` fails. A disabled
  key that no request in flight holds (listed as usable, or chose and has not judged) is taken up by
  none and stays disabled until the administrator acts; so the requests that were under way when the key was
  disabled are the only ones that can bring it back.
* `LogSpec`: the promise of the executor, with liveness.
* `FullRoundIsFair`: a full round of selections serves each key its share, for one provider.
* `StoredKeysRoutable`, `StoredKeyGetsAdapter`: a key the console stored is in the routing
  at once, and has an adapter, or gets one when its POST is through.
* `RestartOnlyReopens`: how far the running gateway and a restart drift apart. The running process has
  applied the POSTs one by one and DELETE undoes nothing; the restart goes through the list of the
  stored keys. A restart serves a route the running gateway does not only in an entry that the file opens to
  every model, that a POST narrowed, and that no stored key names any more; it leaves open what is open now.
* `RoutesKept`: no step takes a model's route away or moves it to a later entry, except
  where a key narrows an entry that was open to every model.
* `AuditComplete`: the audit log is exactly what the operations did, less what a crash
  cut off or a recorder that threw did not write (PATCH asks the health event's first, and without it writes no audit
  entry either); while two POSTs overlap, created and updated may be mixed up.
* `HealthyFailuresBounded`: how far a crash between counting and judging can mislead. A healthy key has no more
  failures on record than requests about to write their verdict on it and verdicts that crashes cut off.
* `StorageAgrees`, `DurableRegistry`: the two storages, and what restarts may do.
* `NoneSkipped`, `EndIsEnd`, `RepeatsBounded`, `ShownMatchesFilter`: what a list that was paged through
  while its offsets moved still guarantees: no entry that was there at the refresh is left out
  between two shown ones, a list without "load more" is complete, entries repeat only as often as
  new ones came, all are of the class chosen. They speak of the last refresh and the pages loaded since;
  exempt are fetches of the list that overlapped, a refresh that failed, and on the audit page the rows a
  click leaves above and the newest entries `refreshState` puts there. An entry recorded since the refresh may be missing between two shown ones: with
  more new entries than a page holds, the next page begins among them.
* `OpenMeansSignedIn`, `EveryFetchEnds`: the session, and that the console comes to rest.
* `SessionKeepsItsKey`, `EveryCallAnswered`: the demo's session, and an answer to every call.
* `AnswerIsComplete`: the demo's books. A call answered with results reports every turn, in order; its error
  entries are its failed turns, one for each, whatever throws; it has a success entry for every turn that
  succeeded, and others only if a health event can throw after an entry was written (`usage_single`).
* `BurstBounded`, `RetryPassesPeriodic`: what the scripts do under retries and shared use.

Every property of a passing run is broken by a mutant: an operator written before the
definition it replaces, with a comment that says which slip it makes.

**Bounds.** Two keys allow a retry with another key and exhaustion after one;
two clients allow every overlap of two requests, and each hazard in question is
between a request and one other actor. `MaxAttempts = 2` reaches both ends of the
retry rule. `Threshold = 2` gives a key all four health stages within two
failures (the code uses 3, which the violated runs keep). Times are counted in
ticks: `CoolingDown` and `Minute` of one tick and `MaxNow` of one or two let a
cooldown expire and a minute end. `MaxRequests`, `MaxAdmin` and `MaxNow` are
guards of `Submit`, `AdminOp` and `Tick` only; when they are used up the system
stops, so the runs do not check for deadlock (a request that cannot finish is a
violation of `LogSpec` instead).

For `lifecycle`: a file with one provider in two pools (one open to every model), one of another
type, without an adapter, and one key; a preset, a body for each pool, and three bodies that are refused (no
pool, no base URL, an unknown preset); two consoles, so that their operations overlap, and two
requests, so that two verdicts are under way at once. At most two operations, two crashes and two failures, and
at most three events of these together (`MaxEvents`): every property relates at most two operations
with a crash (a POST that narrows an entry, and the DELETE after it, need no crash, since the restart is computed), or a
crash with a failure before and after it, and each of these fits. `Threshold = 2` as above.

For `console`: pages of one entry, a recorder of two and three entries make every page boundary, a
truncation and a shift of the offsets happen; `MaxInFlight = 2` makes any two fetches overlap. One
setting records five entries, so that more are new between two pages than a page holds.
`MCSettings` gives each page and storage the actions it has, with bounds on
entries, ticks, list fetches and state fetches, instead of the product of all.

For `demo`, `MCSettings` are compositions: a session of three turns over a periodic and a
sequence script with keys added and deleted; two callers behind one burst limiter; one
caller on a shared periodic script; random failures with a usage recorder that throws, alone and with
the health recorder; and files that are refused, where nothing may start. `MaxAttempts = 2`.

The larger runs have 1,019,763 (`console`), 569,482 (`requests`), 380,887 (`rpm`), 300,611 (`demo`),
115,616 (`serial`) and 83,630 (`lifecycle`) distinct states; with two workers `console` takes about
two and a half minutes and the others about one each or less.

These systems stop as well when their bounds are used up; the liveness properties say what must
have happened by then.

**Fairness.** `KeyPool` has `WF_vars(Step(c))` for each client: the event loop runs every
continuation that is ready, and a provider call settles (the HTTP client gives
up on a silent peer; the adapter sets no timeout of its own). Nothing obliges
clients, the administrator or the clock to act. `ProviderFails` or
`ProviderSucceeds` is free at every call. `Lifecycle` has weak fairness of each request's `Judge` and of each
console's `Handler`: a handler that was started goes on, but a crash may come first and nobody has to
start the process again. `Console` has weak fairness of serving and applying fetches: a request
reaches the server or fails, and the browser runs the callback. `Demo` has `WF_vars(Step(c))`
for each caller, as `KeyPool` has.

## What the violated runs say

1. `stuck_cooldown`: `resetFailures` drops `coolingDownUntil` but keeps
   `cooling_down`. A request in flight while three others fail on its key, and
   then succeeds, leaves the key cooling with no deadline;
   `releaseExpiredCooldowns` skips such keys, so it never returns
   (`src/README.md:202` says expired cooldowns are released).
2. `disabled`: `recordFailure` does not look at `disabled`. The failure of a
   request in flight when the administrator disabled its key makes the key
   `degraded` or `cooling_down`, and so schedulable again (`src/README.md:201`).
3. `rpm_strict`: check and count of the RPM limit are two awaits apart.
4. `usage_single`: the success hook runs inside the `try` of the attempt; when its
   health event cannot be written the answered request is treated as failed,
   retried, and recorded again (`app.ts:82-84` promises a single entry).
5. `shared`: the cursor belongs to the pool, the list to the provider.

Other disagreements and oddities met while modelling, which no run reports:

* `src/README.md:268` pins "all turns to the same key". The pin begins with the first
  success, lives as long as one call, and lets a key in that is added after the turn listed the pool;
  `SessionKeepsItsKey` states what is left.
* `src/README.md:225` calls `burst` a sliding window. It is a fixed window that begins with a call;
  `BurstBounded` states the bound it gives, twice the allowance less one.
* `src/README.md:224`, `periodic(period=3, rate_limited)`: the bare outcome is ignored, an
  outcome needs `outcome=`. With `seed=0` a probability script always fails.
* `admin-panel.script.ts:267`: on the usage page `refreshState` calls functions no script
  defines, and a good session is signed out.
* `admin-panel.script.ts:376` and `:431`: the audit page's clicks on refresh and on a filter pass the Event as the cursor.
  The server reads it as no cursor, the script appends: the list is shown again below itself, or entries of
  one class below those of another. Enter in the target filter passes none and replaces the list.
* Two sign-ins that overlap can leave the console open with the token of the refused one;
  `OpenMeansSignedIn` excludes that (`raced`).
* The SQLite recorders of usage and health events ignore `since`: on a database a list may show entries out of its range.
* `runtime-key-config.ts:95`: a key added to an entry open to every model narrows it to its own. DELETE does not
  undo that, so the models the entry had served come back with the next start-up (`RestartOnlyReopens`).
* `admin.routes.ts:302`: when PATCH's health event cannot be written the status has changed, the console gets an error
  and the audit log never hears of it (`RecorderThrows`).
* `app.ts:142` and `:157` in the demo: a health event that throws after the usage entry leaves a turn with
  two entries (`AnswerIsComplete`).

## What is proved

Every safety property of the passing runs is a theorem, and so is, of each documented property that a run
of `KeyPool` violates, what is left of it without the cause that the run shows. The theorems hold for
every value of the constants that satisfies the assumptions of the module: any keys, clients,
consoles, limits, files, bodies, pages, scripts and bounds. The assumptions are the ranges the
code's schema and types give (`KeyPoolAssumption`, `RotationAssumption`,
`LifecycleAssumption`, `ConsoleAssumption`, `DemoAssumption`); `ListAssumption` says that the
list of stored keys which the runtime config goes through leaves no key out.
Where a theorem assumes more, this is said below.

`Lemmas` has induction in the form the provers can use: a theorem with a predicate as its parameter
cannot be instantiated, but one with a *set* can. `NatSetInduction`, `IntervalInduction`
and `FiniteSetInduction` conclude that a set contains everything, and a proof takes the set of the
values its claim holds for. `IntervalRecursion` gives the values of a recursive function. The theorems
about rotation, routing and lists rest on these.

About `KeyPool`:

* `TypeCorrect`: `Spec => []TypeOK`. The lemmas say that each repository call maps
  stores to stores; the rest is one step per action.
* `RpmBound` and `ReserveHolds`: `Spec => []RpmOvershootBounded` and `Spec => []RpmReserve`. The bound alone is not inductive:
  nothing in it says how many requests are between check and count. The
  inductive invariant adds that count, `RpmReserve`: `count + |Reserving(k)| <
  Rpm[k] + |Clients|`. `Pick` enters `Reserving` only with `count < Rpm[k]`, and at
  that moment the client itself is outside the set, so the set has at most
  `|Clients| - 1` members; `Charge` moves one from the set to the count; a new
  minute only lowers the count.
* `HealthHonest`: if the console cannot set `healthy` by hand (`"healthy" \notin
  AdminStatuses`), then `Spec => []HealthyMeansNoFailures`. The assumption is
  needed: PATCH with `healthy` keeps the failure count. The inductive invariant
  is the property with `TypeOK` and the facts that tie a pending verdict to its key.

* `PolicyHolds`: with one client (`Clients = {c}`) and a console that leaves the keys alone (`MaxAdmin = 0`),
  `Spec => []HealthPolicyInTurn`, whichever recorders throw; with overlapping requests the policy fails, as `stuck_cooldown` shows.
  `PolicyInv` says what the lone request may rely on across its awaits: its snapshot is
  the store, the key it chose is still selectable when the failure is counted, the pending verdict is the
  one the record calls for, every other record is settled, and a count that is not `NoCount` is the record's.
* `DisabledStays`: `Spec => DisabledStaysOut`, over all interleavings with the console. `Out` says that a key is
  disabled and held by nobody; a request comes to hold a key only by listing it as usable, chooses only
  what it listed, and writes to no key but the one it chose. A release touches cooling keys only.
* `RpmSequential`, `DeadlinesKept`: with one client (`Clients = {c}`), `Spec => []RpmRespected` and, if the
  console does not set `cooling_down` by hand, `Spec => []CoolingKeyHasDeadline`. These two are
  violated by `rpm_strict` and `stuck_cooldown`; the theorems say that overlap is the only
  cause, any operation of the console and any failing recorder included. The first is `RpmReserve` with
  one client. The second needs `DeadlineInv`: a key that is cooling when a lone request selects was
  cooling when it was listed (`CoolingListed`), and the chosen key does not cool before the
  recovery that would clear its deadline (`ChosenNotCooling`).
* `KeepsPromises`: `Spec => Log!Safety`, the refinement without its fairness. Each
  step of `KeyPool` is `Open`, `Try`, `Fail` or `Close` of `RequestLog`, or a
  stutter. The invariant behind it (`LocalsInv`) says what the locals of a request hold
  at each place of the loop: while it selects, the last error is not fatal and
  attempts are left; at `charge` the chosen key is not barred, which survives
  the await because only the request itself changes its exclusions; an answered
  request has forgotten its locals.
* `PromisesSound` and `AttemptsKept`: what the promises come to. `Log!Safety => []AttemptsSound` follows from the abstract
  specification alone (at most `MaxAttempts` attempts, no key twice, none the caller excluded), and
  `Spec => []AttemptsSound` from that and the refinement, with no look at `KeyPool`.
* `GivesUpHonestly`: `Spec => GivesUpOnlyWithReason`, from the same invariant: after
  a failure there is an error on record and at most `MaxAttempts` attempts.
* `Accounted` and `AccountedOnce`: `Spec => []AnsweredIsRecorded`, and with
  `Faults = {}` also `Spec => []OneUsageEntryPerRequest`. Both start from one lemma that
  sorts all steps by their effect on the entries of a request; the invariants
  say how many entries there are between the hook and the answer.
* `SingleEntry`: if health events can be written (`"health" \notin Faults`), `Spec => []SingleUsageEntry`, even with usage
  entries that fail; the fault that `usage_single` shows is the only way to a second entry.

About `RotationFairness`:

* `Typing`: `Spec => []TypeOK`. `SlotsOf` is a fold, which takes the keys in
  an order of its own; `FiniteSetInduction` shows that the length of a list does not depend on it, and
  that the places of the keys, laid end to end, are the list (`OneKeyServes`).
* `FullRound`: with one provider (`Providers = {p}`), `Spec => []FullRoundIsFair`; with two the run `shared` refutes
  it. The property speaks of the end of a round only. `WatchInv` says for every
  moment of it how often each key was served: as often as the stretch the cursor has gone meets the
  key's places, in this turn of the list or the next (`Met`, a sum of two overlaps of intervals).

About `Lifecycle`:

* `TypeCorrect`: `Spec => []TypeOK`. Keys are stored whole whatever wrote them. A record
  on its way (`consoles[c].record`) is one that POST may store, which is what `IsRequest` adds.
* `RegistrySurvives`: `Spec => DurableRegistry`, the refinement of `Registry`. Each step is an `Upload`, a `Remove`, an
  `Assess` or a `Seed`, or leaves the registry alone; that `Boot` and `Crash` leave it
  alone on a database is the point.
* `CrashesLoseVerdictsOnly`: if the console does not set `healthy` by hand (`"healthy" \notin
  Statuses`), then `Spec => []HealthyFailuresBounded`, for any finite set of requests. With `TypeOK` the property is
  inductive: `CountFailure` of a key that stays healthy adds the request to `Judging(k)`, `Judge` takes one
  away and leaves the key unhealthy, and the crash that forgets the verdicts adds them to `dropped`.
* `RepositoriesAgree`: `Spec => []StorageAgrees`. The heart is state-free: each statement is an
  operation on every row of a table with one row per key, so it maps the table
  of a store to the table of the next store. The typing of stores is needed for what `NULL` stands for: a deadline is a number, hence not
  `Null`, and a row with `NoDeadline` is one that has none.
* `AuditTrue`: `Spec => []AuditComplete`, recorders that throw included. Audit log, entries on the way, entries lost and effects are
  bags, and `AuditInv` balances them by counts: for every event, the copies in the log, on the way and
  lost (to a crash or to a recorder that threw) add up to those in `effects` (`Balanced`), exactly as long as no two operations overlapped, and with
  created and updated counted together once they did. The exact form needs that a lone POST finds its key, when it
  writes, as it found it when it decided between created and updated (`Alone`): reading and
  writing are two steps. `Pending` counts its requests directly, as a function; built as a
  fold over a set of requests it could not be reasoned about.

* `KeysRoutable`, `RestartReopens`, `RoutesStay`: `Spec => []StoredKeysRoutable`, `Spec => []RestartOnlyReopens` and `Spec => RoutesKept`.
  The pools of a running gateway and those of a restart are grown from the file by the same keys in different
  orders, so no step-by-step correspondence exists. `RoutingInv` compares both with the file
  instead: nothing of the file is gone and no entry is opened (`Kept`), what came to it some key explains
  (`Explained`; the two together are `FromFile`), every stored key has its model in
  the first entry of its provider in each pool of its name (`AllServed`), and its provider has an adapter or a POST on its way
  that brings it (`AllAdapted`). A restart adds only what the stored keys explain, and those the running
  gateway serves already; what is left are the entries the file opens and no stored key names, which the running
  gateway may have narrowed. An entry open now was never narrowed, so no stored key names it, and a restart leaves it open. `Restore` is a recursive function over the list; `IntervalInduction` carries
  the claim along it.

About `Console` and `Demo`:

* `SignInHolds`: `Spec => []OpenMeansSignedIn`. A closed overlay says nothing of the answers still under way, so
  the invariant (`SessionInv`) follows the sign-ins in flight: unless two overlapped
  there is at most one, it carries the token in store, and the form is open until it is
  answered; and an answered fetch carried the valid token.
* `Typing` (`Console`): `Spec => []TypeOK`, from the full types of fetches and pages (`TypeInv`).
* `PagesComplete`, `EndComplete`, `FewRepetitions`, `FilterShown`: `Spec => []NoneSkipped`, `[]EndIsEnd`, `[]RepeatsBounded`
  and `[]ShownMatchesFilter`. A page is read at one moment and applied at another, with entries recorded in
  between, so `ListInv` says of every answer under way what it *will* make of the list (`Fetched`). What a list
  guarantees is `ListOK`: the four properties (of `items`), and the cursor's frontier `GoesOn`, that
  every entry before the next page is shown or newer than a shown one. The frontier is what makes
  the next page continue without a gap; recording moves it only down the log, truncation only
  cuts it. `RepeatsBounded` is a count: the entries before the cursor that are not new are all
  shown, so positions exceed distinct entries by at most the new ones (`Counted`). The proof needs no property of a
  particular page: `MatchingFacts` (a filtered list keeps order, and holds exactly the
  entries that match) is an `IntervalInduction`, `Stricter` compares the lists of two queries that differ in
  `since`, which the script computes anew for every page. `RowsInv` adds that no other page than the audit page has
  rows above: only its clicks send a fetch that appends without a cursor.
* `Typing`, `AnswersComplete` (`Demo`): `Spec => []TypeOK` and `Spec => []AnswerIsComplete`. `AnswerInv` says that a call has
  reported exactly the turns before its own (all of them, once answered with results), and compares its usage entries
  and its results by counts (`HowMany`): error entries and failed results agree; success entries are at least
  the successful results, one more while the hook is half done (`judge`), and exactly that if health events can be written.
* `RetryPasses`: `Spec => []RetryPassesPeriodic`. `RetryInv`: after a failure the counter of the only script
  stands at a multiple of the period, and nobody else moves it until the retry.
* `BurstsBounded`: `Spec => []BurstBounded`. `BurstInv` says of each limiter that since the window under way
  began it let through at most its allowance, and within a window's length before that one less, because the window
  that ended began with a call that was let through and lies outside.
* `SessionHolds`: `Spec => []SessionKeepsItsKey`. The invariant says how a turn stands to the pin: while
  it selects, every key of the pool but the pinned one is barred or came after the list
  was read; the chosen key is therefore the pinned one or such a key.

Only model-checked:

* The liveness properties (`LogSpec` as a whole, `StoredKeyGetsAdapter`, `EveryFetchEnds`,
  `EveryCallAnswered`): liveness under fairness, and the fairness of `RequestLog` that `KeepsPromises` leaves
  out, are outside the prover.

One property was corrected by its proof. `NoneSkipped` used to speak of every entry held, those
recorded since the refresh included; the attempt to show `GoesOn` inductive failed on a page
that begins among new entries, and TLC found the counterexample with five entries, which
the settings of the run did not have. The property now speaks of the entries there were at the refresh, and the
run has that setting.

## Not modelled

* Lists and routing: the order of lists (insertion in the `Map`, id in the table), which base URL a provider gets
  (that a POST needs one is modelled), the strategy of
  a pool added at run time (always round robin).
* Statistics and usage snapshots (`getStats`, per-key aggregates, percentiles, latencies): read-only sums.
* The pages of keys, pools, usage and settings, HTML, styles, translations, and how the demo page
  renders its answer: they show what a fetch returned. The list pages and the session are modelled, in one tab.
* Config schema (declarative), expansion of environment variables, migrations, column conversions other than
  those of `SqlKeys`, encryption and redaction (stateless), splitting a directive into
  words: data, covered by unit tests.
* HTTP, headers and the mapping of OpenAI's errors: a provider call succeeds or fails,
  retryably or not. Repository calls that throw.
* The tasks of the config file are parsed and never used by the program.

What is left to do: `KeyPool` composed with a crash.

----------------------------- MODULE Lifecycle ------------------------------
(***************************************************************************)
(* The life of a gateway: start-up from the config file and the database,  *)
(* the console's POST, PATCH and DELETE with their audit entries, what a   *)
(* key added by the console does to providers, pools and the adapter       *)
(* registry, failures of requests, and a crash between any two awaits.     *)
(*                                                                         *)
(* A repository or recorder call does its work when it is made (a Map      *)
(* update or a synchronous SQL statement) and the handler goes on at a     *)
(* later turn, so an action runs from one await up to and including the    *)
(* next call.  consoles[c].at names the call the handler makes next.       *)
(*                                                                         *)
(* With a database a health event or an audit entry may fail to be written *)
(* (RecorderThrows); repository calls are taken not to throw.              *)
(*                                                                         *)
(* Left out: which base URL a provider gets (the first to name it wins),   *)
(* strategies of pools, secrets, weights and limits of keys.               *)
(***************************************************************************)
EXTENDS KeyStore, Sequences, FiniteSets, Bags

CONSTANTS
  Missing,        \* an optional field that is left out
  KeyList,        \* every key id, in the order list() returns them
  Models,
  FileProviders,  \* config.providers of the file
  OpenAIProviders,  \* those of type "openai": no other type has an adapter
  FilePools,      \* config.pools of the file, in order
  FileKeys,       \* key ids of the file
  OwnerOf,        \* [FileKeys -> FileProviders], the provider that lists the key
  Presets,        \* provider presets: [id -> [provider, baseUrl, pool, model]]
  DefaultModel,
  Bodies,         \* POST bodies the console sends
  Statuses,       \* statuses PATCH sets
  Consoles,       \* administrators' connections
  Requests,       \* callers' connections
  Threshold, CoolingDown,
  MaxOps,         \* bound: console operations in all
  MaxCrashes,     \* bound: crashes in all
  MaxFailures,    \* bound: failed attempts of requests in all
  MaxEvents       \* bound: the three together

Optional(S) == S \cup {Missing}

ASSUME LifecycleAssumption ==
  /\ Missing \notin Keys /\ Missing \notin Int
  /\ KeyList \in Seq(Keys)
  /\ FileProviders \subseteq STRING /\ OpenAIProviders \subseteq FileProviders
  /\ FilePools \in Seq([name : STRING, entries :
                       Seq([provider : STRING, models : SUBSET Models])])
  /\ FileKeys \subseteq Keys
  /\ OwnerOf \in [FileKeys -> FileProviders]
  /\ Presets \in [DOMAIN Presets ->
                  [provider : STRING, baseUrl : STRING, pool : STRING,
                   model : STRING]]
  /\ DefaultModel \in STRING
  /\ \A b \in Bodies : /\ b.id \in Keys
                       /\ b.provider \in Optional(STRING)
                       /\ b.baseUrl \in Optional(STRING)
                       /\ b.pool \in Optional(STRING)
                       /\ b.model \in Optional(STRING)
  /\ Statuses \subseteq Status
  /\ IsFiniteSet(Requests)
  /\ Threshold \in Nat \ {0} /\ CoolingDown \in Nat
  /\ MaxOps \in Nat /\ MaxCrashes \in Nat /\ MaxFailures \in Nat
  /\ MaxEvents \in Nat

\* list() leaves no key out.
ASSUME ListAssumption ==
  \A k \in Keys : \E i \in 1 .. Len(KeyList) : KeyList[i] = k

VARIABLES
  storage,   \* "memory" or "sqlite", fixed by the environment
  mode,      \* "down", "seeding" (buildApp runs), "up"
  store,     \* the key repository
  config,    \* app.config.providers, app.config.pools and the adapter registry
  audit,     \* the audit log, a bag of entries
  consoles,  \* the request each console has in flight
  judging,   \* the verdict each request is about to write, after its count
  \* history and bounds
  effects,   \* what console operations did to the store, as entries (a bag)
  lost,      \* entries cut off by a crash or a recorder that threw (a bag)
  dropped,   \* failures whose verdict a crash cut off, by key
  overlap,   \* two console operations have been in flight together
  ops, crashes, failures

server  == <<storage, mode, store, config, audit>>
history == <<effects, lost, dropped, overlap>>
bounds  == <<ops, crashes, failures>>
vars    == <<server, consoles, judging, history, bounds>>

-----------------------------------------------------------------------------
(* Records and the config file                                              *)

KeyRecord(x) ==
  [status |-> "healthy", failures |-> 0, until |-> NoDeadline,
   provider |-> x.provider, pool |-> x.pool, model |-> x.model]

Lists(pool, p) == \E j \in DOMAIN pool.entries : pool.entries[j].provider = p

\* The pools of the file that list the provider of a key.
PoolsOf(k) == {i \in DOMAIN FilePools : Lists(FilePools[i], OwnerOf[k])}

\* A provider without a pool gives its keys no record.
SeededKeys == {k \in FileKeys : PoolsOf(k) # {}}

FileRecord(k, i) ==
  KeyRecord([provider |-> OwnerOf[k], pool |-> FilePools[i].name,
             model |-> Missing])

Least(S)    == CHOOSE i \in S : \A j \in S : i <= j
Greatest(S) == CHOOSE i \in S : \A j \in S : i >= j

\* The Map keeps the record created last, a seeded table the first.
MemoryRecords == [k \in SeededKeys |-> FileRecord(k, Greatest(PoolsOf(k)))]
SeedRecord(k) == FileRecord(k, Least(PoolsOf(k)))

FileConfig == [providers |-> FileProviders, pools |-> FilePools, adapters |-> {}]
NoConfig   == [providers |-> {}, pools |-> <<>>, adapters |-> {}]

-----------------------------------------------------------------------------
(* Runtime config                                                           *)

EntriesOf(entries, p) == {j \in DOMAIN entries : entries[j].provider = p}

\* Mutant of UpsertEntry: the provider of a pool forgets its other models.
UpsertEntryReplacing(entries, x) ==
  IF EntriesOf(entries, x.provider) # {}
  THEN [entries EXCEPT ![Least(EntriesOf(entries, x.provider))].models = {x.model}]
  ELSE Append(entries, [provider |-> x.provider, models |-> {x.model}])

UpsertEntry(entries, x) ==
  IF EntriesOf(entries, x.provider) # {}
  THEN [entries EXCEPT ![Least(EntriesOf(entries, x.provider))].models =
                         @ \cup {x.model}]
  ELSE Append(entries, [provider |-> x.provider, models |-> {x.model}])

UpsertPool(pools, x) ==
  IF \E i \in DOMAIN pools : pools[i].name = x.pool
  THEN [i \in DOMAIN pools |->
          IF pools[i].name = x.pool
          THEN [pools[i] EXCEPT !.entries = UpsertEntry(@, x)] ELSE pools[i]]
  ELSE Append(pools, [name |-> x.pool, entries |-> UpsertEntry(<<>>, x)])

\* upsertRuntimeProviderConfig and upsertRuntimePoolConfig
Upserted(cfg, x) ==
  [cfg EXCEPT !.providers = @ \cup {x.provider}, !.pools = UpsertPool(@, x)]

\* A key of the config file carries no runtime config.
HasRuntimeConfig(r) == r.model # Missing

RestoreKey(cfg, r) ==
  IF HasRuntimeConfig(r)
  THEN [Upserted(cfg, r) EXCEPT !.adapters = @ \cup {r.provider}]
  ELSE cfg

\* Mutant of Restore: routing is restored, the adapters are not.
RestoreWithoutAdapters(cfg, keys) ==
  LET after[i \in 0 .. Len(KeyList)] ==
        IF i = 0 THEN cfg
        ELSE IF Has(keys, KeyList[i]) /\ HasRuntimeConfig(keys[KeyList[i]])
        THEN Upserted(after[i - 1], keys[KeyList[i]])
        ELSE after[i - 1]
  IN  after[Len(KeyList)]

Restore(cfg, keys) ==
  LET after[i \in 0 .. Len(KeyList)] ==
        IF i = 0 THEN cfg
        ELSE IF Has(keys, KeyList[i])
        THEN RestoreKey(after[i - 1], keys[KeyList[i]])
        ELSE after[i - 1]
  IN  after[Len(KeyList)]

\* An entry takes a model if its provider has an adapter and it names the
\* model, or none at all.
Takes(cfg, entry, m) ==
  /\ entry.provider \in cfg.adapters
  /\ entry.models = {} \/ m \in entry.models

\* The positions of the entries that take a model: pool, entry in the pool.
TakenAt(cfg, m) ==
  {p \in UNION {{i} \X DOMAIN cfg.pools[i].entries : i \in DOMAIN cfg.pools} :
     Takes(cfg, cfg.pools[p[1]].entries[p[2]], m)}

Before(p, q) == p[1] < q[1] \/ (p[1] = q[1] /\ p[2] <= q[2])

\* resolveChatCompletionRoute takes the first, if there is one.
Route(cfg, m) == {p \in TakenAt(cfg, m) : \A q \in TakenAt(cfg, m) : Before(p, q)}

-----------------------------------------------------------------------------
(* POST bodies                                                              *)

NoPreset == [provider |-> Missing, baseUrl |-> Missing, pool |-> Missing,
             model |-> Missing]

OrElse(x, y) == IF x # Missing THEN x ELSE y

KnownPreset(b) == b.preset = Missing \/ b.preset \in DOMAIN Presets

Resolve(b) ==
  LET p == IF b.preset \in DOMAIN Presets THEN Presets[b.preset] ELSE NoPreset
  IN  [provider |-> OrElse(b.provider, p.provider),
       baseUrl  |-> OrElse(b.baseUrl, p.baseUrl),
       pool     |-> OrElse(b.pool, p.pool),
       model    |-> OrElse(OrElse(b.model, p.model), DefaultModel)]

\* Mutant of Accepted: a body without a pool passes.
AcceptedWithoutPool(b) ==
  /\ KnownPreset(b)
  /\ Resolve(b).provider # Missing
  /\ Resolve(b).baseUrl # Missing

Accepted(b) ==
  /\ KnownPreset(b)
  /\ Resolve(b).provider # Missing
  /\ Resolve(b).baseUrl # Missing
  /\ Resolve(b).pool # Missing

\* The records POST may store.
Uploads == {KeyRecord(Resolve(b)) : b \in {x \in Bodies : Accepted(x)}}

-----------------------------------------------------------------------------
Idle == [at |-> "idle"]
NoVerdict == [key |-> Missing]

Init ==
  /\ storage \in {"memory", "sqlite"}
  /\ mode = "down"
  /\ store = EmptyStore
  /\ config = NoConfig
  /\ audit = EmptyBag
  /\ consoles = [c \in Consoles |-> Idle]
  /\ judging = [r \in Requests |-> NoVerdict]
  /\ effects = EmptyBag /\ lost = EmptyBag /\ dropped = [k \in Keys |-> 0]
  /\ overlap = FALSE
  /\ ops = 0 /\ crashes = 0 /\ failures = 0

(* buildApp starts: the config is read anew; in memory mode the repository *)
(* is created with the keys of the file.                                   *)
Boot ==
  /\ mode = "down"
  /\ mode' = "seeding"
  /\ config' = FileConfig
  /\ store' = IF storage = "memory" THEN MemoryRecords ELSE store
  /\ UNCHANGED <<storage, audit, consoles, judging, history, bounds>>

\* Mutant of SeedOne: the config file wins over the database.
SeedOverwriting(k) ==
  /\ mode = "seeding" /\ storage = "sqlite"
  /\ k \in SeededKeys
  /\ Put(store, k, SeedRecord(k)) # store
  /\ store' = Put(store, k, SeedRecord(k))
  /\ UNCHANGED <<storage, mode, config, audit, consoles, judging, history, bounds>>

(* seedFromConfig: a key of the file that is not in the table is inserted. *)
SeedOne(k) ==
  /\ mode = "seeding" /\ storage = "sqlite"
  /\ k \in SeededKeys
  /\ ~Has(store, k)
  /\ store' = Put(store, k, SeedRecord(k))
  /\ UNCHANGED <<storage, mode, config, audit, consoles, judging, history, bounds>>

(* All keys seeded: register the file's providers of type "openai", restore *)
(* the runtime config from the keys, listen.                               *)
Open ==
  /\ mode = "seeding"
  /\ SeededKeys \subseteq DOMAIN store
  /\ mode' = "up"
  /\ config' = Restore([config EXCEPT !.adapters = OpenAIProviders], store)
  /\ UNCHANGED <<storage, store, audit, consoles, judging, history, bounds>>

More == ops + crashes + failures < MaxEvents

-----------------------------------------------------------------------------
(* The console                                                              *)

Begin(c, request) ==
  /\ mode = "up"
  /\ consoles[c] = Idle
  /\ ops < MaxOps /\ More
  /\ ops' = ops + 1
  /\ consoles' = [consoles EXCEPT ![c] = request]
  /\ overlap' = (overlap \/ \E d \in Consoles : consoles[d] # Idle)
  /\ UNCHANGED <<server, judging, effects, lost, dropped, crashes, failures>>

Log(bag, entry) == bag (+) SetToBag({entry})

Event(action, k, outcome) == [action |-> action, id |-> k, outcome |-> outcome]

Written(k) == IF Has(store, k) THEN "key_updated" ELSE "key_created"

\* POST up to findById: it decides between "created" and "updated".
Post(c, b) ==
  /\ Accepted(b)
  /\ Begin(c, [at |-> "upsert", id |-> b.id, record |-> KeyRecord(Resolve(b)),
               event |-> Event(Written(b.id), b.id, "success")])

\* Mutant of Upsert: the runtime config is left to the pass over the list.
UpsertKeyOnly(c) ==
  LET r == consoles[c] IN
  /\ r.at = "upsert"
  /\ store' = Put(store, r.id, r.record)
  /\ effects' = Log(effects, Event(Written(r.id), r.id, "success"))
  /\ consoles' = [consoles EXCEPT ![c] = [at |-> "list", event |-> r.event]]
  /\ UNCHANGED <<storage, mode, config, audit, judging, lost, dropped, overlap, bounds>>

(* The runtime config is changed at once, then the key is stored. *)
Upsert(c) ==
  LET r == consoles[c] IN
  /\ r.at = "upsert"
  /\ config' = Upserted(config, r.record)
  /\ store' = Put(store, r.id, r.record)
  /\ effects' = Log(effects, Event(Written(r.id), r.id, "success"))
  /\ consoles' = [consoles EXCEPT ![c] = [at |-> "list", event |-> r.event]]
  /\ UNCHANGED <<storage, mode, audit, judging, lost, dropped, overlap, bounds>>

\* Mutant of List: it waits until no other console is in flight.
ListWhenAlone(c) ==
  /\ consoles[c].at = "list"
  /\ \A d \in Consoles \ {c} : consoles[d] = Idle
  /\ consoles' = [consoles EXCEPT ![c] =
                    [at |-> "restore", event |-> @.event, keys |-> store]]
  /\ UNCHANGED <<server, judging, history, bounds>>

(* restoreRuntimeConfigFromKeys lists the keys ... *)
List(c) ==
  /\ consoles[c].at = "list"
  /\ consoles' = [consoles EXCEPT ![c] =
                    [at |-> "restore", event |-> @.event, keys |-> store]]
  /\ UNCHANGED <<server, judging, history, bounds>>

(* ... and goes through the list an await later. *)
GoThroughList(c) ==
  /\ consoles[c].at = "restore"
  /\ config' = Restore(config, consoles[c].keys)
  /\ consoles' = [consoles EXCEPT ![c] = [at |-> "audit", event |-> @.event]]
  /\ UNCHANGED <<storage, mode, store, audit, judging, history, bounds>>

\* PATCH and DELETE up to findById, whose result only goes into metadata.
Patch(c, k, s) == Begin(c, [at |-> "update", id |-> k, status |-> s])
Drop(c, k)     == Begin(c, [at |-> "delete", id |-> k])

\* Mutant of UpdateKeyStatus: success is reported whether or not the key exists.
UpdateAnyway(c) ==
  LET r == consoles[c] IN
  /\ r.at = "update"
  /\ store' = UpdateStatus(store, r.id, r.status)
  /\ effects' = IF Has(store, r.id)
                THEN Log(effects, Event("key_status_changed", r.id, "success"))
                ELSE effects
  /\ consoles' = [consoles EXCEPT ![c] =
                    [at |-> "health_event",
                     event |-> Event("key_status_changed", r.id, "success")]]
  /\ UNCHANGED <<storage, mode, config, audit, judging, lost, dropped, overlap, bounds>>

UpdateKeyStatus(c) ==
  LET r == consoles[c]
      e == Event("key_status_changed", r.id,
                 IF Has(store, r.id) THEN "success" ELSE "error")
  IN
  /\ r.at = "update"
  /\ store' = UpdateStatus(store, r.id, r.status)
  /\ effects' = Log(effects, e)
  /\ consoles' = [consoles EXCEPT ![c] =
                    [at |-> IF Has(store, r.id) THEN "health_event" ELSE "audit",
                     event |-> e]]
  /\ UNCHANGED <<storage, mode, config, audit, judging, lost, dropped, overlap, bounds>>

DeleteKey(c) ==
  LET r == consoles[c]
      e == Event("key_deleted", r.id,
                 IF Has(store, r.id) THEN "success" ELSE "error")
  IN
  /\ r.at = "delete"
  /\ store' = Delete(store, r.id)
  /\ effects' = Log(effects, e)
  /\ consoles' = [consoles EXCEPT ![c] = [at |-> "audit", event |-> e]]
  /\ UNCHANGED <<storage, mode, config, audit, judging, lost, dropped, overlap, bounds>>

(* PATCH records a health event before its audit entry. *)
RecordHealthEvent(c) ==
  /\ consoles[c].at = "health_event"
  /\ consoles' = [consoles EXCEPT ![c].at = "audit"]
  /\ UNCHANGED <<server, judging, history, bounds>>

RecordAudit(c) ==
  /\ consoles[c].at = "audit"
  /\ audit' = Log(audit, consoles[c].event)
  /\ consoles' = [consoles EXCEPT ![c] = Idle]
  /\ UNCHANGED <<storage, mode, store, config, judging, history, bounds>>

(* With a database the health event or the audit entry may fail to be      *)
(* written: the operation was carried out, the console gets an error, and  *)
(* no entry follows.                                                       *)
RecorderThrows(c) ==
  /\ storage = "sqlite"
  /\ consoles[c].at \in {"health_event", "audit"}
  /\ lost' = Log(lost, consoles[c].event)
  /\ consoles' = [consoles EXCEPT ![c] = Idle]
  /\ UNCHANGED <<server, judging, effects, dropped, overlap, bounds>>

-----------------------------------------------------------------------------
(* Requests, as far as a crash matters to them                              *)

(* An attempt of request r fails: the failure is counted and the verdict    *)
(* reached; a key that is degraded already needs no write.                  *)
CountFailure(r, k) ==
  LET cool == store[k].failures + 1 >= Threshold IN
  /\ mode = "up" /\ judging[r] = NoVerdict
  /\ Has(store, k)
  /\ failures < MaxFailures /\ More
  /\ failures' = failures + 1
  /\ store' = RecordFailure(store, k)
  /\ judging' = IF cool \/ store[k].status # "degraded"
                THEN [judging EXCEPT ![r] = [key |-> k, cool |-> cool]]
                ELSE judging
  /\ UNCHANGED <<storage, mode, config, audit, consoles, history, ops, crashes>>

\* Mutant of Judge: the first failure is forgiven.
JudgeLeniently(r) ==
  LET v == judging[r] IN
  /\ v # NoVerdict
  /\ store' = IF v.cool THEN StartCoolingDown(store, v.key, CoolingDown) ELSE store
  /\ judging' = [judging EXCEPT ![r] = NoVerdict]
  /\ UNCHANGED <<storage, mode, config, audit, consoles, history, bounds>>

(* An await later its verdict is written, whatever others wrote meanwhile. *)
Judge(r) ==
  LET v == judging[r] IN
  /\ v # NoVerdict
  /\ store' = IF v.cool THEN StartCoolingDown(store, v.key, CoolingDown)
                         ELSE UpdateStatus(store, v.key, "degraded")
  /\ judging' = [judging EXCEPT ![r] = NoVerdict]
  /\ UNCHANGED <<storage, mode, config, audit, consoles, history, bounds>>

(* An attempt succeeds. *)
Succeed(k) ==
  /\ mode = "up" /\ Has(store, k)
  /\ store[k].failures > 0
  /\ store' = ResetFailures(store, k)
  /\ dropped' = [dropped EXCEPT ![k] = 0]
  /\ UNCHANGED <<storage, mode, config, audit, consoles, judging, effects, lost,
                 overlap, bounds>>

-----------------------------------------------------------------------------
\* Consoles whose operation was carried out and has no audit entry yet.
Unaudited == {c \in Consoles : consoles[c].at \in
                {"list", "restore", "health_event", "audit"}}

\* Their entries, as a bag: an entry counts once for every such console.
Pending == [e \in {consoles[c].event : c \in Unaudited} |->
              Cardinality({c \in Unaudited : consoles[c].event = e})]

\* Requests between counting a failure of a key and judging the key.
Judging(k) == {r \in Requests : judging[r].key = k}

(* The process dies at any await: requests and memory are gone. *)
Crash ==
  /\ mode # "down"
  /\ crashes < MaxCrashes /\ More
  /\ crashes' = crashes + 1
  /\ mode' = "down"
  /\ config' = NoConfig
  /\ consoles' = [c \in Consoles |-> Idle]
  /\ judging' = [r \in Requests |-> NoVerdict]
  /\ IF storage = "memory"
     THEN /\ store' = EmptyStore /\ audit' = EmptyBag
          /\ effects' = EmptyBag /\ lost' = EmptyBag
          /\ dropped' = [k \in Keys |-> 0]
     ELSE /\ lost' = lost (+) Pending
          /\ dropped' = [k \in Keys |-> dropped[k] + Cardinality(Judging(k))]
          /\ UNCHANGED <<store, audit, effects>>
  /\ UNCHANGED <<storage, overlap, ops, failures>>

Handler(c) ==
  \/ Upsert(c) \/ List(c) \/ GoThroughList(c)
  \/ UpdateKeyStatus(c) \/ DeleteKey(c)
  \/ RecordHealthEvent(c) \/ RecordAudit(c) \/ RecorderThrows(c)

Next ==
  \/ Boot \/ Open \/ Crash
  \/ \E k \in Keys : SeedOne(k) \/ Succeed(k)
  \/ \E r \in Requests : Judge(r) \/ \E k \in Keys : CountFailure(r, k)
  \/ \E c \in Consoles :
       \/ Handler(c)
       \/ \E b \in Bodies : Post(c, b)
       \/ \E k \in Keys : Drop(c, k) \/ \E s \in Statuses : Patch(c, k, s)

\* The event loop runs a handler on to its end.
Fairness ==
  /\ \A r \in Requests : WF_vars(Judge(r))
  /\ \A c \in Consoles : WF_vars(Handler(c))

Spec == Init /\ [][Next]_vars /\ Fairness

-----------------------------------------------------------------------------
(* Properties                                                               *)

StoredRecord == [status : Status, failures : Nat, until : Nat \cup {NoDeadline},
                 provider : STRING, pool : STRING, model : Optional(STRING)]

IsStore(s) == DOMAIN s \subseteq Keys /\ s \in [DOMAIN s -> StoredRecord]

IsRequest(r) ==
  /\ r.at \in {"idle", "upsert", "list", "restore", "update", "delete",
              "health_event", "audit"}
  /\ r.at = "upsert" => r.id \in Keys /\ r.record \in Uploads
  /\ r.at = "update" => r.id \in Keys /\ r.status \in Statuses
  /\ r.at = "delete" => r.id \in Keys

(* The variables keep their types; keys are stored whole, whatever wrote    *)
(* them (seeding, the console, the health service).                         *)
TypeOK ==
  /\ storage \in {"memory", "sqlite"}
  /\ mode \in {"down", "seeding", "up"}
  /\ IsStore(store)
  /\ DOMAIN consoles = Consoles
  /\ \A c \in Consoles : IsRequest(consoles[c])
  /\ judging \in [Requests -> {NoVerdict} \cup [key : Keys, cool : BOOLEAN]]
  /\ dropped \in [Keys -> Nat]
  /\ overlap \in BOOLEAN
  /\ ops \in 0 .. MaxOps /\ crashes \in 0 .. MaxCrashes
  /\ failures \in 0 .. MaxFailures

Writing(k) == \E c \in Consoles :
  /\ consoles[c].at \in {"list", "restore"}
  /\ consoles[c].event.id = k

(* runtime-key-config.ts: while the gateway is up, a key the console stored *)
(* has its model in its pool under its provider; and the provider has an    *)
(* adapter, whichever POSTs, deletions and crashes came between, unless the *)
(* POST that wrote the key has not gone through its own list yet.           *)
StoredKeysRoutable ==
  mode = "up" =>
    \A k \in DOMAIN store : HasRuntimeConfig(store[k]) =>
      LET r == store[k] IN
      /\ \E i \in DOMAIN config.pools : \E j \in DOMAIN config.pools[i].entries :
           /\ config.pools[i].name = r.pool
           /\ config.pools[i].entries[j].provider = r.provider
           /\ r.model \in config.pools[i].entries[j].models
      /\ r.provider \in config.adapters \/ Writing(k)

\* What a restart now would build.
AfterRestart == Restore([FileConfig EXCEPT !.adapters = OpenAIProviders], store)

Names(cfg) == {cfg.pools[i].name : i \in DOMAIN cfg.pools}

\* What is served: pool, provider and model, an entry without models taking
\* every model.
Routes(cfg) ==
  {t \in Names(cfg) \X cfg.providers \X Models :
     \E i \in DOMAIN cfg.pools : \E j \in DOMAIN cfg.pools[i].entries :
       /\ cfg.pools[i].name = t[1]
       /\ cfg.pools[i].entries[j].provider = t[2]
       /\ \/ cfg.pools[i].entries[j].models = {}
          \/ t[3] \in cfg.pools[i].entries[j].models}

\* Pool and provider of the entries open to every model.
OpenEntries(cfg) ==
  UNION {{<<cfg.pools[i].name, cfg.pools[i].entries[j].provider>> :
            j \in {e \in DOMAIN cfg.pools[i].entries :
                     cfg.pools[i].entries[e].models = {}}} : i \in DOMAIN cfg.pools}

\* A stored key serves provider p in a pool.
Named(pool, p) ==
  \E k \in DOMAIN store : /\ HasRuntimeConfig(store[k])
                          /\ store[k].pool = pool /\ store[k].provider = p

(* runtime-key-config.ts:95, app.ts:205, admin.routes.ts:330: how far the   *)
(* running gateway and what the next start-up would build from the file and *)
(* the stored keys drift apart.  A start-up serves a route that the running *)
(* gateway does not only in an entry that the file opens to every model,    *)
(* that a key narrowed, and that no stored key names any more (DELETE does  *)
(* not undo the narrowing); and it leaves every entry open that is open     *)
(* now.  Beyond that it only forgets what deleted and moved keys left.      *)
RestartOnlyReopens ==
  mode = "up" =>
    /\ OpenEntries(config) \subseteq OpenEntries(AfterRestart)
    /\ \A t \in Routes(AfterRestart) \ Routes(config) :
         /\ <<t[1], t[2]>> \in OpenEntries(FileConfig) \ OpenEntries(config)
         /\ ~Named(t[1], t[2])

(* runtime-key-config.ts:95: while the gateway is up the console takes a    *)
(* model no route away and moves none to a later pool or entry, but where   *)
(* a key added to an entry open to every model narrows it to its own model. *)
RoutesKept ==
  [][mode = "up" /\ mode' = "up" =>
       \A m \in Models : \A p \in Route(config, m) :
         \/ \E q \in Route(config', m) : Before(q, p)
         \/ /\ config.pools[p[1]].entries[p[2]].models = {}
            /\ config'.pools[p[1]].entries[p[2]].models # {}]_vars

\* The entries the log has, is about to have, and lost.
Accounted == audit (+) Pending (+) lost

Copies(bag, e) == IF BagIn(e, bag) THEN bag[e] ELSE 0

\* How often a bag tells what e tells; of a POST, that it created the key or
\* that it updated it.
Told(bag, e) ==
  IF e.action \in {"key_created", "key_updated"}
  THEN Copies(bag, Event("key_created", e.id, e.outcome))
         + Copies(bag, Event("key_updated", e.id, e.outcome))
  ELSE Copies(bag, e)

(* admin.routes.ts POST, PATCH, DELETE: every operation of the console has  *)
(* one entry in the audit log that tells what it did to the key (created,   *)
(* updated, changed, deleted, or nothing), or between the two came a crash, *)
(* or a recorder that threw (the health event's is asked first); and no     *)
(* entry tells of anything else.  With two consoles at once created and     *)
(* updated may be mixed up, no more.                                        *)
AuditComplete ==
  /\ \A e \in BagToSet(Accounted) \cup BagToSet(effects) :
       Told(Accounted, e) = Told(effects, e)
  /\ ~overlap => Accounted = effects

(* key-health.service.ts:46, on a database that survives: a key that is     *)
(* still healthy has no more failures on record than verdicts that crashes  *)
(* cut off after the failure was counted, and those that requests are about *)
(* to write: each failure of a healthy key has its own.                     *)
HealthyFailuresBounded ==
  \A k \in DOMAIN store : store[k].status = "healthy" =>
    store[k].failures <= dropped[k] + Cardinality(Judging(k))

\* findByPool of the Map, but for its order (insertion; the table's is by id)
FindByPool(s, pool, provider) ==
  {k \in DOMAIN s : s[k].pool = pool /\ s[k].provider = provider}

\* The statements of the SQLite repository.
Sql == INSTANCE SqlKeys WITH Null <- Missing

(* sqlite-api-key.repository.ts: on every store a gateway with a database   *)
(* comes to, each statement leaves the table that stands for what the Map   *)
(* would hold, and reads the keys the Map would return.                     *)
StorageAgrees ==
  LET table == Sql!TableOf(store) IN
  storage = "sqlite" =>
    /\ \A k \in Keys :
         /\ Sql!FindById(table, k) = IF Has(store, k) THEN {store[k]} ELSE {}
         /\ Sql!Delete(table, k) = Sql!TableOf(Delete(store, k))
         /\ Sql!RecordFailure(table, k) = Sql!TableOf(RecordFailure(store, k))
         /\ Sql!ResetFailures(table, k) = Sql!TableOf(ResetFailures(store, k))
         /\ Sql!StartCoolingDown(table, k, CoolingDown)
              = Sql!TableOf(StartCoolingDown(store, k, CoolingDown))
         /\ \A s \in Status :
              Sql!UpdateStatus(table, k, s) = Sql!TableOf(UpdateStatus(store, k, s))
         /\ \A r \in Uploads :
              Sql!Upsert(table, k, r) = Sql!TableOf(Put(store, k, r))
    /\ \A r \in Uploads :
         Sql!FindByPool(table, r.pool, r.provider) = FindByPool(store, r.pool, r.provider)
    /\ \A now \in {CoolingDown - 1, CoolingDown} :
         /\ Sql!Released(table, now) = {k \in DOMAIN store : Expired(store[k], now)}
         /\ Sql!ReleaseExpiredCooldowns(table, now)
              = Sql!TableOf(ReleaseExpiredCooldowns(store, now))

\* The registry of a gateway with a database.
Durable == INSTANCE Registry WITH
  reg <- IF storage = "sqlite" THEN store ELSE EmptyStore

(* sqlite-api-key.repository.ts:157: with a database, crashes and restarts  *)
(* included, the registry changes as Registry says.                         *)
DurableRegistry == Durable!Spec

(* admin.routes.ts:259-260: a key the console stored gets an adapter for    *)
(* its provider, unless it is deleted or the gateway goes down first.       *)
StoredKeyGetsAdapter ==
  \A k \in Keys :
    (Has(store, k) /\ HasRuntimeConfig(store[k]))
      ~> \/ mode # "up"
         \/ ~Has(store, k)
         \/ store[k].provider \in config.adapters

=============================================================================

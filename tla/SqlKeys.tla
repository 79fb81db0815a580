------------------------------- MODULE SqlKeys -------------------------------
(***************************************************************************)
(* The key repository as statements on the table api_keys, a set of rows   *)
(* with one row per id.  KeyStore has the same calls on the in-memory Map; *)
(* TableOf says which table stands for which store.                        *)
(*                                                                         *)
(* Columns kept: those of the fields KeyStore and Lifecycle keep.          *)
(***************************************************************************)
EXTENDS Integers

CONSTANT Null

NoDeadline == -1   \* coolingDownUntil of a record that has none

\* apiKeyRecordParams: an absent field is NULL.
Row(k, r) ==
  [id |-> k, provider |-> r.provider, pool |-> r.pool, metadata_json |-> r.model,
   status |-> r.status, failure_count |-> r.failures,
   cooling_down_until |-> IF r.until = NoDeadline THEN Null ELSE r.until]

\* rowToApiKeyRecord
Record(row) ==
  [provider |-> row.provider, pool |-> row.pool, model |-> row.metadata_json,
   status |-> row.status, failures |-> row.failure_count,
   until |-> IF row.cooling_down_until = Null THEN NoDeadline
                                              ELSE row.cooling_down_until]

TableOf(store) == {Row(k, store[k]) : k \in DOMAIN store}

\* SELECT ... WHERE id = ?: at most one record.
FindById(table, k) == {Record(row) : row \in {x \in table : x.id = k}}

\* SELECT ... WHERE pool = ? AND provider = ?
FindByPool(table, pool, provider) ==
  {row.id : row \in {x \in table : x.pool = pool /\ x.provider = provider}}

\* INSERT ... ON CONFLICT(id) DO UPDATE, every column from the new row.
Upsert(table, k, r) == {row \in table : row.id # k} \cup {Row(k, r)}

Delete(table, k) == {row \in table : row.id # k}

RecordFailure(table, k) ==
  {IF row.id = k THEN [row EXCEPT !.failure_count = @ + 1] ELSE row : row \in table}

ResetFailures(table, k) ==
  {IF row.id = k
   THEN [row EXCEPT !.failure_count      = 0,
                    !.status             = IF @ = "degraded" THEN "healthy" ELSE @,
                    !.cooling_down_until = Null]
   ELSE row : row \in table}

StartCoolingDown(table, k, until) ==
  {IF row.id = k
   THEN [row EXCEPT !.status = "cooling_down", !.cooling_down_until = until]
   ELSE row : row \in table}

\* Mutant of UpdateStatus: the CASE on the deadline is lost.
UpdateStatusClearing(table, k, status) ==
  {IF row.id = k
   THEN [row EXCEPT !.status = status, !.cooling_down_until = Null]
   ELSE row : row \in table}

UpdateStatus(table, k, status) ==
  {IF row.id = k
   THEN [row EXCEPT !.status             = status,
                    !.cooling_down_until = IF status = "cooling_down" THEN @
                                                                      ELSE Null]
   ELSE row : row \in table}

Expired(row, now) ==
  /\ row.status = "cooling_down"
  /\ row.cooling_down_until # Null
  /\ row.cooling_down_until <= now

\* What the SELECT finds before the UPDATE changes it.
Released(table, now) == {row.id : row \in {x \in table : Expired(x, now)}}

ReleaseExpiredCooldowns(table, now) ==
  {IF Expired(row, now)
   THEN [row EXCEPT !.status = "degraded", !.cooling_down_until = Null]
   ELSE row : row \in table}

=============================================================================

------------------------------ MODULE KeyStore ------------------------------
(***************************************************************************)
(* The API key repository (storage/repositories) as a value: a store is a  *)
(* function from the ids of the keys that exist to their records, and      *)
(* every repository call is an operator from a store to the next store.    *)
(* The definitions are those of the in-memory Map; SqlKeys has the         *)
(* statements of the SQLite repository.  Each call is atomic (one Map      *)
(* update, one SQL statement on a synchronous database).                   *)
(*                                                                         *)
(* Kept of a record: status, failureCount and coolingDownUntil.  The       *)
(* secret, weight and limits do not change under these calls (weights and  *)
(* limits are constants of the modules that read them); lastUsedAt is      *)
(* never read by the program.                                              *)
(***************************************************************************)
EXTENDS Integers

CONSTANT Keys          \* every key id that may ever be configured

Status == {"healthy", "degraded", "cooling_down", "disabled"}

\* coolingDownUntil of a record that has none
NoDeadline == -1

Record == [status : Status, failures : Nat, until : Nat \cup {NoDeadline}]

\* The record of a key just created, by the config file or by the console.
FreshRecord == [status |-> "healthy", failures |-> 0, until |-> NoDeadline]

EmptyStore == [k \in {} |-> FreshRecord]

Has(store, k) == k \in DOMAIN store

\* Map.set: k maps to r, whether or not it existed.
Put(store, k, r) ==
  [j \in DOMAIN store \cup {k} |-> IF j = k THEN r ELSE store[j]]

Delete(store, k) == [j \in DOMAIN store \ {k} |-> store[j]]

\* Replace the record of k; a key that does not exist is left absent.
Change(store, k, r) == IF Has(store, k) THEN Put(store, k, r) ELSE store

\* Mutant of RecordFailure: the wrong sign.
RecordFailureDown(store, k) ==
  Change(store, k, [store[k] EXCEPT !.failures = @ - 1])

RecordFailure(store, k) ==
  Change(store, k, [store[k] EXCEPT !.failures = @ + 1])

\* Mutant of ResetFailures: the count survives the recovery.
ResetFailuresKeepingCount(store, k) ==
  Change(store, k,
         [store[k] EXCEPT !.status = IF @ = "degraded" THEN "healthy" ELSE @,
                          !.until  = NoDeadline])

\* A degraded key recovers; any other status stays, but its deadline goes.
ResetFailures(store, k) ==
  Change(store, k,
         [store[k] EXCEPT !.status   = IF @ = "degraded" THEN "healthy" ELSE @,
                          !.failures = 0,
                          !.until    = NoDeadline])

StartCoolingDown(store, k, until) ==
  Change(store, k, [store[k] EXCEPT !.status = "cooling_down", !.until = until])

\* Only "cooling_down" keeps the deadline the record already has.
UpdateStatus(store, k, status) ==
  Change(store, k,
         [store[k] EXCEPT !.status = status,
                          !.until  = IF status = "cooling_down" THEN @
                                                                ELSE NoDeadline])

Expired(r, now) ==
  /\ r.status = "cooling_down"
  /\ r.until # NoDeadline
  /\ r.until <= now

\* The failure count of a released key is kept.
ReleaseExpiredCooldowns(store, now) ==
  [k \in DOMAIN store |->
     IF Expired(store[k], now)
     THEN [store[k] EXCEPT !.status = "degraded", !.until = NoDeadline]
     ELSE store[k]]

=============================================================================

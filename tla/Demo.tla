-------------------------------- MODULE Demo --------------------------------
(***************************************************************************)
(* The demo runner over a pool of fake keys: POST /_demo/chat drives the   *)
(* executor turn after turn, a session pins the key that answered first,   *)
(* and the keys answer as the scripts of the config file say, while other  *)
(* callers use the same scripts and the console adds and deletes keys.     *)
(*                                                                         *)
(* Which of the listed keys are eligible, and in which order they are      *)
(* taken, is the matter of KeyPool: here an attempt takes any key that is  *)
(* not excluded, or finds none.  What the hooks do to a key's health is    *)
(* KeyPool's as well; that their writes may throw is modelled here.        *)
(***************************************************************************)
EXTENDS FakeScripts, FiniteSets

CONSTANTS
  Keys, NoKey,
  Shared,       \* the script a provider gives keys without their own
  Callers,
  MaxAttempts,
  Settings      \* the compositions: see DemoAssumption

\* What runDemo is started with: the mode, the non-empty turns, the count
\* field and whether a session is named; and what the server checks first.
Forms == [mode : {"single", "multi", "load"}, texts : Nat, count : Nat \ {0},
          session : BOOLEAN, signedIn : BOOLEAN, routed : BOOLEAN]

Recorders == {"usage", "health"}

ASSUME DemoAssumption ==
  /\ NoKey \notin Keys /\ Shared \notin Keys
  /\ IsFiniteSet(Callers)
  /\ MaxAttempts \in Nat \ {0}
  /\ \A s \in Settings :
       /\ s.fileKeys \subseteq Keys       \* keys of the config file
       /\ s.adds \in Nat                  \* bound: keys added or deleted
       /\ s.ticks \in Nat                 \* bound: clock ticks
       /\ s.callers \subseteq Callers
       /\ s.forms \subseteq Forms
       /\ s.throws \subseteq Recorders    \* those that may throw
       /\ IsDirective(s.default)
       /\ DOMAIN s.own \subseteq s.fileKeys  \* directives of single keys
       /\ \A k \in DOMAIN s.own : IsDirective(s.own[k])

VARIABLES
  setting,   \* one of Settings, fixed
  scripts,   \* scripts built at start-up: of keys with their own, and Shared
  states,    \* what their closures keep
  keys,      \* the keys of the pool in the repository
  now,
  changes,   \* keys added or deleted so far
  \* of a call
  pc, form, turn,
  pinned,    \* pinnedKeyId
  barred,    \* stickyExcluded
  attempts,  \* [key, outcome] of the attempts of the turn, in order
  chosen,    \* the key of the attempt under way
  outcome,   \* what the script told it
  results,
  answer,    \* 0, then the status of the response
  \* history
  entries,   \* outcomes of the usage entries of the call
  added,     \* keys added since the turn listed the pool
  passed     \* times at which a script let a call through

call    == <<form, turn, pinned, barred, attempts, chosen, outcome, results,
             answer, entries, added>>
world   == <<scripts, states, keys, now, changes, passed>>
vars    == <<setting, world, pc, call>>

PC == {"idle", "list", "select", "send", "wait",
       "hook", "judge",      \* the success hook, before and after its usage entry
       "catch", "broken",    \* execute has thrown: the provider's error, a hook's
       "done"}

-----------------------------------------------------------------------------
(* Start-up: registerConfiguredProviders.                                   *)

\* The keys with a script of their own keep it whatever happens to the key.
Scripts(s) ==
  [i \in DOMAIN s.own \cup {Shared} |->
     BuildScript(IF i = Shared THEN s.default ELSE s.own[i])]

\* resolveScript
Instance(k) == IF k \in DOMAIN scripts THEN k ELSE Shared

\* A directive that is refused stops the process before it serves.
Starts(s) == \A i \in DOMAIN Scripts(s) : Scripts(s)[i] # Refused

Init ==
  /\ setting \in {s \in Settings : Starts(s)}
  /\ scripts = Scripts(setting)
  /\ states = [i \in DOMAIN scripts |-> FreshState]
  /\ keys = setting.fileKeys
  /\ now = 0
  /\ changes = 0
  /\ pc = [c \in Callers |-> "idle"]
  /\ form = [c \in Callers |-> [count |-> 1, sticky |-> FALSE]]
  /\ turn = [c \in Callers |-> 0]
  /\ pinned = [c \in Callers |-> NoKey]
  /\ barred = [c \in Callers |-> {}]
  /\ attempts = [c \in Callers |-> <<>>]
  /\ chosen = [c \in Callers |-> NoKey]
  /\ outcome = [c \in Callers |-> "ok"]
  /\ results = [c \in Callers |-> <<>>]
  /\ answer = [c \in Callers |-> 0]
  /\ entries = [c \in Callers |-> <<>>]
  /\ added = [c \in Callers |-> {}]
  /\ passed = [i \in DOMAIN scripts |-> <<>>]

Goto(c, label) == pc' = [pc EXCEPT ![c] = label]

-----------------------------------------------------------------------------
(* The call                                                                 *)

\* The payload of runDemo: a count, and the turns in mode "multi".
Payload(f) ==
  CASE f.mode = "single" -> [count |-> 1, turns |-> 0]
    [] f.mode = "multi"  -> [count |-> 1, turns |-> f.texts]
    [] f.mode = "load"   -> [count |-> f.count, turns |-> 0]

\* Turns count one request each, unless the caller asks for a count.
EffectiveCount(p) == IF p.count > 1 \/ p.turns <= 1 THEN p.count ELSE p.turns

(* The preHandler and findRouteForModel. *)
Refuse(c, f) ==
  /\ pc[c] = "idle"
  /\ ~f.signedIn \/ ~f.routed
  /\ answer' = [answer EXCEPT ![c] = IF f.signedIn THEN 503 ELSE 401]
  /\ Goto(c, "done")
  /\ UNCHANGED <<setting, world, form, turn, pinned, barred, attempts, chosen,
                 outcome, results, entries, added>>

(* A call of several turns, with or without a session. *)
Submit(c, f) ==
  /\ pc[c] = "idle"
  /\ f.signedIn /\ f.routed
  /\ form' = [form EXCEPT ![c] = [count  |-> EffectiveCount(Payload(f)),
                                  sticky |-> f.session]]
  /\ turn' = [turn EXCEPT ![c] = 1]
  /\ Goto(c, "list")
  /\ UNCHANGED <<setting, world, pinned, barred, attempts, chosen, outcome,
                 results, answer, entries, added>>

(* A turn begins: once a key is pinned, every other key findByPool returns  *)
(* is excluded.                                                             *)
List(c) ==
  /\ pc[c] = "list"
  /\ barred' = [barred EXCEPT ![c] =
                  IF pinned[c] = NoKey THEN {} ELSE keys \ {pinned[c]}]
  /\ attempts' = [attempts EXCEPT ![c] = <<>>]
  /\ added' = [added EXCEPT ![c] = {}]
  /\ Goto(c, "select")
  /\ UNCHANGED <<setting, world, form, turn, pinned, chosen, outcome, results,
                 answer, entries>>

Tried(c) == {attempts[c][i].key : i \in DOMAIN attempts[c]}

(* execute: an attempt takes a key, *)
Select(c) ==
  /\ pc[c] = "select"
  /\ \E k \in keys \ (barred[c] \cup Tried(c)) :
       chosen' = [chosen EXCEPT ![c] = k]
  /\ Goto(c, "send")
  /\ UNCHANGED <<setting, world, form, turn, pinned, barred, attempts, outcome,
                 results, answer, entries, added>>

\* Mutant of Exhausted: the turn waits for a key.
ExhaustedWaits(c) == pc[c] = "select" /\ UNCHANGED vars

(* or finds none: they are excluded, tried, or not eligible. *)
Exhausted(c) ==
  /\ pc[c] = "select"
  /\ Goto(c, "catch")
  /\ UNCHANGED <<setting, world, call>>

(* FakeOpenAIAdapter.send: the script decides before the latency is slept. *)
Send(c) ==
  LET i == Instance(chosen[c])
  IN
  /\ pc[c] = "send"
  /\ \E o \in Outcomes(scripts[i], states[i], now) :
       /\ outcome' = [outcome EXCEPT ![c] = o]
       /\ passed' = IF o = "ok" THEN [passed EXCEPT ![i] = Append(@, now)]
                                ELSE passed
  /\ states' = [states EXCEPT ![i] = Advance(scripts[i], @, now)]
  /\ Goto(c, "wait")
  /\ UNCHANGED <<setting, scripts, keys, now, changes, form, turn, pinned,
                 barred, attempts, chosen, results, answer, entries, added>>

(* The answer arrives. *)
Respond(c) ==
  /\ pc[c] = "wait" /\ outcome[c] = "ok"
  /\ Goto(c, "hook")
  /\ UNCHANGED <<setting, world, call>>

Attempt(c, o) ==
  attempts' = [attempts EXCEPT ![c] = Append(@, [key |-> chosen[c], outcome |-> o])]

\* Mutant of GoesOn: one attempt too many.
GoesOnPast(c, o) == Retryable(o) /\ Len(attempts[c]) < MaxAttempts

\* shouldRetry, of the attempt under way
GoesOn(c, o) == Retryable(o) /\ Len(attempts[c]) + 1 < MaxAttempts

\* The attempt fails with o: the provider's error, or a recorder that throws
\* in the success hook, which execute takes for a network error.
Fails(c, o) ==
  \/ pc[c] = "wait" /\ outcome[c] = o
  \/ o = "network_error" /\ \/ pc[c] = "hook" /\ "usage" \in setting.throws
                            \/ pc[c] = "judge" /\ "health" \in setting.throws

(* The failure hook returns, the attempt is noted, and the retry rule asked. *)
FailAttempt(c) ==
  \E o \in Failures :
    /\ Fails(c, o)
    /\ Attempt(c, o)
    /\ Goto(c, IF GoesOn(c, o) THEN "select" ELSE "catch")
    /\ UNCHANGED <<setting, world, form, turn, pinned, barred, chosen, outcome,
                   results, answer, entries, added>>

(* The failure hook throws, or the event of an exhausted pool: the error    *)
(* leaves execute, the attempt under way is not noted and nothing retried.  *)
HookThrows(c) ==
  /\ "health" \in setting.throws
  /\ pc[c] = "select" \/ \E o \in Failures : Fails(c, o)
  /\ Goto(c, "broken")
  /\ UNCHANGED <<setting, world, call>>

\* What a turn reports: the key of the last attempt that was noted, if any.
Result(c, tries) ==
  LET n == Len(tries)
  IN  [turn   |-> turn[c],
       key    |-> IF n = 0 THEN NoKey ELSE tries[n].key,
       status |-> IF n = 0 \/ pc[c] = "broken" THEN 502
                  ELSE StatusOf(tries[n].outcome),
       tries  |-> n,
       late   |-> added[c]]

\* computeSummary, latencies left out
Summary(rs) ==
  LET succeeded == {i \in DOMAIN rs : rs[i].status \in 200 .. 399}
  IN  [total    |-> Len(rs),
       success  |-> Cardinality(succeeded),
       failed   |-> Len(rs) - Cardinality(succeeded),
       distinct |-> {rs[i].key : i \in DOMAIN rs} \ {NoKey}]

\* The result is pushed; after the interval the next turn begins, or the call
\* is answered.
EndTurn(c) ==
  /\ results' = [results EXCEPT ![c] = Append(@, Result(c, attempts'[c]))]
  /\ \/ /\ turn[c] < form[c].count
        /\ turn' = [turn EXCEPT ![c] = @ + 1]
        /\ Goto(c, "list")
        /\ UNCHANGED answer
     \/ /\ turn[c] >= form[c].count
        /\ answer' = [answer EXCEPT ![c] = 200]
        /\ Goto(c, "done")
        /\ UNCHANGED turn

\* Mutant of Pin: the session follows the key of its last success.
PinLast(c) ==
  IF form[c].sticky THEN [pinned EXCEPT ![c] = chosen[c]] ELSE pinned

\* The first key that answers is the session's.
Pin(c) ==
  IF form[c].sticky /\ pinned[c] = NoKey THEN [pinned EXCEPT ![c] = chosen[c]]
                                         ELSE pinned

(* The success hook: the usage entry is written, and stays; *)
Record(c) ==
  /\ pc[c] = "hook"
  /\ entries' = [entries EXCEPT ![c] = Append(@, "success")]
  /\ Goto(c, "judge")
  /\ UNCHANGED <<setting, world, form, turn, pinned, barred, attempts, chosen,
                 outcome, results, answer, added>>

(* then the health events, and execute returns. *)
Succeed(c) ==
  /\ pc[c] = "judge"
  /\ Attempt(c, "ok")
  /\ pinned' = Pin(c)
  /\ EndTurn(c)
  /\ UNCHANGED <<setting, world, form, barred, chosen, outcome, entries, added>>

\* Mutant of Catch: the failed turn leaves no entry.
CatchUnrecorded(c) ==
  /\ pc[c] \in {"catch", "broken"}
  /\ UNCHANGED attempts
  /\ EndTurn(c)
  /\ UNCHANGED <<setting, world, form, pinned, barred, chosen, outcome, entries,
                 added>>

(* catch of the turn: its usage entry is written here. *)
Catch(c) ==
  /\ pc[c] \in {"catch", "broken"}
  /\ entries' = [entries EXCEPT ![c] = Append(@, "error")]
  /\ UNCHANGED attempts
  /\ EndTurn(c)
  /\ UNCHANGED <<setting, world, form, pinned, barred, chosen, outcome, added>>

(* If that cannot be written, the error leaves the handler: the call is     *)
(* answered by the error handler, without the results of earlier turns.     *)
CatchThrows(c) ==
  /\ pc[c] \in {"catch", "broken"}
  /\ "usage" \in setting.throws
  /\ answer' = [answer EXCEPT ![c] = 500]
  /\ Goto(c, "done")
  /\ UNCHANGED <<setting, world, form, turn, pinned, barred, attempts, chosen,
                 outcome, results, entries, added>>

-----------------------------------------------------------------------------
(* The rest of the world                                                    *)

Change == changes < setting.adds /\ changes' = changes + 1

(* POST /admin/api/keys for a new key. *)
AddKey(k) ==
  /\ Change
  /\ k \notin keys
  /\ keys' = keys \cup {k}
  /\ added' = [c \in Callers |-> added[c] \cup {k}]
  /\ UNCHANGED <<setting, scripts, states, now, passed, pc, form, turn, pinned,
                 barred, attempts, chosen, outcome, results, answer, entries>>

(* DELETE /admin/api/keys/:id *)
DeleteKey(k) ==
  /\ Change
  /\ k \in keys
  /\ keys' = keys \ {k}
  /\ UNCHANGED <<setting, scripts, states, now, passed, pc, call>>

Tick ==
  /\ now < setting.ticks
  /\ now' = now + 1
  /\ UNCHANGED <<setting, scripts, states, keys, changes, passed, pc, call>>

Step(c) ==
  \/ List(c) \/ Select(c) \/ Exhausted(c) \/ Send(c) \/ Respond(c)
  \/ FailAttempt(c) \/ HookThrows(c) \/ Record(c) \/ Succeed(c)
  \/ Catch(c) \/ CatchThrows(c)

Next ==
  \/ \E c \in setting.callers :
       Step(c) \/ \E f \in setting.forms : Refuse(c, f) \/ Submit(c, f)
  \/ \E k \in Keys : AddKey(k) \/ DeleteKey(k)
  \/ Tick

(* The event loop runs a call that can go on; nothing obliges anyone to     *)
(* make one, or the console to change keys.                                 *)
Spec == Init /\ [][Next]_vars /\ \A c \in Callers : WF_vars(Step(c))

-----------------------------------------------------------------------------
(* Properties                                                               *)

(* Every variable has its type, and a turn makes at most MaxAttempts        *)
(* attempts.                                                                *)
TypeOK ==
  /\ setting \in Settings
  /\ keys \subseteq Keys
  /\ now \in Nat /\ changes \in Nat
  /\ DOMAIN states = DOMAIN scripts
  /\ \A i \in DOMAIN states : states[i].count \in Nat
  /\ pc \in [Callers -> PC]
  /\ form \in [Callers -> [count : Nat, sticky : BOOLEAN]]
  /\ turn \in [Callers -> Nat]
  /\ pinned \in [Callers -> Keys \cup {NoKey}]
  /\ barred \in [Callers -> SUBSET Keys]
  /\ attempts \in [Callers -> Seq([key : Keys \cup {NoKey},
                                   outcome : Failures \cup {"ok"}])]
  /\ \A c \in Callers : Len(attempts[c]) <= MaxAttempts
  /\ chosen \in [Callers -> Keys \cup {NoKey}]
  /\ outcome \in [Callers -> Failures \cup {"ok"}]
  /\ answer \in [Callers -> {0, 200, 401, 500, 503}]
  /\ entries \in [Callers -> Seq({"success", "error"})]
  /\ added \in [Callers -> SUBSET Keys]

ResultsOf(c) == {results[c][i] : i \in DOMAIN results[c]}

(* All the turns of a session that are answered are answered by one key,    *)
(* whatever retries and deletions happen; only a key that was added after   *)
(* the turn listed the pool can come between.                               *)
SessionKeepsItsKey ==
  \A c \in Callers :
    form[c].sticky =>
      \A r \in ResultsOf(c) : r.status = 200 => r.key \in {pinned[c]} \cup r.late

(* A call that is answered with results reports every turn it asked for,    *)
(* in order, and whatever throws, the error entries it leaves are its       *)
(* failed turns, one for each.  It leaves a success entry for each turn     *)
(* that succeeded; more only where a health event can throw, for the        *)
(* success hook has written its entry by then and the attempt is taken for  *)
(* a failure.                                                               *)
AnswerIsComplete ==
  \A c \in Callers :
    LET logged(o) == Cardinality({i \in DOMAIN entries[c] : entries[c][i] = o})
    IN
    answer[c] = 200 =>
      /\ Summary(results[c]).total = form[c].count
      /\ \A i \in DOMAIN results[c] : results[c][i].turn = i
      /\ Summary(results[c]).failed = logged("error")
      /\ Summary(results[c]).success <= logged("success")
      /\ "health" \notin setting.throws =>
           Summary(results[c]).success = logged("success")

(* A burst limiter restarts its window with a call: over any stretch of the *)
(* length of a window it lets through less than twice its allowance, over   *)
(* all the keys that share it.                                              *)
BurstBounded ==
  \A i \in DOMAIN scripts :
    scripts[i].kind = "burst" =>
      \A t \in 0 .. now :
        LET during == {n \in DOMAIN passed[i] :
                         t <= passed[i][n] /\ passed[i][n] < t + scripts[i].window}
        IN  Cardinality(during) <= Max({0, 2 * scripts[i].allowed - 1})

(* One caller alone, on keys that share a periodic script of period two or  *)
(* more: the attempt after a failure succeeds, so that a turn fails only    *)
(* with no key left.  (The calls of others may fall between.)               *)
RetryPassesPeriodic ==
  /\ Cardinality(setting.callers) = 1 /\ setting.throws = {}
  /\ DOMAIN scripts = {Shared}
  /\ scripts[Shared].kind = "periodic" /\ scripts[Shared].period >= 2
  => \A c \in setting.callers : \A r \in ResultsOf(c) : r.tries >= 2 => r.status = 200

(* Every demo call is answered, whatever its keys and scripts do. *)
EveryCallAnswered ==
  \A c \in Callers : pc[c] # "idle" ~> pc[c] = "done"

=============================================================================

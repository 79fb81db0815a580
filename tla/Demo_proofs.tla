----------------------------- MODULE Demo_proofs ----------------------------
(***************************************************************************)
(* Theorems about Demo, for any keys, callers, scripts and number of turns *)
(* and of keys that come and go: a session keeps its key, types, answers   *)
(* are complete, a retry on a periodic script passes, and a burst limiter  *)
(* lets through less than twice its allowance.                             *)
(*                                                                         *)
(* Sessions first.  The exclusions are made of the keys listed when a turn *)
(* begins, while every attempt lists anew: the invariant says that         *)
(* whatever is in the pool by then is excluded, pinned or added since, and *)
(* that a turn which has not succeeded holds failed attempts only.         *)
(***************************************************************************)
EXTENDS Demo, Lemmas, SequenceTheorems, TLAPS

Tries == [key : Keys \cup {NoKey}, outcome : Failures \cup {"ok"}]
Reports == [turn : Nat, key : Keys \cup {NoKey}, status : Int, tries : Nat,
            late : SUBSET Keys]

Typed ==
  /\ keys \subseteq Keys
  /\ setting \in Settings
  /\ pc \in [Callers -> PC]
  /\ DOMAIN form = Callers
  /\ turn \in [Callers -> Nat]
  /\ pinned \in [Callers -> Keys \cup {NoKey}]
  /\ DOMAIN barred = Callers
  /\ attempts \in [Callers -> Seq(Tries)]
  /\ chosen \in [Callers -> Keys \cup {NoKey}]
  /\ results \in [Callers -> Seq(Reports)]
  /\ added \in [Callers -> SUBSET Keys]

InTurn == {"select", "send", "wait", "hook", "judge", "catch", "broken"}
InAttempt == {"send", "wait", "hook", "judge"}

\* No attempt of the turn under way has succeeded.
OnlyFailures(c) ==
  pc[c] \in InTurn =>
    \A i \in DOMAIN attempts[c] : attempts[c][i].outcome \in Failures

\* A session that is not pinned has no success; one that is has one key.
Loyal(c) ==
  /\ pc[c] = "idle" => results[c] = <<>>
  /\ form[c].sticky =>
       \A i \in DOMAIN results[c] :
         results[c][i].status = 200 =>
           /\ pinned[c] # NoKey
           /\ results[c][i].key \in {pinned[c]} \cup results[c][i].late

\* What an attempt may take.
Fenced(c) ==
  pinned[c] # NoKey =>
    /\ pc[c] \in InTurn => keys \subseteq barred[c] \cup {pinned[c]} \cup added[c]
    /\ pc[c] \in InAttempt => chosen[c] \in {pinned[c]} \cup added[c]

Taken(c) == pc[c] \in InAttempt => chosen[c] \in Keys

SessionInv ==
  /\ Typed
  /\ \A c \in Callers : OnlyFailures(c) /\ Loyal(c) /\ Fenced(c) /\ Taken(c)

-----------------------------------------------------------------------------

\* A failure is never reported with status 200.
LEMMA FailureStatus ==
  /\ \A o \in Failures \cup {"ok"} : StatusOf(o) \in Int
  /\ \A o \in Failures : StatusOf(o) # 200
  BY DEF Failures, Injected, StatusOf

\* What a turn reports: a success only if its last attempt is one.
LEMMA ResultFacts ==
  ASSUME Typed, NEW c \in Callers, NEW tries \in Seq(Tries)
  PROVE  /\ Result(c, tries) \in Reports
         /\ Result(c, tries).late = added[c]
         /\ Result(c, tries).status = 200 =>
              /\ Len(tries) # 0
              /\ tries[Len(tries)].outcome \notin Failures
              /\ Result(c, tries).key = tries[Len(tries)].key
  <1> DEFINE n == Len(tries)
  <1>1. n \in Nat /\ (n # 0 => tries[n] \in Tries)
    OBVIOUS
  <1>2. CASE n = 0
    BY <1>1, <1>2 DEF Result, Reports, Typed
  <1>3. CASE n # 0
    <2>1. tries[n].key \in Keys \cup {NoKey} /\ tries[n].outcome \in Failures \cup {"ok"}
      BY <1>1, <1>3 DEF Tries
    <2>2. /\ StatusOf(tries[n].outcome) \in Int
          /\ StatusOf(tries[n].outcome) = 200 => tries[n].outcome \notin Failures
      BY <2>1, FailureStatus
    <2> QED BY <1>1, <1>3, <2>1, <2>2 DEF Result, Reports, Typed
  <1> QED BY <1>2, <1>3

\* What the end of a turn does, given what its attempts say.
LEMMA TurnEnds ==
  ASSUME Typed, NEW c \in Callers, attempts' \in [Callers -> Seq(Tries)],
         EndTurn(c)
  PROVE  /\ results' = [results EXCEPT ![c] = Append(@, Result(c, attempts'[c]))]
         /\ results' \in [Callers -> Seq(Reports)]
         /\ turn' \in [Callers -> Nat]
         /\ pc' \in [Callers -> PC]
         /\ pc'[c] \in {"list", "done"}
         /\ \A d \in Callers \ {c} : pc'[d] = pc[d]
  <1>1. Result(c, attempts'[c]) \in Reports
    BY ResultFacts
  <1>2. Append(results[c], Result(c, attempts'[c])) \in Seq(Reports)
    BY <1>1 DEF Typed
  <1>3. results' \in [Callers -> Seq(Reports)]
    BY <1>2 DEF EndTurn, Typed
  <1>4. /\ \/ turn' = [turn EXCEPT ![c] = @ + 1] \/ turn' = turn
        /\ Goto(c, "list") \/ Goto(c, "done")
    BY Zenon DEF EndTurn
  <1>5. turn' \in [Callers -> Nat]
    BY <1>4 DEF Typed
  <1>6. results' = [results EXCEPT ![c] = Append(@, Result(c, attempts'[c]))]
    BY DEF EndTurn
  <1> QED BY <1>3, <1>4, <1>5, <1>6 DEF Typed, Goto, PC

\* The results of a caller after a turn whose last attempt is known.
LEMMA TurnIsLoyal ==
  ASSUME Typed, NEW c \in Callers, Loyal(c),
         attempts' \in [Callers -> Seq(Tries)],
         EndTurn(c), form' = form,
         pinned' \in [Callers -> Keys \cup {NoKey}],
         pinned[c] # NoKey => pinned'[c] = pinned[c],
         form[c].sticky /\ Result(c, attempts'[c]).status = 200 =>
           /\ pinned'[c] # NoKey
           /\ Result(c, attempts'[c]).key \in {pinned'[c]} \cup added[c]
  PROVE  Loyal(c)'
  <1> DEFINE r == Result(c, attempts'[c])
             s == results[c]
  <1>1. r \in Reports /\ r.late = added[c]
    BY ResultFacts
  <1>2. s \in Seq(Reports) /\ results'[c] = Append(s, r) /\ pc'[c] # "idle"
    BY TurnEnds DEF Typed
  <1>3. SUFFICES ASSUME form[c].sticky, NEW i \in DOMAIN Append(s, r),
                        Append(s, r)[i].status = 200
                 PROVE  /\ pinned'[c] # NoKey
                        /\ Append(s, r)[i].key \in {pinned'[c]} \cup Append(s, r)[i].late
    BY <1>2 DEF Loyal
  <1>4. CASE i = Len(s) + 1
    <2>1. Append(s, r)[i] = r
      BY <1>1, <1>2, <1>4
    <2> QED BY <1>1, <1>3, <2>1
  <1>5. CASE i # Len(s) + 1
    <2>1. i \in DOMAIN s /\ Append(s, r)[i] = s[i]
      BY <1>1, <1>2, <1>3, <1>5
    <2>2. pinned[c] # NoKey /\ s[i].key \in {pinned[c]} \cup s[i].late
      BY <1>3, <2>1 DEF Loyal
    <2> QED BY <2>1, <2>2
  <1> QED BY <1>4, <1>5

LEMMA SessionInit == Init => SessionInv
  <1> SUFFICES ASSUME Init PROVE SessionInv
    OBVIOUS
  <1>1. \A s \in Settings : s.fileKeys \subseteq Keys
    BY DemoAssumption
  <1>2. setting \in Settings
    BY DEF Init
  <1>3. Typed
    <2>1. keys \subseteq Keys
      BY <1>1, <1>2 DEF Init
    <2>2. <<>> \in Seq(Tries) /\ <<>> \in Seq(Reports)
      OBVIOUS
    <2> QED BY <1>2, <2>1, <2>2 DEF Init, Typed, PC
  <1>4. ASSUME NEW c \in Callers
        PROVE  OnlyFailures(c) /\ Loyal(c) /\ Fenced(c) /\ Taken(c)
    BY DEF Init, OnlyFailures, Loyal, Fenced, Taken, InTurn, InAttempt
  <1> QED BY <1>3, <1>4 DEF SessionInv

\* A caller whose variables a step leaves alone, while the pool only shrinks,
\* or grows by keys that are noted.
LEMMA Untouched ==
  ASSUME NEW c \in Callers,
         OnlyFailures(c), Loyal(c), Fenced(c), Taken(c),
         pc'[c] = pc[c], form'[c] = form[c], pinned'[c] = pinned[c],
         barred'[c] = barred[c], attempts'[c] = attempts[c],
         chosen'[c] = chosen[c], results'[c] = results[c],
         added[c] \subseteq added'[c],
         keys' \subseteq keys \cup added'[c]
  PROVE  OnlyFailures(c)' /\ Loyal(c)' /\ Fenced(c)' /\ Taken(c)'
  <1>1. OnlyFailures(c)'
    BY DEF OnlyFailures
  <1>2. Loyal(c)'
    BY DEF Loyal
  <1>3. Fenced(c)'
    BY DEF Fenced
  <1> QED BY <1>1, <1>2, <1>3 DEF Taken

\* A step of one caller that leaves the pool alone.
LEMMA Alone ==
  ASSUME SessionInv, NEW c \in Callers, Typed', keys' = keys,
         \A d \in Callers \ {c} :
           /\ pc'[d] = pc[d] /\ form'[d] = form[d] /\ pinned'[d] = pinned[d]
           /\ barred'[d] = barred[d] /\ attempts'[d] = attempts[d]
           /\ chosen'[d] = chosen[d] /\ results'[d] = results[d]
           /\ added'[d] = added[d],
         OnlyFailures(c)', Loyal(c)', Fenced(c)', Taken(c)'
  PROVE  SessionInv'
  <1>1. ASSUME NEW d \in Callers \ {c}
        PROVE  OnlyFailures(d)' /\ Loyal(d)' /\ Fenced(d)' /\ Taken(d)'
    BY <1>1, Untouched DEF SessionInv
  <1> QED BY <1>1 DEF SessionInv

LEMMA RefuseSafe ==
  ASSUME SessionInv, NEW c \in Callers, NEW f, Refuse(c, f)
  PROVE  SessionInv'
  <1>1. Typed'
    BY DEF SessionInv, Typed, Refuse, Goto, PC, world
  <1>2. OnlyFailures(c)' /\ Loyal(c)' /\ Fenced(c)' /\ Taken(c)'
    BY DEF SessionInv, Typed, OnlyFailures, Loyal, Fenced, Taken, Refuse, Goto,
           InTurn, InAttempt
  <1> QED BY <1>1, <1>2, Alone DEF SessionInv, Typed, Refuse, Goto, world

LEMMA SubmitSafe ==
  ASSUME SessionInv, NEW c \in Callers, NEW f, Submit(c, f)
  PROVE  SessionInv'
  <1>1. Typed'
    BY DEF SessionInv, Typed, Submit, Goto, PC, world
  <1>2. OnlyFailures(c)' /\ Loyal(c)' /\ Fenced(c)' /\ Taken(c)'
    BY DEF SessionInv, Typed, OnlyFailures, Loyal, Fenced, Taken, Submit, Goto,
           InTurn, InAttempt
  <1> QED BY <1>1, <1>2, Alone DEF SessionInv, Typed, Submit, Goto, world

LEMMA ListSafe ==
  ASSUME SessionInv, NEW c \in Callers, List(c)
  PROVE  SessionInv'
  <1>1. Typed'
    BY DEF SessionInv, Typed, List, Goto, PC, world
  <1>2. OnlyFailures(c)' /\ Loyal(c)' /\ Taken(c)'
    BY DEF SessionInv, Typed, OnlyFailures, Loyal, Taken, List, Goto, InAttempt
  <1>3. Fenced(c)'
    BY DEF SessionInv, Typed, Fenced, List, Goto, InAttempt, world
  <1> QED BY <1>1, <1>2, <1>3, Alone DEF SessionInv, Typed, List, Goto, world

LEMMA SelectSafe ==
  ASSUME SessionInv, NEW c \in Callers, Select(c)
  PROVE  SessionInv'
  <1>1. PICK k \in keys \ (barred[c] \cup Tried(c)) :
          chosen' = [chosen EXCEPT ![c] = k]
    BY DEF Select
  <1>2. Typed'
    BY <1>1 DEF SessionInv, Typed, Select, Goto, PC, world
  <1>3. OnlyFailures(c)' /\ Loyal(c)' /\ Taken(c)'
    BY <1>1 DEF SessionInv, Typed, OnlyFailures, Loyal, Taken, Select, Goto,
                InTurn
  <1>4. Fenced(c)'
    BY <1>1 DEF SessionInv, Typed, Fenced, Select, Goto, InTurn, world
  <1> QED BY <1>1, <1>2, <1>3, <1>4, Alone DEF SessionInv, Typed, Select, Goto, world

\* A step that only moves on within the turn.
LEMMA Moves ==
  ASSUME SessionInv, NEW c \in Callers, NEW label \in PC \ {"idle"},
         Goto(c, label),
         label \in InTurn => pc[c] \in InTurn,
         label \in InAttempt => pc[c] \in InAttempt,
         UNCHANGED <<setting, keys, form, turn, pinned, barred, attempts, chosen,
                     results, added>>
  PROVE  SessionInv'
  <1>1. Typed'
    BY DEF SessionInv, Typed, Goto
  <1>2. OnlyFailures(c)' /\ Loyal(c)' /\ Taken(c)'
    BY DEF SessionInv, Typed, OnlyFailures, Loyal, Taken, Goto
  <1>3. Fenced(c)'
    BY DEF SessionInv, Typed, Fenced, Goto
  <1> QED BY <1>1, <1>2, <1>3, Alone DEF SessionInv, Typed, Goto

LEMMA FailAttemptSafe ==
  ASSUME SessionInv, NEW c \in Callers, FailAttempt(c)
  PROVE  SessionInv'
  <1>1. PICK o \in Failures :
          /\ pc[c] \in InAttempt
          /\ Attempt(c, o)
          /\ Goto(c, "select") \/ Goto(c, "catch")
          /\ UNCHANGED <<setting, world, form, turn, pinned, barred, chosen,
                         outcome, results, answer, entries, added>>
    BY DEF FailAttempt, Fails, InAttempt
  <1> DEFINE e == [key |-> chosen[c], outcome |-> o]
             s == attempts[c]
  <1>2. s \in Seq(Tries) /\ e \in Tries /\ attempts' = [attempts EXCEPT ![c] = Append(s, e)]
    BY <1>1 DEF SessionInv, Typed, Tries, Attempt
  <1>3. Append(s, e) \in Seq(Tries)
    BY <1>2
  <1>4. Typed'
    BY <1>1, <1>2, <1>3 DEF SessionInv, Typed, Goto, PC, world
  <1>5. ASSUME NEW i \in DOMAIN Append(s, e)
        PROVE  Append(s, e)[i].outcome \in Failures
    <2>1. \A j \in DOMAIN s : s[j].outcome \in Failures
      BY <1>1 DEF SessionInv, OnlyFailures, InTurn, InAttempt
    <2>2. e.outcome \in Failures
      BY <1>1
    <2>3. CASE i = Len(s) + 1
      BY <1>2, <2>2, <2>3
    <2>4. CASE i # Len(s) + 1
      BY <1>2, <1>5, <2>1, <2>4
    <2> QED BY <2>3, <2>4
  <1>6. OnlyFailures(c)'
    BY <1>2, <1>5 DEF SessionInv, Typed, OnlyFailures
  <1>7. pc'[c] \in {"select", "catch"}
    BY <1>1 DEF SessionInv, Typed, Goto
  <1>8. Loyal(c)' /\ Taken(c)'
    BY <1>1, <1>7 DEF SessionInv, Typed, Loyal, Taken, InAttempt
  <1>9. Fenced(c)'
    BY <1>1, <1>7 DEF SessionInv, Typed, Fenced, InTurn, InAttempt, world
  <1> QED BY <1>1, <1>2, <1>4, <1>6, <1>8, <1>9, Alone DEF SessionInv, Typed, Goto, world

LEMMA SucceedSafe ==
  ASSUME SessionInv, NEW c \in Callers, Succeed(c)
  PROVE  SessionInv'
  <1> DEFINE e == [key |-> chosen[c], outcome |-> "ok"]
             s == attempts[c]
  <1>1. s \in Seq(Tries) /\ e \in Tries /\ attempts' = [attempts EXCEPT ![c] = Append(s, e)]
    BY DEF SessionInv, Typed, Tries, Succeed, Attempt
  <1>2. Append(s, e) \in Seq(Tries)
    BY <1>1
  <1>3. attempts' \in [Callers -> Seq(Tries)] /\ attempts'[c] = Append(s, e)
    BY <1>1, <1>2 DEF SessionInv, Typed
  <1>4. Typed /\ EndTurn(c)
    BY DEF SessionInv, Succeed
  <1>5. chosen[c] \in Keys /\ chosen[c] # NoKey
    BY DemoAssumption DEF SessionInv, Taken, Succeed, InAttempt
  <1>6. pinned' \in [Callers -> Keys \cup {NoKey}]
    BY DEF SessionInv, Typed, Succeed, Pin
  <1>7. Typed'
    BY <1>3, <1>4, <1>6, TurnEnds DEF Typed, Succeed, world
  <1>8. Len(Append(s, e)) = Len(s) + 1 /\ Append(s, e)[Len(s) + 1] = e
    BY <1>1
  <1>9. Result(c, attempts'[c]).status = 200 => Result(c, attempts'[c]).key = chosen[c]
    <2>1. \A tries \in Seq(Tries) :
            Result(c, tries).status = 200 => Result(c, tries).key = tries[Len(tries)].key
      BY <1>4, ResultFacts
    <2>2. attempts'[c][Len(attempts'[c])] = e
      BY <1>3, <1>8
    <2>3. e.key = chosen[c]
      OBVIOUS
    <2>4. attempts'[c] \in Seq(Tries)
      BY <1>3
    <2>5. ASSUME NEW t \in Seq(Tries), t[Len(t)] = e
          PROVE  Result(c, t).status = 200 => Result(c, t).key = chosen[c]
      BY <2>1, <2>3, <2>5
    <2> HIDE DEF e, s
    <2> QED BY <2>2, <2>4, <2>5, Zenon
  <1>10. Loyal(c)'
    <2>1. pinned[c] # NoKey => chosen[c] \in {pinned[c]} \cup added[c]
      BY DEF SessionInv, Fenced, Succeed, InAttempt
    <2>2. /\ form[c].sticky => pinned'[c] = IF pinned[c] = NoKey THEN chosen[c] ELSE pinned[c]
          /\ pinned[c] # NoKey => pinned'[c] = pinned[c]
      BY DEF SessionInv, Typed, Succeed, Pin
    <2>3. form[c].sticky /\ Result(c, attempts'[c]).status = 200 =>
            /\ pinned'[c] # NoKey
            /\ Result(c, attempts'[c]).key \in {pinned'[c]} \cup added[c]
      BY <1>5, <1>9, <2>1, <2>2
    <2>4. Loyal(c) /\ form' = form
      BY DEF SessionInv, Succeed
    <2> QED BY <1>3, <1>4, <1>6, <2>2, <2>3, <2>4, TurnIsLoyal
  <1>11. pc'[c] \in {"list", "done"} /\ \A d \in Callers \ {c} : pc'[d] = pc[d]
    BY <1>3, <1>4, TurnEnds
  <1>12. OnlyFailures(c)' /\ Fenced(c)' /\ Taken(c)'
    BY <1>11 DEF OnlyFailures, Fenced, Taken, InTurn, InAttempt
  <1>13. \A d \in Callers \ {c} : pinned'[d] = pinned[d] /\ results'[d] = results[d]
    BY <1>3, <1>4, TurnEnds DEF Typed, Succeed, Pin
  <1> QED
    BY <1>1, <1>7, <1>10, <1>11, <1>12, <1>13, Alone DEF SessionInv, Typed, Succeed, world

LEMMA CatchSafe ==
  ASSUME SessionInv, NEW c \in Callers, Catch(c)
  PROVE  SessionInv'
  <1>1. Typed /\ EndTurn(c) /\ attempts' = attempts
        /\ attempts' \in [Callers -> Seq(Tries)] /\ attempts[c] \in Seq(Tries)
    BY DEF SessionInv, Typed, Catch
  <1>2. Typed'
    BY <1>1, TurnEnds DEF Typed, Catch, world
  <1>3. Result(c, attempts'[c]).status # 200
    <2>1. \A i \in DOMAIN attempts[c] : attempts[c][i].outcome \in Failures
      BY DEF SessionInv, OnlyFailures, Catch, InTurn
    <2>2. Len(attempts[c]) # 0 => Len(attempts[c]) \in DOMAIN attempts[c]
      BY <1>1
    <2> QED BY <1>1, <2>1, <2>2, ResultFacts
  <1>4. Loyal(c)'
    <2>1. Loyal(c) /\ form' = form /\ pinned' = pinned
          /\ pinned' \in [Callers -> Keys \cup {NoKey}]
      BY DEF SessionInv, Typed, Catch
    <2> QED BY <1>1, <1>3, <2>1, TurnIsLoyal
  <1>5. pc'[c] \in {"list", "done"} /\ \A d \in Callers \ {c} : pc'[d] = pc[d]
    BY <1>1, TurnEnds
  <1>6. OnlyFailures(c)' /\ Fenced(c)' /\ Taken(c)'
    BY <1>5 DEF OnlyFailures, Fenced, Taken, InTurn, InAttempt
  <1>7. \A d \in Callers \ {c} : results'[d] = results[d]
    <2>1. results' = [results EXCEPT ![c] = Append(@, Result(c, attempts'[c]))]
      BY <1>1, TurnEnds
    <2>2. DOMAIN results = Callers
      BY <1>1 DEF Typed
    <2> QED BY <2>1, <2>2
  <1> QED BY <1>1, <1>2, <1>4, <1>5, <1>6, <1>7, Alone DEF Catch, world

\* The other steps of a call only move on within its turn.
LEMMA MovesSafe ==
  ASSUME SessionInv, NEW c \in Callers,
         \/ Exhausted(c) \/ Send(c) \/ Respond(c) \/ HookThrows(c) \/ Record(c)
         \/ CatchThrows(c)
  PROVE  SessionInv'
  <1>1. CASE Exhausted(c)
    BY <1>1, Moves DEF Exhausted, call, world, PC, InTurn, InAttempt
  <1>2. CASE Send(c)
    BY <1>2, Moves DEF Send, PC, InTurn, InAttempt
  <1>3. CASE Respond(c)
    BY <1>3, Moves DEF Respond, call, world, PC, InTurn, InAttempt
  <1>4. CASE CatchThrows(c)
    BY <1>4, Moves DEF CatchThrows, world, PC, InTurn, InAttempt
  <1>5. CASE HookThrows(c)
    <2>1. /\ pc[c] \in InTurn /\ Goto(c, "broken")
          /\ UNCHANGED <<setting, keys, form, turn, pinned, barred, attempts, chosen,
                         results, added>>
      BY <1>5 DEF HookThrows, Fails, call, world, InTurn
    <2> QED BY <2>1, Moves DEF PC, InTurn, InAttempt
  <1>6. CASE Record(c)
    BY <1>6, Moves DEF Record, world, PC, InTurn, InAttempt
  <1> QED BY <1>1, <1>2, <1>3, <1>4, <1>5, <1>6

\* What the console does, time, and stuttering.
LEMMA WorldSafe ==
  ASSUME SessionInv,
         (\E k \in Keys : AddKey(k) \/ DeleteKey(k)) \/ Tick \/ UNCHANGED vars
  PROVE  SessionInv'
  <1>1. CASE \E k \in Keys : AddKey(k)
    <2>1. PICK k \in Keys : AddKey(k)
      BY <1>1
    <2>2. Typed'
      BY <2>1 DEF SessionInv, Typed, AddKey
    <2>3. ASSUME NEW c \in Callers
          PROVE  added[c] \subseteq added'[c] /\ keys' \subseteq keys \cup added'[c]
      BY <2>1 DEF AddKey
    <2> QED BY <2>1, <2>2, <2>3, Untouched DEF SessionInv, AddKey
  <1>2. CASE \E k \in Keys : DeleteKey(k)
    <2>1. PICK k \in Keys : DeleteKey(k)
      BY <1>2
    <2>2. Typed'
      BY <2>1 DEF SessionInv, Typed, DeleteKey, call
    <2> QED BY <2>1, <2>2, Untouched DEF SessionInv, DeleteKey, call
  <1>3. CASE Tick
    <2>1. Typed'
      BY <1>3 DEF SessionInv, Typed, Tick, call
    <2> QED BY <1>3, <2>1, Untouched DEF SessionInv, Tick, call
  <1>4. CASE UNCHANGED vars
    <2>1. Typed'
      BY <1>4 DEF SessionInv, Typed, vars, world, call
    <2> QED BY <1>4, <2>1, Untouched DEF SessionInv, vars, world, call
  <1> QED BY <1>1, <1>2, <1>3, <1>4

LEMMA SessionNext == SessionInv /\ [Next]_vars => SessionInv'
  <1> SUFFICES ASSUME SessionInv, [Next]_vars PROVE SessionInv'
    OBVIOUS
  <1>1. setting.callers \subseteq Callers
    BY DemoAssumption DEF SessionInv, Typed
  <1>2. ASSUME NEW c \in Callers, Step(c)
        PROVE  SessionInv'
    BY <1>2, ListSafe, SelectSafe, MovesSafe, FailAttemptSafe, SucceedSafe,
       CatchSafe DEF Step
  <1>3. ASSUME NEW c \in Callers, NEW f, Refuse(c, f) \/ Submit(c, f)
        PROVE  SessionInv'
    BY <1>3, RefuseSafe, SubmitSafe
  <1> QED BY <1>1, <1>2, <1>3, WorldSafe DEF Next

\* All the turns of a session that are answered are answered by one key, or by
\* a key added after the turn listed the pool (demo.routes.ts, POST /_demo/chat).
THEOREM SessionHolds == Spec => []SessionKeepsItsKey
  <1>1. SessionInv => SessionKeepsItsKey
    BY DEF SessionInv, Loyal, SessionKeepsItsKey, ResultsOf
  <1> QED BY <1>1, SessionInit, SessionNext, PTL DEF Spec

-----------------------------------------------------------------------------
(* The scripts a file starts, and what a call of one gives and leaves.      *)

Results == Failures \cup {"ok"}
ScriptState == [count : Nat, start : Int]

WellFormed(x) ==
  /\ x.kind = "sequence" => x.steps \in Seq(Results)
  /\ x.kind = "periodic" => x.period \in Nat \ {0} /\ x.outcome \in Injected
  /\ x.kind = "burst" => /\ x.window \in Nat \ {0} /\ x.allowed \in Nat
                         /\ x.outcome \in Injected
  /\ x.kind = "probability" => x.draws \subseteq Results

\* A number is a number, given or not.
LEMMA NumberArgs ==
  ASSUME NEW d, IsDirective(d), NEW names \in Seq(Numbers), NEW default \in Int
  PROVE  Arg(d.args, names, default) \in Int
  <1> DEFINE named == NamedArgs(d.args)
             given == {i \in DOMAIN names : names[i] \in DOMAIN named}
  <1>1. CASE given = {}
    BY <1>1 DEF Arg
  <1>2. CASE given # {}
    <2>1. given \in SUBSET Nat
      OBVIOUS
    <2>2. PICK i \in given : \A j \in given : i <= j
      <3> HIDE DEF given
      <3> QED BY <1>2, <2>1, LeastNatural
    <2>3. Min(given) \in given
      <3> HIDE DEF given
      <3> QED BY <2>2 DEF Min
    <2>4. names[Min(given)] \in Numbers \cap DOMAIN named
      BY <2>3
    <2>5. named[names[Min(given)]] \in Int
      BY <2>4 DEF IsDirective
    <2> QED BY <1>2, <2>5 DEF Arg
  <1> QED BY <1>1, <1>2

LEMMA OutcomeWords == \A w : ParseOutcome(w) \in Results \cup {"refused"}
  BY DEF ParseOutcome, Results, Failures, Injected

LEMMA BuiltWell ==
  ASSUME NEW d, IsDirective(d), BuildScript(d) # Refused
  PROVE  WellFormed(BuildScript(d))
  <1> DEFINE n == Len(d.args)
  <1>1. n \in Nat /\ DOMAIN d.args = 1 .. n
    BY DEF IsDirective
  <1>A. \A names \in Seq(Numbers) : \A default \in Int : Arg(d.args, names, default) \in Int
    BY NumberArgs
  <1>2. CASE d.head = "sequence"
    <2> DEFINE steps == [i \in DOMAIN d.args |-> ParseOutcome(d.args[i][1])]
    <2>1. BuildScript(d) = SequenceScript(d.args)
      BY <1>2 DEF BuildScript
    <2>2. /\ \A i \in DOMAIN steps : steps[i] # "refused"
          /\ BuildScript(d) = [kind |-> "sequence", steps |-> steps]
      BY <2>1 DEF SequenceScript
    <2>3. \A i \in 1 .. n : steps[i] \in Results
      <3>1. \A i \in 1 .. n : steps[i] = ParseOutcome(d.args[i][1])
        BY <1>1
      <3>2. \A i \in 1 .. n : steps[i] # "refused"
        BY <1>1, <2>2
      <3> HIDE DEF steps
      <3> QED BY <3>1, <3>2, OutcomeWords
    <2>4. steps \in Seq(Results)
      <3>1. steps \in [1 .. n -> Results]
        BY <1>1, <2>3
      <3> QED BY <1>1, <3>1
    <2> QED BY <2>2, <2>4 DEF WellFormed
  <1>3. CASE d.head = "periodic"
    <2> DEFINE period == Arg(d.args, <<"period">>, 0)
               injected == InjectedBy(d.args, "rate_limited")
    <2>0. <<"period">> \in Seq(Numbers) /\ 0 \in Int
      BY DEF Numbers
    <2>1. period \in Int
      BY <1>A, <2>0, Zenon
    <2>2. BuildScript(d) = PeriodicScript(d.args)
      BY <1>3 DEF BuildScript
    <2> HIDE DEF period, injected
    <2>3. /\ ~ (period < 1 \/ injected \notin Injected)
          /\ BuildScript(d) = [kind |-> "periodic", period |-> period, outcome |-> injected]
      BY <2>2 DEF PeriodicScript, period, injected
    <2> QED BY <2>1, <2>3 DEF WellFormed
  <1>4. CASE d.head = "burst"
    <2> DEFINE window == Arg(d.args, <<"windowMs", "window">>, 1000)
               allowed == Arg(d.args, <<"allowed", "allowedBeforeBurst", "limit">>, 1)
               injected == InjectedBy(d.args, "rate_limited")
    <2>0. /\ <<"windowMs", "window">> \in Seq(Numbers)
          /\ <<"allowed", "allowedBeforeBurst", "limit">> \in Seq(Numbers)
      BY DEF Numbers
    <2>1. window \in Int
      <3>1. PICK names \in Seq(Numbers) : names = <<"windowMs", "window">>
        BY <2>0, Zenon
      <3>2. Arg(d.args, names, 1000) \in Int
        BY <1>A
      <3> QED BY <3>1, <3>2, SMT
    <2>4. allowed \in Int
      <3>1. PICK names \in Seq(Numbers) : names = <<"allowed", "allowedBeforeBurst", "limit">>
        BY <2>0, Zenon
      <3>2. Arg(d.args, names, 1) \in Int
        BY <1>A
      <3> QED BY <3>1, <3>2, Zenon
    <2>2. BuildScript(d) = BurstScript(d.args)
      BY <1>4 DEF BuildScript
    <2> HIDE DEF window, allowed, injected
    <2>3. /\ ~ (window < 1 \/ allowed < 0 \/ injected \notin Injected)
          /\ BuildScript(d) = [kind |-> "burst", window |-> window, allowed |-> allowed,
                               outcome |-> injected]
      BY <2>2 DEF BurstScript, window, allowed, injected
    <2> QED BY <2>1, <2>3, <2>4 DEF WellFormed
  <1>5. CASE d.head = "probability"
    <2> DEFINE p == Arg(d.args, <<"p", "probability">>, 0)
               seed == Arg(d.args, <<"seed">>, 1)
               injected == InjectedBy(d.args, "server_error")
               draws == IF p = 0 THEN {"ok"}
                        ELSE IF p = 100 \/ seed = 0 THEN {injected} ELSE {"ok", injected}
    <2>1. BuildScript(d) = ProbabilityScript(d.args)
      BY <1>5 DEF BuildScript
    <2> HIDE DEF p, seed, injected
    <2>2. injected \in Injected /\ BuildScript(d) = [kind |-> "probability", draws |-> draws]
      BY <2>1 DEF ProbabilityScript, p, seed, injected
    <2>3. draws \subseteq Results
      BY <2>2 DEF Results, Failures
    <2> QED BY <2>2, <2>3 DEF WellFormed
  <1>6. CASE d.head = "ok"
    BY <1>6 DEF BuildScript, Nothing, WellFormed
  <1>7. CASE d.head \notin {"ok", "sequence", "periodic", "burst", "probability"}
    BY <1>7 DEF BuildScript
  <1> QED BY <1>2, <1>3, <1>4, <1>5, <1>6, <1>7

LEMMA OutcomesTyped ==
  ASSUME NEW x, WellFormed(x), NEW s \in ScriptState, NEW t,
         NEW o \in Outcomes(x, s, t)
  PROVE  o \in Results
  <1>1. Injected \subseteq Results /\ "ok" \in Results
    BY DEF Results, Failures
  <1>2. CASE x.kind = "sequence"
    <2>1. s.count \in Nat
      BY DEF ScriptState
    <2>2. o = IF s.count < Len(x.steps) THEN x.steps[s.count + 1] ELSE "ok"
      BY <1>2 DEF Outcomes
    <2> QED BY <1>1, <1>2, <2>1, <2>2 DEF WellFormed
  <1>3. CASE x.kind = "periodic"
    BY <1>1, <1>3 DEF Outcomes, WellFormed
  <1>4. CASE x.kind = "burst"
    BY <1>1, <1>4 DEF Outcomes, WellFormed
  <1>5. CASE x.kind = "probability"
    BY <1>1, <1>5 DEF Outcomes, WellFormed
  <1>6. CASE x.kind \notin {"sequence", "periodic", "burst", "probability"}
    BY <1>1, <1>6 DEF Outcomes
  <1> QED BY <1>2, <1>3, <1>4, <1>5, <1>6

LEMMA AdvanceTyped ==
  ASSUME NEW x, NEW s \in ScriptState, NEW t \in Int
  PROVE  Advance(x, s, t) \in ScriptState
  BY DEF Advance, CountCall, CountInWindow, ScriptState

LEMMA ScriptsWell ==
  ASSUME setting \in Settings, Starts(setting)
  PROVE  \A i \in DOMAIN Scripts(setting) : WellFormed(Scripts(setting)[i])
  <1> SUFFICES ASSUME NEW i \in DOMAIN Scripts(setting)
               PROVE  WellFormed(Scripts(setting)[i])
    OBVIOUS
  <1>1. PICK d : IsDirective(d) /\ Scripts(setting)[i] = BuildScript(d)
    <2>1. CASE i = Shared
      BY <2>1, DemoAssumption DEF Scripts
    <2>2. CASE i # Shared
      BY <2>2, DemoAssumption DEF Scripts
    <2> QED BY <2>1, <2>2
  <1>2. BuildScript(d) # Refused
    BY <1>1 DEF Starts
  <1> QED BY <1>1, <1>2, BuiltWell

-----------------------------------------------------------------------------
(* Types                                                                    *)

Short(c) ==
  /\ Len(attempts[c]) <= MaxAttempts
  /\ pc[c] \in {"select", "send", "wait", "hook", "judge"} => Len(attempts[c]) < MaxAttempts

\* What Typed leaves open.
OtherTypes ==
  /\ now \in Nat /\ changes \in Nat
  /\ scripts = Scripts(setting) /\ Starts(setting)
  /\ states \in [DOMAIN scripts -> ScriptState]
  /\ form \in [Callers -> [count : Nat, sticky : BOOLEAN]]
  /\ barred \in [Callers -> SUBSET Keys]
  /\ outcome \in [Callers -> Results]
  /\ answer \in [Callers -> {0, 200, 401, 500, 503}]
  /\ entries \in [Callers -> Seq({"success", "error"})]

TypesInv == SessionInv /\ OtherTypes /\ \A c \in Callers : Short(c)

LEMMA TypesInit == Init => TypesInv
  <1> SUFFICES ASSUME Init PROVE TypesInv
    OBVIOUS
  <1>1. SessionInv
    BY SessionInit
  <1>2. setting \in Settings /\ Starts(setting) /\ MaxAttempts \in Nat \ {0}
    BY DemoAssumption DEF Init
  <1>3. OtherTypes
    <2>1. FreshState \in ScriptState
      BY DEF FreshState, NotStarted, ScriptState
    <2>2. states \in [DOMAIN scripts -> ScriptState]
      BY <2>1 DEF Init
    <2>3. <<>> \in Seq({"success", "error"})
      OBVIOUS
    <2>4. "ok" \in Results
      BY DEF Results
    <2> QED BY <1>2, <2>2, <2>3, <2>4 DEF Init, OtherTypes
  <1>4. \A c \in Callers : Short(c)
    BY <1>2 DEF Init, Short
  <1> QED BY <1>1, <1>3, <1>4 DEF TypesInv

\* An attempt more.
LEMMA AttemptLength ==
  ASSUME Typed, NEW c \in Callers, NEW o, Attempt(c, o),
         attempts' \in [Callers -> Seq(Tries)]
  PROVE  /\ Len(attempts'[c]) = Len(attempts[c]) + 1
         /\ \A d \in Callers \ {c} : attempts'[d] = attempts[d]
  BY DEF Attempt, Typed

LEMMA EndTurnTyped ==
  ASSUME OtherTypes, NEW c \in Callers, EndTurn(c)
  PROVE  answer' \in [Callers -> {0, 200, 401, 500, 503}]
  <1>1. answer' = [answer EXCEPT ![c] = 200] \/ answer' = answer
    BY Zenon DEF EndTurn
  <1>2. answer \in [Callers -> {0, 200, 401, 500, 503}]
    BY DEF OtherTypes
  <1> QED BY <1>1, <1>2

LEMMA StepTyped ==
  ASSUME TypesInv, SessionInv', NEW c \in Callers, Step(c)
  PROVE  TypesInv'
  <1>1. Typed /\ Typed' /\ OtherTypes /\ MaxAttempts \in Nat \ {0}
    BY DemoAssumption DEF TypesInv, SessionInv
  <1>2. /\ attempts \in [Callers -> Seq(Tries)] /\ attempts' \in [Callers -> Seq(Tries)]
        /\ \A d \in Callers : Len(attempts[d]) \in Nat /\ Len(attempts'[d]) \in Nat
    BY <1>1 DEF Typed
  <1>3. ASSUME \A d \in Callers \ {c} : pc'[d] = pc[d] /\ attempts'[d] = attempts[d],
               OtherTypes', Short(c)'
        PROVE  TypesInv'
    <2>1. \A d \in Callers \ {c} : Short(d)'
      BY <1>3 DEF TypesInv, Short
    <2>2. \A d \in Callers : Short(d)'
      BY <1>3, <2>1
    <2> QED BY <1>3, <2>2 DEF TypesInv
  <1> DEFINE Same == \A d \in Callers \ {c} : pc'[d] = pc[d] /\ attempts'[d] = attempts[d]
  <1>4. CASE List(c)
    <2>1. Same /\ Short(c)'
      BY <1>1, <1>4 DEF List, Goto, Typed, Short
    <2>2. barred' \in [Callers -> SUBSET Keys]
      BY <1>1, <1>4 DEF List, Typed, OtherTypes
    <2>3. OtherTypes'
      BY <1>1, <1>4, <2>2 DEF List, OtherTypes, world
    <2> QED BY <1>3, <2>1, <2>3
  <1>5. CASE \/ Select(c) \/ Exhausted(c) \/ Respond(c) \/ HookThrows(c)
             \/ CatchThrows(c)
    <2>1. Same /\ Short(c)'
      BY <1>1, <1>2, <1>5 DEF Select, Exhausted, Respond, HookThrows, CatchThrows, call,
        Goto, Typed, Short, TypesInv
    <2>2. OtherTypes'
      <3>1. CASE CatchThrows(c)
        BY <1>1, <3>1 DEF CatchThrows, world, OtherTypes
      <3>2. CASE Select(c)
        BY <1>1, <3>2 DEF Select, world, OtherTypes
      <3>3. CASE Exhausted(c) \/ Respond(c) \/ HookThrows(c)
        BY <1>1, <3>3 DEF Exhausted, Respond, HookThrows, call, world, OtherTypes
      <3> QED BY <1>5, <3>1, <3>2, <3>3
    <2> QED BY <1>3, <2>1, <2>2
  <1>6. CASE Send(c)
    <2> DEFINE i == Instance(chosen[c])
    <2>1. Same /\ Short(c)'
      BY <1>1, <1>2, <1>6 DEF Send, Goto, Typed, Short, TypesInv
    <2>2. i \in DOMAIN scripts
      BY <1>1 DEF Instance, OtherTypes, Scripts
    <2>3. WellFormed(scripts[i]) /\ states[i] \in ScriptState
      BY <1>1, <2>2, ScriptsWell DEF OtherTypes, Typed
    <2> HIDE DEF i
    <2>4. PICK o \in Outcomes(scripts[i], states[i], now) : outcome' = [outcome EXCEPT ![c] = o]
      BY <1>6 DEF Send, i
    <2>5. o \in Results
      BY <2>3, <2>4, OutcomesTyped
    <2>6. Advance(scripts[i], states[i], now) \in ScriptState
      BY <1>1, <2>3, AdvanceTyped DEF OtherTypes
    <2>7. states' = [states EXCEPT ![i] = Advance(scripts[i], states[i], now)]
      BY <1>6 DEF Send, i
    <2>8. states' \in [DOMAIN scripts -> ScriptState] /\ outcome' \in [Callers -> Results]
      BY <1>1, <2>4, <2>5, <2>6, <2>7 DEF OtherTypes
    <2>9. OtherTypes'
      BY <1>1, <1>6, <2>8 DEF Send, OtherTypes
    <2> QED BY <1>3, <2>1, <2>9
  <1>7. CASE FailAttempt(c)
    <2>1. PICK o \in Failures :
            /\ pc[c] \in {"wait", "hook", "judge"}
            /\ Attempt(c, o)
            /\ Goto(c, IF GoesOn(c, o) THEN "select" ELSE "catch")
            /\ UNCHANGED <<setting, world, form, turn, pinned, barred, chosen,
                           outcome, results, answer, entries, added>>
      BY <1>7 DEF FailAttempt, Fails
    <2>2. Len(attempts'[c]) = Len(attempts[c]) + 1 /\ Same
      BY <1>1, <1>2, <2>1, AttemptLength DEF Goto, Typed
    <2>3. Short(c)'
      BY <1>1, <1>2, <2>1, <2>2 DEF Goto, Typed, GoesOn, Short, TypesInv
    <2>4. OtherTypes'
      BY <1>1, <2>1 DEF OtherTypes, world
    <2> QED BY <1>3, <2>2, <2>3, <2>4
  <1>8. CASE Succeed(c)
    <2>1. Attempt(c, "ok") /\ EndTurn(c) /\ pc[c] = "judge"
      BY <1>8 DEF Succeed
    <2>2. Len(attempts'[c]) = Len(attempts[c]) + 1 /\ Same /\ pc'[c] \in {"list", "done"}
      BY <1>1, <1>2, <2>1, AttemptLength, TurnEnds
    <2>3. Short(c)'
      BY <1>1, <1>2, <2>1, <2>2 DEF Short, TypesInv
    <2>5. OtherTypes'
      BY <1>1, <1>8, <2>1, EndTurnTyped DEF Succeed, OtherTypes, world
    <2> QED BY <1>3, <2>2, <2>3, <2>5
  <1>9. CASE Catch(c)
    <2>1. attempts' = attempts /\ EndTurn(c)
      BY <1>9 DEF Catch
    <2>2. Same /\ pc'[c] \in {"list", "done"}
      BY <1>1, <1>2, <2>1, TurnEnds
    <2>3. Short(c)'
      BY <2>1, <2>2 DEF Short, TypesInv
    <2>4. entries' \in [Callers -> Seq({"success", "error"})]
      BY <1>1, <1>9 DEF Catch, OtherTypes
    <2>5. OtherTypes'
      BY <1>1, <1>9, <2>1, <2>4, EndTurnTyped DEF Catch, OtherTypes, world
    <2> QED BY <1>3, <2>2, <2>3, <2>5
  <1>10. CASE Record(c)
    <2>1. Same /\ Short(c)'
      BY <1>1, <1>2, <1>10 DEF Record, Goto, Typed, Short, TypesInv
    <2>2. entries' \in [Callers -> Seq({"success", "error"})]
      BY <1>1, <1>10 DEF Record, OtherTypes
    <2>3. OtherTypes'
      BY <1>1, <1>10, <2>2 DEF Record, OtherTypes, world
    <2> QED BY <1>3, <2>1, <2>3
  <1> QED BY <1>4, <1>5, <1>6, <1>7, <1>8, <1>9, <1>10 DEF Step

LEMMA FormCount ==
  ASSUME NEW f \in Forms
  PROVE  EffectiveCount(Payload(f)) \in Nat \ {0}
  BY DEF Forms, Payload, EffectiveCount

LEMMA CallTyped ==
  ASSUME TypesInv, SessionInv', NEW c \in Callers, NEW f \in Forms,
         Refuse(c, f) \/ Submit(c, f)
  PROVE  TypesInv'
  <1>1. Typed /\ OtherTypes
    BY DEF TypesInv, SessionInv
  <1>2. CASE Refuse(c, f)
    <2>1. OtherTypes'
      BY <1>1, <1>2 DEF Refuse, OtherTypes, world
    <2>2. \A d \in Callers : Short(d)'
      BY <1>1, <1>2 DEF Refuse, Goto, Short, TypesInv, Typed
    <2> QED BY <2>1, <2>2 DEF TypesInv
  <1>3. CASE Submit(c, f)
    <2>1. f.session \in BOOLEAN /\ EffectiveCount(Payload(f)) \in Nat
      BY FormCount DEF Forms
    <2>2. form' \in [Callers -> [count : Nat, sticky : BOOLEAN]]
      BY <1>1, <1>3, <2>1 DEF Submit, OtherTypes
    <2>3. OtherTypes'
      BY <1>1, <1>3, <2>2 DEF Submit, OtherTypes, world
    <2>4. \A d \in Callers : Short(d)'
      BY <1>1, <1>3 DEF Submit, Goto, Short, TypesInv, Typed
    <2> QED BY <2>3, <2>4 DEF TypesInv
  <1> QED BY <1>2, <1>3

LEMMA WorldTyped ==
  ASSUME TypesInv, SessionInv',
         (\E k \in Keys : AddKey(k) \/ DeleteKey(k)) \/ Tick \/ UNCHANGED vars
  PROVE  TypesInv'
  <1>1. OtherTypes'
    BY DEF TypesInv, OtherTypes, AddKey, DeleteKey, Change, Tick, vars, world, call
  <1>2. \A d \in Callers : Short(d)'
    BY DEF TypesInv, Short, AddKey, DeleteKey, Change, Tick, vars, world, call
  <1> QED BY <1>1, <1>2 DEF TypesInv

\* The cases of a step, for invariants that hold of typed states.
LEMMA StepCases ==
  ASSUME Typed, [Next]_vars
  PROVE  \/ \E c \in setting.callers \cap Callers : Step(c)
         \/ \E c \in setting.callers \cap Callers :
              \E f \in Forms : Refuse(c, f) \/ Submit(c, f)
         \/ (\E k \in Keys : AddKey(k) \/ DeleteKey(k)) \/ Tick \/ UNCHANGED vars
  <1>1. setting.callers \subseteq Callers /\ setting.forms \subseteq Forms
    BY DemoAssumption DEF Typed
  <1> QED BY <1>1 DEF Next

LEMMA TypesNext == TypesInv /\ [Next]_vars => TypesInv'
  <1> SUFFICES ASSUME TypesInv, [Next]_vars PROVE TypesInv'
    OBVIOUS
  <1>1. SessionInv' /\ Typed
    BY SessionNext DEF TypesInv, SessionInv
  <1> QED BY <1>1, StepCases, StepTyped, CallTyped, WorldTyped

(* demo.routes.ts, fake-script.ts: every variable has its type, and a turn  *)
(* makes at most MaxAttempts attempts.                                      *)
THEOREM Typing == Spec => []TypeOK
  <1>1. TypesInv => TypeOK
    <2> SUFFICES ASSUME TypesInv PROVE TypeOK
      OBVIOUS
    <2>1. Typed /\ OtherTypes /\ \A c \in Callers : Len(attempts[c]) <= MaxAttempts
      BY DEF TypesInv, SessionInv, Short
    <2>2. DOMAIN states = DOMAIN scripts /\ \A i \in DOMAIN states : states[i].count \in Nat
      BY <2>1 DEF OtherTypes, ScriptState
    <2> QED BY <2>1, <2>2 DEF Typed, OtherTypes, TypeOK, Tries, Results
  <1> QED BY <1>1, TypesInit, TypesNext, PTL DEF Spec

-----------------------------------------------------------------------------
(* Answers                                                                  *)

Good(r) == r.status \in 200 .. 399

\* A call in a turn has reported the turns before; one answered, all.
Progress(c) ==
  /\ pc[c] = "idle" => results[c] = <<>> /\ entries[c] = <<>> /\ answer[c] = 0
  /\ pc[c] \in InTurn \cup {"list"} => /\ answer[c] = 0
                                       /\ turn[c] \in 1 .. form[c].count
                                       /\ Len(results[c]) = turn[c] - 1
  /\ answer[c] = 200 => pc[c] = "done" /\ Len(results[c]) = form[c].count

\* The elements of s that are in S, by their positions.
Where(s, S) == {i \in DOMAIN s : s[i] \in S}
HowMany(s, S) == Cardinality(Where(s, S))

Goods == {r \in Reports : Good(r)}
Bads  == Reports \ Goods

\* An error entry for each result that is a failure, and a success entry for
\* each that is a success; one more where the hook is half done, and others
\* only where its second half may throw.
Paired(c) ==
  LET due == HowMany(results[c], Goods) + (IF pc[c] = "judge" THEN 1 ELSE 0)
  IN  /\ \A i \in DOMAIN results[c] : results[c][i].turn = i
      /\ HowMany(entries[c], {"error"}) = HowMany(results[c], Bads)
      /\ due <= HowMany(entries[c], {"success"})
      /\ "health" \notin setting.throws => due = HowMany(entries[c], {"success"})

AnswerInv == TypesInv /\ \A c \in Callers : Progress(c) /\ Paired(c)

\* Counting the elements of a sequence that are in a set.
LEMMA CountNone == \A S : HowMany(<<>>, S) = 0
  <1>1. \A S : Where(<<>>, S) = {}
    BY DEF Where
  <1> QED BY <1>1, FS_EmptySet DEF HowMany

LEMMA CountAppend ==
  ASSUME NEW T, NEW s \in Seq(T), NEW e \in T, NEW S
  PROVE  /\ HowMany(s, S) \in Nat
         /\ HowMany(Append(s, e), S) = HowMany(s, S) + (IF e \in S THEN 1 ELSE 0)
  <1> DEFINE u == Append(s, e)
             k == Len(s) + 1
  <1>1. /\ DOMAIN u = 1 .. k /\ DOMAIN s = 1 .. k - 1 /\ k \in Nat \ {0}
        /\ u[k] = e /\ \A i \in 1 .. k - 1 : u[i] = s[i]
    OBVIOUS
  <1> HIDE DEF u, k
  <1>2. IsFiniteSet(Where(s, S)) /\ k \notin Where(s, S)
    <2>1. Where(s, S) \in SUBSET (1 .. k - 1) /\ k - 1 \in Int
      BY <1>1 DEF Where
    <2>2. IsFiniteSet(1 .. k - 1)
      BY <2>1, FS_Interval
    <2>3. IsFiniteSet(Where(s, S))
      BY <2>1, <2>2, FS_Subset
    <2> QED BY <1>1, <2>1, <2>3
  <1>3. HowMany(s, S) \in Nat
    BY <1>2, FS_CardinalityType DEF HowMany
  <1>4. CASE e \in S
    <2>1. Where(u, S) = Where(s, S) \cup {k}
      BY <1>1, <1>4 DEF Where
    <2>2. Cardinality(Where(u, S)) = Cardinality(Where(s, S)) + 1
      BY <1>2, <2>1, FS_AddElement
    <2> QED BY <1>3, <1>4, <2>2 DEF HowMany, u
  <1>5. CASE e \notin S
    <2>1. Where(u, S) = Where(s, S)
      BY <1>1, <1>5 DEF Where
    <2> QED BY <1>3, <1>5, <2>1 DEF HowMany, u
  <1> QED BY <1>3, <1>4, <1>5

LEMMA CountTyped ==
  ASSUME NEW T, NEW s \in Seq(T), NEW S
  PROVE  HowMany(s, S) \in Nat
  <1>1. DOMAIN s = 1 .. Len(s) /\ Len(s) \in Nat
    OBVIOUS
  <1>2. IsFiniteSet(1 .. Len(s)) /\ Where(s, S) \in SUBSET (1 .. Len(s))
    BY <1>1, FS_Interval DEF Where
  <1> QED BY <1>2, FS_Subset, FS_CardinalityType DEF HowMany

\* An entry more.
LEMMA EntryCounted ==
  ASSUME NEW s \in Seq({"success", "error"})
  PROVE  /\ HowMany(Append(s, "error"), {"error"}) = HowMany(s, {"error"}) + 1
         /\ HowMany(Append(s, "error"), {"success"}) = HowMany(s, {"success"})
         /\ HowMany(Append(s, "success"), {"error"}) = HowMany(s, {"error"})
         /\ HowMany(Append(s, "success"), {"success"}) = HowMany(s, {"success"}) + 1
  <1>1. ASSUME NEW e \in {"success", "error"}, NEW S
        PROVE  /\ HowMany(s, S) \in Nat
               /\ HowMany(Append(s, e), S) = HowMany(s, S) + (IF e \in S THEN 1 ELSE 0)
    BY CountAppend
  <1>2. /\ HowMany(Append(s, "error"), {"error"}) = HowMany(s, {"error"}) + 1
        /\ HowMany(Append(s, "success"), {"success"}) = HowMany(s, {"success"}) + 1
    BY <1>1
  <1>3. ASSUME NEW e \in {"success", "error"}, NEW S, e \notin S
        PROVE  HowMany(Append(s, e), S) = HowMany(s, S)
    BY <1>1, <1>3
  <1> QED BY <1>2, <1>3

LEMMA AnswerInit == Init => AnswerInv
  <1> SUFFICES ASSUME Init PROVE AnswerInv
    OBVIOUS
  <1>1. \A c \in Callers : Progress(c) /\ Paired(c)
    BY CountNone DEF Init, Progress, Paired, InTurn
  <1> QED BY <1>1, TypesInit DEF AnswerInv

\* The result of a turn, and whether it says a success.
LEMMA ResultGood ==
  ASSUME NEW c \in Callers, NEW tries \in Seq(Tries)
  PROVE  /\ Result(c, tries).turn = turn[c]
         /\ pc[c] # "broken" /\ tries # <<>> /\ tries[Len(tries)].outcome = "ok"
              => Good(Result(c, tries))
         /\ tries = <<>> \/ tries[Len(tries)].outcome \in Failures => ~Good(Result(c, tries))
  <1>1. StatusOf("ok") = 200 /\ \A o \in Failures : StatusOf(o) \in {429, 500, 502, 504}
    BY DEF StatusOf, Failures, Injected
  <1>2. Len(tries) \in Nat /\ (Len(tries) = 0 <=> tries = <<>>)
    OBVIOUS
  <1>3. /\ Result(c, tries).turn = turn[c]
        /\ Result(c, tries).status =
             IF Len(tries) = 0 \/ pc[c] = "broken" THEN 502
             ELSE StatusOf(tries[Len(tries)].outcome)
    BY DEF Result
  <1>4. ASSUME NEW r, r.status = 200
        PROVE  Good(r)
    BY <1>4 DEF Good
  <1>5. ASSUME NEW r, r.status \in {429, 500, 502, 504}
        PROVE  ~Good(r)
    <2>1. PICK n \in {429, 500, 502, 504} : r.status = n
      BY <1>5
    <2>2. n \notin 200 .. 399
      OBVIOUS
    <2> QED BY <2>1, <2>2, SMT DEF Good
  <1>6. ASSUME pc[c] # "broken", tries # <<>>, tries[Len(tries)].outcome = "ok"
        PROVE  Result(c, tries).status = 200
    BY <1>1, <1>2, <1>3, <1>6
  <1>7. ASSUME tries = <<>> \/ tries[Len(tries)].outcome \in Failures
        PROVE  Result(c, tries).status \in {429, 500, 502, 504}
    <2>1. CASE Len(tries) = 0 \/ pc[c] = "broken"
      BY <1>3, <2>1
    <2>2. CASE ~ (Len(tries) = 0 \/ pc[c] = "broken")
      BY <1>1, <1>2, <1>3, <1>7, <2>2
    <2> QED BY <2>1, <2>2
  <1> QED BY <1>3, <1>4, <1>5, <1>6, <1>7

\* The end of a turn: the call has reported one more.
LEMMA TurnProgresses ==
  ASSUME AnswerInv, NEW c \in Callers, pc[c] \in InTurn,
         attempts' \in [Callers -> Seq(Tries)], EndTurn(c), form' = form
  PROVE  /\ Progress(c)'
         /\ \A i \in DOMAIN results'[c] : results'[c][i].turn = i
  <1> DEFINE r == Result(c, attempts'[c])
             s == results[c]
  <1>1. /\ Typed /\ OtherTypes
    BY DEF AnswerInv, TypesInv, SessionInv
  <1>2. s \in Seq(Reports) /\ turn[c] \in Nat /\ form[c].count \in Nat
    BY <1>1 DEF Typed, OtherTypes
  <1>3. results'[c] = Append(s, r) /\ r.turn = turn[c]
    BY <1>1, TurnEnds, ResultGood DEF Typed
  <1>4. /\ answer[c] = 0 /\ turn[c] \in 1 .. form[c].count /\ Len(s) = turn[c] - 1
        /\ \A i \in DOMAIN s : s[i].turn = i
    BY DEF AnswerInv, Progress, Paired
  <1> HIDE DEF r
  <1>5. ASSUME NEW i \in DOMAIN Append(s, r)
        PROVE  Append(s, r)[i].turn = i
    <2>1. CASE i = Len(s) + 1
      BY <1>2, <1>3, <1>4, <2>1
    <2>2. CASE i # Len(s) + 1
      <3>1. i \in DOMAIN s /\ Append(s, r)[i] = s[i]
        BY <1>2, <1>5, <2>2
      <3> QED BY <1>4, <3>1
    <2> QED BY <2>1, <2>2
  <1>6. Len(results'[c]) = turn[c]
    BY <1>2, <1>3, <1>4
  <1>7. CASE turn[c] < form[c].count
    <2>1. turn'[c] = turn[c] + 1 /\ pc'[c] = "list" /\ answer' = answer
      BY <1>1, <1>7, <1>2 DEF EndTurn, Goto, Typed
    <2>2. Progress(c)'
      BY <1>2, <1>4, <1>6, <1>7, <2>1 DEF Progress, InTurn
    <2> QED BY <1>3, <1>5, <2>2
  <1>8. CASE ~ (turn[c] < form[c].count)
    <2>1. pc'[c] = "done" /\ answer'[c] = 200
      BY <1>1, <1>8, <1>2 DEF EndTurn, Goto, Typed, OtherTypes
    <2>2. Progress(c)'
      BY <1>2, <1>4, <1>6, <1>8, <2>1 DEF Progress, InTurn
    <2> QED BY <1>3, <1>5, <2>2
  <1> QED BY <1>7, <1>8

\* The results of a caller, counted, after one more.
LEMMA ResultCounted ==
  ASSUME Typed, NEW c \in Callers, attempts' \in [Callers -> Seq(Tries)], EndTurn(c)
  PROVE  LET r == Result(c, attempts'[c])
         IN  /\ HowMany(results[c], Goods) \in Nat /\ HowMany(results[c], Bads) \in Nat
             /\ HowMany(results'[c], Goods)
                  = HowMany(results[c], Goods) + (IF Good(r) THEN 1 ELSE 0)
             /\ HowMany(results'[c], Bads)
                  = HowMany(results[c], Bads) + (IF Good(r) THEN 0 ELSE 1)
  <1> DEFINE r == Result(c, attempts'[c])
  <1>1. /\ results[c] \in Seq(Reports) /\ r \in Reports
        /\ results'[c] = Append(results[c], r)
    <2>1. results \in [Callers -> Seq(Reports)]
      BY DEF Typed
    <2>2. r \in Reports
      BY ResultFacts
    <2>3. results' = [results EXCEPT ![c] = Append(@, r)]
      BY TurnEnds
    <2> QED BY <2>1, <2>2, <2>3
  <1> HIDE DEF r
  <1>2. (r \in Goods <=> Good(r)) /\ (r \in Bads <=> ~Good(r))
    BY <1>1 DEF Goods, Bads
  <1>3. \A S : /\ HowMany(results[c], S) \in Nat
               /\ HowMany(Append(results[c], r), S)
                    = HowMany(results[c], S) + (IF r \in S THEN 1 ELSE 0)
    BY <1>1, CountAppend
  <1> QED BY <1>1, <1>2, <1>3 DEF r

\* A turn that ends well has its entry already, the one that ends badly gets it.
LEMMA SuccessPaired ==
  ASSUME AnswerInv, NEW c \in Callers, pc[c] = "judge",
         attempts' \in [Callers -> Seq(Tries)], EndTurn(c), form' = form,
         setting' = setting, entries' = entries, Good(Result(c, attempts'[c]))
  PROVE  Paired(c)'
  <1>1. Typed /\ pc[c] \in InTurn /\ Paired(c)
    BY DEF AnswerInv, TypesInv, SessionInv, InTurn
  <1>2. /\ \A i \in DOMAIN results'[c] : results'[c][i].turn = i
        /\ pc'[c] \in {"list", "done"}
    BY <1>1, TurnProgresses, TurnEnds
  <1>3. /\ HowMany(results[c], Goods) \in Nat /\ HowMany(results[c], Bads) \in Nat
        /\ HowMany(results'[c], Goods) = HowMany(results[c], Goods) + 1
        /\ HowMany(results'[c], Bads) = HowMany(results[c], Bads)
    BY <1>1, ResultCounted
  <1> QED BY <1>1, <1>2, <1>3 DEF Paired

LEMMA FailurePaired ==
  ASSUME AnswerInv, NEW c \in Callers, pc[c] \in InTurn, pc[c] # "judge",
         attempts' \in [Callers -> Seq(Tries)], EndTurn(c), form' = form,
         setting' = setting, entries' = [entries EXCEPT ![c] = Append(@, "error")],
         ~Good(Result(c, attempts'[c]))
  PROVE  Paired(c)'
  <1>1. Typed /\ OtherTypes /\ Paired(c)
    BY DEF AnswerInv, TypesInv, SessionInv
  <1>2. /\ \A i \in DOMAIN results'[c] : results'[c][i].turn = i
        /\ pc'[c] \in {"list", "done"}
    BY <1>1, TurnProgresses, TurnEnds
  <1>3. /\ HowMany(results[c], Goods) \in Nat /\ HowMany(results[c], Bads) \in Nat
        /\ HowMany(results'[c], Goods) = HowMany(results[c], Goods)
        /\ HowMany(results'[c], Bads) = HowMany(results[c], Bads) + 1
    BY <1>1, ResultCounted
  <1>4. /\ entries[c] \in Seq({"success", "error"})
        /\ entries'[c] = Append(entries[c], "error")
    BY <1>1 DEF OtherTypes
  <1>5. /\ HowMany(entries'[c], {"error"}) = HowMany(entries[c], {"error"}) + 1
        /\ HowMany(entries'[c], {"success"}) = HowMany(entries[c], {"success"})
    BY <1>4, EntryCounted
  <1> QED BY <1>1, <1>2, <1>3, <1>5 DEF Paired

\* A step of one caller that neither begins nor ends a turn.
LEMMA AnswersAlone ==
  ASSUME AnswerInv, TypesInv', NEW c \in Callers,
         \A d \in Callers \ {c} :
           /\ pc'[d] = pc[d] /\ form'[d] = form[d] /\ turn'[d] = turn[d]
           /\ results'[d] = results[d] /\ entries'[d] = entries[d]
           /\ answer'[d] = answer[d],
         setting' = setting, Progress(c)', Paired(c)'
  PROVE  AnswerInv'
  <1>1. ASSUME NEW d \in Callers \ {c}
        PROVE  Progress(d)' /\ Paired(d)'
    BY <1>1 DEF AnswerInv, Progress, Paired
  <1> QED BY <1>1 DEF AnswerInv

LEMMA AnswerMoves ==
  ASSUME AnswerInv, TypesInv', NEW c \in Callers, NEW label \in InTurn,
         pc[c] \in InTurn \cup {"list"}, Goto(c, label), label # "judge",
         pc[c] = "judge" => "health" \in setting.throws,
         UNCHANGED <<setting, form, turn, results, entries, answer>>
  PROVE  AnswerInv'
  <1>1. Typed
    BY DEF AnswerInv, TypesInv, SessionInv
  <1>2. pc'[c] = label /\ \A d \in Callers \ {c} : pc'[d] = pc[d]
    BY <1>1 DEF Goto, Typed
  <1>3. Progress(c)'
    BY <1>2 DEF AnswerInv, Progress, InTurn
  <1>4. Paired(c)'
    <2>1. HowMany(results[c], Goods) \in Nat /\ HowMany(entries[c], {"success"}) \in Nat
      BY <1>1, CountTyped DEF AnswerInv, TypesInv, OtherTypes, Typed
    <2>2. Paired(c)
      BY DEF AnswerInv
    <2>3. CASE pc[c] = "judge"
      BY <1>2, <2>1, <2>2, <2>3 DEF Paired
    <2>4. CASE pc[c] # "judge"
      BY <1>2, <2>1, <2>2, <2>4 DEF Paired
    <2> QED BY <2>3, <2>4
  <1> QED BY <1>2, <1>3, <1>4, AnswersAlone

LEMMA AnswerStep ==
  ASSUME AnswerInv, TypesInv', NEW c \in Callers, Step(c)
  PROVE  AnswerInv'
  <1>1. /\ Typed /\ Typed' /\ OtherTypes
        /\ attempts' \in [Callers -> Seq(Tries)] /\ attempts[c] \in Seq(Tries)
    BY DEF AnswerInv, TypesInv, SessionInv, Typed
  <1>2. CASE List(c) \/ Select(c) \/ Exhausted(c) \/ Respond(c) \/ HookThrows(c)
    <2>1. \E label \in InTurn :
            /\ pc[c] \in InTurn \cup {"list"} /\ Goto(c, label) /\ label # "judge"
            /\ pc[c] = "judge" => "health" \in setting.throws
            /\ UNCHANGED <<setting, form, turn, results, entries, answer>>
      BY <1>2 DEF List, Select, Exhausted, Respond, HookThrows, Fails, call, InTurn
    <2> QED BY <2>1, AnswerMoves
  <1>3. CASE Send(c)
    <2>1. /\ pc[c] = "send" /\ pc[c] \in InTurn /\ Goto(c, "wait") /\ "wait" \in InTurn
          /\ UNCHANGED <<setting, form, turn, results, entries, answer>>
      BY <1>3 DEF Send, InTurn
    <2> QED BY <2>1, AnswerMoves
  <1>4. CASE FailAttempt(c)
    <2>1. \E label \in InTurn :
            /\ pc[c] \in InTurn /\ Goto(c, label) /\ label # "judge"
            /\ pc[c] = "judge" => "health" \in setting.throws
            /\ UNCHANGED <<setting, form, turn, results, entries, answer>>
      BY <1>4 DEF FailAttempt, Fails, InTurn
    <2> QED BY <2>1, AnswerMoves
  <1>5. CASE Succeed(c)
    <2> DEFINE e == [key |-> chosen[c], outcome |-> "ok"]
    <2>1. pc[c] = "judge" /\ pc[c] \in InTurn /\ EndTurn(c) /\ form' = form
          /\ entries' = entries /\ setting' = setting
      BY <1>5 DEF Succeed, InTurn
    <2>2. attempts'[c] = Append(attempts[c], e) /\ attempts'[c] \in Seq(Tries)
      BY <1>1, <1>5 DEF Succeed, Attempt, Typed
    <2>3. attempts'[c] # <<>> /\ attempts'[c][Len(attempts'[c])].outcome = "ok"
      BY <1>1, <2>2
    <2>4. Good(Result(c, attempts'[c]))
      BY <2>1, <2>2, <2>3, ResultGood
    <2>5. Progress(c)' /\ Paired(c)'
      BY <1>1, <2>1, <2>4, TurnProgresses, SuccessPaired
    <2>6. \A d \in Callers \ {c} :
           /\ pc'[d] = pc[d] /\ form'[d] = form[d] /\ turn'[d] = turn[d]
           /\ results'[d] = results[d] /\ entries'[d] = entries[d]
           /\ answer'[d] = answer[d]
      BY <1>1, <2>1, SMTT(20) DEF EndTurn, Goto, Typed, OtherTypes
    <2> QED BY <2>1, <2>5, <2>6, AnswersAlone
  <1>6. CASE Catch(c)
    <2>1. pc[c] \in InTurn /\ pc[c] # "judge" /\ EndTurn(c) /\ form' = form
          /\ attempts' = attempts /\ setting' = setting
          /\ entries' = [entries EXCEPT ![c] = Append(@, "error")]
      BY <1>6 DEF Catch, InTurn
    <2>2. attempts[c] = <<>> \/ attempts[c][Len(attempts[c])].outcome \in Failures
      <3>1. \A i \in DOMAIN attempts[c] : attempts[c][i].outcome \in Failures
        BY <2>1 DEF AnswerInv, TypesInv, SessionInv, OnlyFailures
      <3>2. attempts[c] # <<>> => Len(attempts[c]) \in DOMAIN attempts[c]
        BY <1>1
      <3> QED BY <3>1, <3>2
    <2>3. ~Good(Result(c, attempts'[c]))
      BY <1>1, <2>1, <2>2, ResultGood
    <2>4. Progress(c)' /\ Paired(c)'
      BY <1>1, <2>1, <2>3, TurnProgresses, FailurePaired
    <2>5. \A d \in Callers \ {c} :
           /\ pc'[d] = pc[d] /\ form'[d] = form[d] /\ turn'[d] = turn[d]
           /\ results'[d] = results[d] /\ entries'[d] = entries[d]
           /\ answer'[d] = answer[d]
      BY <1>1, <2>1, SMTT(20) DEF EndTurn, Goto, Typed, OtherTypes
    <2> QED BY <2>1, <2>4, <2>5, AnswersAlone
  <1>7. CASE CatchThrows(c)
    <2>1. Progress(c)' /\ Paired(c)'
      BY <1>1, <1>7 DEF CatchThrows, Goto, AnswerInv, Progress, Paired, InTurn,
        Typed, OtherTypes
    <2>2. setting' = setting /\ \A d \in Callers \ {c} :
           /\ pc'[d] = pc[d] /\ form'[d] = form[d] /\ turn'[d] = turn[d]
           /\ results'[d] = results[d] /\ entries'[d] = entries[d]
           /\ answer'[d] = answer[d]
      BY <1>1, <1>7 DEF CatchThrows, Goto, Typed, OtherTypes
    <2> QED BY <2>1, <2>2, AnswersAlone
  <1>8. CASE Record(c)
    <2>1. /\ pc[c] = "hook" /\ Goto(c, "judge")
          /\ entries' = [entries EXCEPT ![c] = Append(@, "success")]
          /\ UNCHANGED <<setting, form, turn, results, answer>>
      BY <1>8 DEF Record
    <2>2. /\ pc'[c] = "judge" /\ entries'[c] = Append(entries[c], "success")
          /\ entries[c] \in Seq({"success", "error"})
          /\ \A d \in Callers \ {c} : pc'[d] = pc[d] /\ entries'[d] = entries[d]
      BY <1>1, <2>1 DEF Goto, Typed, OtherTypes
    <2>3. Progress(c)'
      BY <2>1, <2>2 DEF AnswerInv, Progress, InTurn
    <2>4. Paired(c)'
      <3>2. /\ HowMany(entries'[c], {"error"}) = HowMany(entries[c], {"error"})
            /\ HowMany(entries'[c], {"success"}) = HowMany(entries[c], {"success"}) + 1
        BY <2>2, EntryCounted
      <3>3. HowMany(results[c], Goods) \in Nat /\ HowMany(entries[c], {"success"}) \in Nat
        BY <1>1, <2>2, CountTyped DEF Typed
      <3>4. Paired(c)
        BY DEF AnswerInv
      <3> QED BY <2>1, <2>2, <3>2, <3>3, <3>4 DEF Paired
    <2> QED BY <2>1, <2>2, <2>3, <2>4, AnswersAlone
  <1> QED BY <1>2, <1>3, <1>4, <1>5, <1>6, <1>7, <1>8 DEF Step

LEMMA AnswerCall ==
  ASSUME AnswerInv, TypesInv', NEW c \in Callers, NEW f \in Forms,
         Refuse(c, f) \/ Submit(c, f)
  PROVE  AnswerInv'
  <1>1. Typed /\ OtherTypes
    BY DEF AnswerInv, TypesInv, SessionInv
  <1>2. results[c] = <<>> /\ entries[c] = <<>> /\ answer[c] = 0
    BY DEF Refuse, Submit, AnswerInv, Progress
  <1>3. CASE Refuse(c, f)
    <2>1. pc'[c] = "done" /\ answer'[c] # 200 /\ results'[c] = <<>> /\ entries'[c] = <<>>
      BY <1>1, <1>2, <1>3 DEF Refuse, Goto, Typed, OtherTypes
    <2>2. Progress(c)' /\ Paired(c)'
      BY <2>1, CountNone DEF Progress, Paired, InTurn
    <2> QED BY <1>1, <1>3, <2>2, AnswersAlone DEF Refuse, Goto, Typed, OtherTypes
  <1>4. CASE Submit(c, f)
    <2>1. EffectiveCount(Payload(f)) \in Nat \ {0}
      BY FormCount
    <2>2. /\ pc'[c] = "list" /\ answer'[c] = 0 /\ results'[c] = <<>> /\ entries'[c] = <<>>
          /\ turn'[c] = 1 /\ form'[c].count \in Nat \ {0}
      BY <1>1, <1>2, <1>4, <2>1 DEF Submit, Goto, Typed, OtherTypes
    <2>3. Progress(c)' /\ Paired(c)'
      BY <2>2, CountNone DEF Progress, Paired, InTurn
    <2> QED BY <1>1, <1>4, <2>3, AnswersAlone DEF Submit, Goto, Typed, OtherTypes
  <1> QED BY <1>3, <1>4

LEMMA AnswerNext == AnswerInv /\ [Next]_vars => AnswerInv'
  <1> SUFFICES ASSUME AnswerInv, [Next]_vars PROVE AnswerInv'
    OBVIOUS
  <1>1. TypesInv' /\ Typed
    BY TypesNext DEF AnswerInv, TypesInv, SessionInv
  <1>2. ASSUME (\E k \in Keys : AddKey(k) \/ DeleteKey(k)) \/ Tick \/ UNCHANGED vars
        PROVE  AnswerInv'
    <2>1. UNCHANGED <<setting, pc, form, turn, results, entries, answer>>
      BY <1>2 DEF AddKey, DeleteKey, Tick, vars, call
    <2>2. \A c \in Callers : Progress(c)' /\ Paired(c)'
      BY <2>1 DEF AnswerInv, Progress, Paired
    <2> QED BY <1>1, <2>2 DEF AnswerInv
  <1> QED BY <1>1, <1>2, StepCases, AnswerStep, AnswerCall

\* The indexes of a sequence that are in a set, and those that are not.
LEMMA Complement ==
  ASSUME NEW n \in Nat, NEW S \in SUBSET (1 .. n)
  PROVE  Cardinality((1 .. n) \ S) = n - Cardinality(S)
  <1>1. IsFiniteSet(1 .. n) /\ Cardinality(1 .. n) = n
    BY FS_Interval
  <1>2. (1 .. n) \cap S = S
    OBVIOUS
  <1>3. Cardinality((1 .. n) \ S) = Cardinality(1 .. n) - Cardinality((1 .. n) \cap S)
    BY <1>1, FS_Difference, Zenon
  <1> QED BY <1>1, <1>2, <1>3

(* demo.routes.ts, runDemo: a call that is answered with results reports    *)
(* every turn it asked for, in order; its error entries are one for each    *)
(* failed turn whatever throws, and its success entries one for each that   *)
(* succeeded, unless a health event can throw after one is written.         *)
THEOREM AnswersComplete == Spec => []AnswerIsComplete
  <1>1. AnswerInv => AnswerIsComplete
    <2> SUFFICES ASSUME AnswerInv, NEW c \in Callers, answer[c] = 200
                 PROVE  LET logged(o) == Cardinality({i \in DOMAIN entries[c] : entries[c][i] = o})
                        IN  /\ Summary(results[c]).total = form[c].count
                            /\ \A i \in DOMAIN results[c] : results[c][i].turn = i
                            /\ Summary(results[c]).failed = logged("error")
                            /\ Summary(results[c]).success <= logged("success")
                            /\ "health" \notin setting.throws =>
                                 Summary(results[c]).success = logged("success")
      BY DEF AnswerIsComplete
    <2> DEFINE n == Len(results[c])
               S == Where(results[c], Goods)
               E(o) == {i \in DOMAIN entries[c] : entries[c][i] = o}
    <2>1. Progress(c) /\ Paired(c) /\ results[c] \in Seq(Reports)
      BY DEF AnswerInv, TypesInv, SessionInv, Typed
    <2>2. /\ n \in Nat /\ DOMAIN results[c] = 1 .. n
          /\ \A i \in 1 .. n : results[c][i] \in Reports
      BY <2>1
    <2>3. pc[c] = "done" /\ n = form[c].count
      BY <2>1 DEF Progress
    <2>4. {i \in DOMAIN results[c] : results[c][i].status \in 200 .. 399} = S
      BY <2>2 DEF Where, Goods, Good
    <2>5. Where(results[c], Bads) = (1 .. n) \ S
      BY <2>2 DEF Where, Bads, Goods
    <2>6. Cardinality(Where(results[c], Bads)) = n - Cardinality(S)
      <3>1. S \in SUBSET (1 .. n)
        BY <2>2 DEF Where
      <3> HIDE DEF S
      <3> QED BY <2>2, <2>5, <3>1, Complement
    <2>7. /\ Summary(results[c]).total = n
          /\ Summary(results[c]).success = Cardinality(S)
          /\ Summary(results[c]).failed = n - Cardinality(S)
      BY <2>4 DEF Summary
    <2>8. \A o : E(o) = Where(entries[c], {o})
      BY DEF Where
    <2>9. /\ Cardinality(E("error")) = HowMany(results[c], Bads)
          /\ HowMany(results[c], Goods) + 0 <= Cardinality(E("success"))
          /\ "health" \notin setting.throws =>
               HowMany(results[c], Goods) + 0 = Cardinality(E("success"))
      BY <2>1, <2>3, <2>8 DEF Paired, HowMany
    <2>10. HowMany(results[c], Goods) \in Nat
      BY <2>1, CountTyped
    <2>11. HowMany(results[c], Goods) = Cardinality(S)
      BY DEF HowMany
    <2>12. \A i \in DOMAIN results[c] : results[c][i].turn = i
      BY <2>1 DEF Paired
    <2> HIDE DEF S, E
    <2>13. /\ Summary(results[c]).failed = Cardinality(E("error"))
           /\ Summary(results[c]).success <= Cardinality(E("success"))
           /\ "health" \notin setting.throws =>
                Summary(results[c]).success = Cardinality(E("success"))
      BY <2>6, <2>7, <2>9, <2>10, <2>11 DEF HowMany
    <2> QED BY <2>3, <2>7, <2>12, <2>13 DEF E
  <1> QED BY <1>1, AnswerInit, AnswerNext, PTL DEF Spec

-----------------------------------------------------------------------------
(* Retries on a periodic script                                             *)

Solo ==
  /\ Cardinality(setting.callers) = 1 /\ setting.throws = {}
  /\ DOMAIN scripts = {Shared}
  /\ scripts[Shared].kind = "periodic" /\ scripts[Shared].period >= 2

\* The call before this one failed.
JustFailed == states[Shared].count % scripts[Shared].period = 0

\* A turn fails once at most, and nothing comes between that and its retry.
FailsOnce(c) ==
  /\ pc[c] \in InTurn => Len(attempts[c]) <= 1
  /\ pc[c] \in {"select", "send"} /\ Len(attempts[c]) = 1 => JustFailed
  /\ pc[c] = "wait" /\ outcome[c] # "ok" => JustFailed /\ Len(attempts[c]) = 0

RetriesPass(c) ==
  \A i \in DOMAIN results[c] : results[c][i].tries >= 2 => results[c][i].status = 200

RetryInv ==
  TypesInv /\ (Solo => \A c \in setting.callers : FailsOnce(c) /\ RetriesPass(c))

LEMMA RetryInit == Init => RetryInv
  <1> SUFFICES ASSUME Init PROVE RetryInv
    OBVIOUS
  <1>1. TypesInv /\ setting.callers \subseteq Callers
    BY TypesInit, DemoAssumption DEF Init
  <1>2. ASSUME NEW c \in Callers PROVE FailsOnce(c) /\ RetriesPass(c)
    BY DEF Init, FailsOnce, RetriesPass, InTurn
  <1> QED BY <1>1, <1>2 DEF RetryInv

\* What a behaviour never changes.
LEMMA Fixed == [Next]_vars => UNCHANGED <<setting, scripts>>
  <1>1. ASSUME NEW c, Step(c)
        PROVE  UNCHANGED <<setting, scripts>>
    BY <1>1 DEF Step, List, Select, Exhausted, Send, Respond, FailAttempt, HookThrows,
      Record, Succeed, Catch, CatchThrows, world
  <1>2. ASSUME NEW c, NEW f, Refuse(c, f) \/ Submit(c, f)
        PROVE  UNCHANGED <<setting, scripts>>
    BY <1>2 DEF Refuse, Submit, world
  <1>3. ASSUME (\E k \in Keys : AddKey(k) \/ DeleteKey(k)) \/ Tick \/ UNCHANGED vars
        PROVE  UNCHANGED <<setting, scripts>>
    BY <1>3 DEF AddKey, DeleteKey, Tick, vars, world
  <1> QED BY <1>1, <1>2, <1>3 DEF Next

\* A turn that ends.
LEMMA TurnRetried ==
  ASSUME Typed, NEW c \in Callers, attempts' \in [Callers -> Seq(Tries)], EndTurn(c),
         RetriesPass(c),
         Len(attempts'[c]) >= 2 => Result(c, attempts'[c]).status = 200
  PROVE  RetriesPass(c)'
  <1> DEFINE r == Result(c, attempts'[c])
             s == results[c]
  <1>1. s \in Seq(Reports) /\ results'[c] = Append(s, r)
    BY TurnEnds DEF Typed
  <1>2. r.tries = Len(attempts'[c])
    BY DEF Result
  <1> HIDE DEF r
  <1>3. ASSUME NEW i \in DOMAIN Append(s, r), Append(s, r)[i].tries >= 2
        PROVE  Append(s, r)[i].status = 200
    <2>1. CASE i = Len(s) + 1
      <3>1. Append(s, r)[i] = r
        BY <1>1, <2>1
      <3> QED BY <1>2, <1>3, <3>1 DEF r
    <2>2. CASE i # Len(s) + 1
      <3>1. i \in DOMAIN s /\ Append(s, r)[i] = s[i]
        BY <1>1, <1>3, <2>2
      <3> QED BY <1>3, <3>1 DEF RetriesPass
    <2> QED BY <2>1, <2>2
  <1> QED BY <1>1, <1>3 DEF RetriesPass

LEMMA RetryStep ==
  ASSUME TypesInv, TypesInv', Solo, NEW c \in Callers, FailsOnce(c), RetriesPass(c),
         UNCHANGED <<setting, scripts>>, Step(c)
  PROVE  FailsOnce(c)' /\ RetriesPass(c)'
  <1>1. /\ Typed /\ Typed' /\ OtherTypes /\ OtherTypes'
        /\ attempts[c] \in Seq(Tries) /\ attempts'[c] \in Seq(Tries)
        /\ attempts' \in [Callers -> Seq(Tries)]
    BY DEF TypesInv, SessionInv, Typed
  <1>2. CASE List(c)
    <2>1. pc'[c] = "select" /\ attempts'[c] = <<>> /\ results' = results
      BY <1>1, <1>2 DEF List, Goto, Typed
    <2> QED BY <2>1 DEF FailsOnce, RetriesPass, InTurn
  <1>3. CASE Select(c)
    <2>1. /\ pc[c] = "select" /\ pc'[c] = "send" /\ attempts' = attempts
          /\ results' = results /\ states' = states
      BY <1>1, <1>3 DEF Select, Goto, Typed, world
    <2> QED BY <2>1 DEF FailsOnce, RetriesPass, InTurn, JustFailed
  <1>4. CASE Exhausted(c) \/ Respond(c) \/ Record(c)
    <2>1. /\ pc[c] \in {"select", "wait", "hook"} /\ pc'[c] \in {"catch", "hook", "judge"}
          /\ attempts' = attempts /\ results' = results
      BY <1>1, <1>4 DEF Exhausted, Respond, Record, Goto, Typed, call
    <2> QED BY <2>1 DEF FailsOnce, RetriesPass, InTurn
  <1>5. CASE Send(c)
    <2> DEFINE n == states[Shared].count
               p == scripts[Shared].period
    <2>1. Instance(chosen[c]) = Shared
      BY DEF Instance, Solo
    <2>2. /\ pc[c] = "send" /\ pc'[c] = "wait" /\ attempts' = attempts
          /\ results' = results
          /\ states' = [states EXCEPT ![Shared] = Advance(scripts[Shared], @, now)]
          /\ outcome'[c] \in Outcomes(scripts[Shared], states[Shared], now)
      BY <1>1, <1>5, <2>1 DEF Send, Goto, Typed, OtherTypes
    <2>3. /\ WellFormed(scripts[Shared]) /\ states[Shared] \in ScriptState
          /\ Shared \in DOMAIN scripts
      BY <1>1, ScriptsWell DEF OtherTypes, Typed, Solo
    <2>4. p \in Nat /\ p >= 2 /\ n \in Nat
      BY <2>3 DEF WellFormed, Solo, ScriptState
    <2>5. states'[Shared].count = n + 1
      <3>1. Advance(scripts[Shared], states[Shared], now).count = n + 1
        BY <2>3 DEF Solo, Advance, CountCall, ScriptState
      <3> QED BY <1>1, <2>2, <2>3, <3>1 DEF OtherTypes
    <2>6. outcome'[c] # "ok" => (n + 1) % p = 0
      BY <2>2 DEF Outcomes, Solo
    <2>7. n % p = 0 => (n + 1) % p # 0
      <3> HIDE DEF n, p
      <3>0. p >= 1
        BY <2>4
      <3>1. (n + 1) % p = IF (n % p) + 1 = p THEN 0 ELSE (n % p) + 1
        BY <2>4, <3>0, NextRemainder
      <3> QED BY <2>4, <3>1
    <2>8. outcome'[c] # "ok" => JustFailed'
      BY <2>5, <2>6 DEF JustFailed
    <2>9. outcome'[c] # "ok" => Len(attempts[c]) # 1
      <3> HIDE DEF n, p
      <3> QED BY <2>2, <2>6, <2>7 DEF FailsOnce, JustFailed, n, p
    <2>10. Len(attempts[c]) \in Nat /\ Len(attempts[c]) <= 1
      BY <1>1, <2>2 DEF FailsOnce, InTurn
    <2>11. outcome'[c] # "ok" => Len(attempts'[c]) = 0
      <3>1. attempts'[c] = attempts[c]
        BY <2>2
      <3>2. Len(attempts[c]) = 0 \/ Len(attempts[c]) = 1
        <4>1. \A m \in Nat : m <= 1 => m = 0 \/ m = 1
          OBVIOUS
        <4> QED BY <2>10, <4>1, Zenon
      <3> QED BY <2>9, <3>1, <3>2, Zenon
    <2>12. FailsOnce(c)'
      BY <2>2, <2>8, <2>10, <2>11 DEF FailsOnce
    <2> QED BY <2>2, <2>12 DEF RetriesPass
  <1>6. CASE FailAttempt(c)
    <2>1. PICK o \in Failures :
            /\ pc[c] = "wait" /\ outcome[c] = o
            /\ Attempt(c, o)
            /\ Goto(c, "select") \/ Goto(c, "catch")
            /\ UNCHANGED <<world, outcome, results>>
      BY <1>6 DEF FailAttempt, Fails, Solo
    <2>2. outcome[c] # "ok"
      BY <2>1 DEF Failures, Injected
    <2>3. Len(attempts'[c]) = Len(attempts[c]) + 1
      BY <1>1, <2>1, AttemptLength
    <2>4. pc'[c] \in {"select", "catch"} /\ JustFailed' /\ Len(attempts'[c]) = 1
          /\ results' = results
      BY <1>1, <2>1, <2>2, <2>3 DEF Goto, Typed, FailsOnce, JustFailed, world
    <2> QED BY <2>4 DEF FailsOnce, RetriesPass, InTurn
  <1>7. CASE Succeed(c)
    <2> DEFINE e == [key |-> chosen[c], outcome |-> "ok"]
    <2>1. EndTurn(c) /\ attempts'[c] = Append(attempts[c], e)
      BY <1>1, <1>7 DEF Succeed, Attempt, Typed
    <2>2. Len(attempts'[c]) # 0 /\ attempts'[c][Len(attempts'[c])].outcome = "ok"
      BY <1>1, <2>1
    <2>3. Result(c, attempts'[c]).status = 200
      BY <1>7, <2>2 DEF Succeed, Result, StatusOf
    <2>4. RetriesPass(c)' /\ pc'[c] \in {"list", "done"}
      BY <1>1, <2>1, <2>3, TurnRetried, TurnEnds
    <2> QED BY <2>4 DEF FailsOnce, InTurn
  <1>8. CASE Catch(c)
    <2>1. EndTurn(c) /\ attempts' = attempts /\ pc[c] \in InTurn
      BY <1>8 DEF Catch, InTurn
    <2>2. ~ (Len(attempts'[c]) >= 2)
      BY <1>1, <2>1 DEF FailsOnce
    <2>3. RetriesPass(c)' /\ pc'[c] \in {"list", "done"}
      BY <1>1, <2>1, <2>2, TurnRetried, TurnEnds
    <2> QED BY <2>3 DEF FailsOnce, InTurn
  <1>9. CASE HookThrows(c) \/ CatchThrows(c)
    BY <1>9 DEF HookThrows, CatchThrows, Solo
  <1> QED BY <1>2, <1>3, <1>4, <1>5, <1>6, <1>7, <1>8, <1>9 DEF Step

LEMMA RetryNext == RetryInv /\ [Next]_vars => RetryInv'
  <1> SUFFICES ASSUME RetryInv, [Next]_vars PROVE RetryInv'
    OBVIOUS
  <1>1. TypesInv /\ TypesInv' /\ Typed /\ UNCHANGED <<setting, scripts>>
    BY TypesNext, Fixed DEF RetryInv, TypesInv, SessionInv
  <1> SUFFICES ASSUME Solo
               PROVE  \A c \in setting.callers : FailsOnce(c)' /\ RetriesPass(c)'
    BY <1>1 DEF RetryInv, Solo
  <1>2. PICK c \in Callers : setting.callers = {c}
    <2>1. Cardinality(setting.callers) = 1 /\ setting.callers \subseteq Callers
      BY <1>1, DemoAssumption DEF Solo, Typed
    <2>2. IsFiniteSet(setting.callers)
      BY <2>1, DemoAssumption, FS_Subset
    <2> QED BY <2>1, <2>2, FS_Singleton
  <1>3. FailsOnce(c) /\ RetriesPass(c)
    BY <1>2 DEF RetryInv
  <1>4. CASE Step(c)
    BY <1>1, <1>2, <1>3, <1>4, RetryStep
  <1>5. ASSUME NEW f, Refuse(c, f) \/ Submit(c, f)
        PROVE  FailsOnce(c)' /\ RetriesPass(c)'
    <2>1. pc'[c] \in {"list", "done"} /\ results' = results
      BY <1>1, <1>5 DEF Refuse, Submit, Goto, Typed
    <2> QED BY <1>3, <2>1 DEF FailsOnce, RetriesPass, InTurn
  <1>6. ASSUME (\E k \in Keys : AddKey(k) \/ DeleteKey(k)) \/ Tick \/ UNCHANGED vars
        PROVE  FailsOnce(c)' /\ RetriesPass(c)'
    <2>1. UNCHANGED <<pc, attempts, outcome, results, states, scripts>>
      BY <1>1, <1>6 DEF AddKey, DeleteKey, Tick, vars, call, world
    <2> QED BY <1>3, <2>1 DEF FailsOnce, RetriesPass, JustFailed
  <1> QED BY <1>1, <1>2, <1>4, <1>5, <1>6, StepCases

(* fake-script.ts: with one caller, on keys that share a periodic script of *)
(* period two or more, the attempt after a failure succeeds.                *)
THEOREM RetryPasses == Spec => []RetryPassesPeriodic
  <1>1. RetryInv => RetryPassesPeriodic
    BY DEF RetryInv, Solo, RetriesPass, RetryPassesPeriodic, ResultsOf
  <1> QED BY <1>1, RetryInit, RetryNext, PTL DEF Spec

-----------------------------------------------------------------------------
(* The burst limiter                                                        *)

\* The calls let through from a until before b, and from a on.
During(ts, a, b) == {n \in DOMAIN ts : a <= ts[n] /\ ts[n] < b}
Since(ts, a)     == {n \in DOMAIN ts : a <= ts[n]}

\* One less than allowed, and twice that many and one more.
Before(a) == IF a = 0 THEN 0 ELSE a - 1
Most(a)   == IF a = 0 THEN 0 ELSE 2 * a - 1

\* No call before the window under way came later than it began; from its
\* beginning on at most the allowance was let through, and within the length
\* of a window before it one less, as the window that ended there began with
\* a call that was let through.
InWindow(x, s, ts, t) ==
  /\ s.start \in 0 .. t
  /\ \A n \in DOMAIN ts : ts[n] < s.start + x.window
  /\ x.allowed # 0 => \E n \in DOMAIN ts : ts[n] = s.start
  /\ Cardinality(Since(ts, s.start)) <= s.count
  /\ Cardinality(Since(ts, s.start)) <= x.allowed
  /\ \A u \in Nat : s.start < u + x.window =>
       Cardinality(During(ts, u, s.start)) <= Before(x.allowed)

Limited(x, s, ts, t) ==
  /\ ts \in Seq(Nat)
  /\ s.start = NotStarted => ts = <<>>
  /\ s.start # NotStarted => InWindow(x, s, ts, t)
  /\ \A u \in Nat : Cardinality(During(ts, u, u + x.window)) <= Most(x.allowed)

LEMMA Subsets ==
  ASSUME NEW ts \in Seq(Nat), NEW a \in Int, NEW b \in Int
  PROVE  /\ IsFiniteSet(During(ts, a, b)) /\ Cardinality(During(ts, a, b)) \in Nat
         /\ IsFiniteSet(Since(ts, a)) /\ Cardinality(Since(ts, a)) \in Nat
  <1>1. IsFiniteSet(DOMAIN ts)
    <2>1. DOMAIN ts = 1 .. Len(ts) /\ Len(ts) \in Nat
      OBVIOUS
    <2>2. IsFiniteSet(1 .. Len(ts))
      BY <2>1, FS_Interval
    <2> QED BY <2>1, <2>2
  <1>2. During(ts, a, b) \in SUBSET DOMAIN ts /\ Since(ts, a) \in SUBSET DOMAIN ts
    BY DEF During, Since
  <1> QED BY <1>1, <1>2, FS_Subset, FS_CardinalityType

\* A call that is let through at t.
LEMMA LetThrough ==
  ASSUME NEW ts \in Seq(Nat), NEW t \in Nat, NEW a \in Int
  PROVE  LET us == Append(ts, t)
         IN  /\ us \in Seq(Nat)
             /\ Len(ts) + 1 \in DOMAIN us /\ us[Len(ts) + 1] = t
             /\ \A n \in DOMAIN us : us[n] = t \/ \E m \in DOMAIN ts : us[n] = ts[m]
             /\ \A n \in DOMAIN ts : n \in DOMAIN us /\ us[n] = ts[n]
             /\ Since(us, a) \subseteq Since(ts, a) \cup {Len(ts) + 1}
  <1> DEFINE us == Append(ts, t)
             k == Len(ts) + 1
  <1>1. /\ us \in Seq(Nat) /\ DOMAIN us = 1 .. k /\ DOMAIN ts = 1 .. k - 1
        /\ k \in Nat \ {0} /\ us[k] = t /\ \A n \in 1 .. k - 1 : us[n] = ts[n]
    OBVIOUS
  <1> HIDE DEF us, k
  <1>2. /\ k \in DOMAIN us
        /\ \A n \in DOMAIN us : us[n] = t \/ \E m \in DOMAIN ts : us[n] = ts[m]
        /\ \A n \in DOMAIN ts : n \in DOMAIN us /\ us[n] = ts[n]
    BY <1>1
  <1>4. Since(us, a) \subseteq Since(ts, a) \cup {k}
    BY <1>1 DEF Since
  <1> QED BY <1>1, <1>2, <1>4 DEF us, k

LEMMA LetThroughOutside ==
  ASSUME NEW ts \in Seq(Nat), NEW t \in Nat, NEW a \in Int, NEW b \in Int,
         ~ (a <= t /\ t < b)
  PROVE  During(Append(ts, t), a, b) = During(ts, a, b)
  <1> DEFINE us == Append(ts, t)
             k == Len(ts) + 1
  <1>1. /\ DOMAIN us = 1 .. k /\ DOMAIN ts = 1 .. k - 1
        /\ k \in Nat \ {0} /\ us[k] = t /\ \A n \in 1 .. k - 1 : us[n] = ts[n]
    OBVIOUS
  <1> HIDE DEF us, k
  <1>2. During(us, a, b) = During(ts, a, b)
    BY <1>1 DEF During
  <1> QED BY <1>2 DEF us

LEMMA OneMore ==
  ASSUME NEW S, IsFiniteSet(S), NEW T, NEW k, T \subseteq S \cup {k}
  PROVE  Cardinality(T) <= Cardinality(S) + 1
  <1>1. /\ IsFiniteSet(S \cup {k}) /\ Cardinality(S) \in Nat
        /\ Cardinality(S \cup {k}) <= Cardinality(S) + 1
    BY FS_AddElement, FS_CardinalityType
  <1>2. Cardinality(T) <= Cardinality(S \cup {k}) /\ IsFiniteSet(T)
    BY <1>1, FS_Subset
  <1>3. Cardinality(T) \in Nat /\ Cardinality(S \cup {k}) \in Nat
    BY <1>1, <1>2, FS_CardinalityType
  <1> QED BY <1>1, <1>2, <1>3

\* Over the length of a window that reaches into the one under way.
LEMMA Overlapping ==
  ASSUME NEW ts \in Seq(Nat), NEW u \in Nat, NEW start \in Nat, NEW v \in Nat,
         NEW a \in Nat \ {0},
         Cardinality(Since(ts, start)) <= a,
         Cardinality(During(ts, u, start)) <= Before(a)
  PROVE  Cardinality(During(ts, u, v)) <= Most(a)
  <1> DEFINE S == During(ts, u, start)
             T == Since(ts, start)
             R == During(ts, u, v)
  <1>1. R \subseteq S \cup T
    BY DEF During, Since
  <1>2. /\ IsFiniteSet(S) /\ IsFiniteSet(T) /\ IsFiniteSet(R)
        /\ Cardinality(S) \in Nat /\ Cardinality(T) \in Nat /\ Cardinality(R) \in Nat
    <2>1. u \in Int /\ start \in Int /\ v \in Int
      OBVIOUS
    <2> QED BY <2>1, Subsets, Zenon
  <1>3. Cardinality(S) <= a - 1 /\ Cardinality(T) <= a
    BY DEF Before
  <1> HIDE DEF S, T, R
  <1>4. /\ IsFiniteSet(S \cup T)
        /\ Cardinality(S \cup T) = Cardinality(S) + Cardinality(T) - Cardinality(S \cap T)
    BY <1>2, FS_Union
  <1>5. Cardinality(S \cap T) \in Nat
    <2>1. IsFiniteSet(S \cap T)
      <3>1. S \cap T \in SUBSET S
        OBVIOUS
      <3> QED BY <1>2, <3>1, FS_Subset
    <2> QED BY <2>1, FS_CardinalityType
  <1>6. Cardinality(R) <= Cardinality(S \cup T)
    BY <1>1, <1>4, FS_Subset
  <1>7. Cardinality(R) <= 2 * a - 1
    BY <1>2, <1>3, <1>4, <1>5, <1>6
  <1> QED BY <1>7 DEF Most, R

LEMMA BurstCall ==
  ASSUME NEW x, x.kind = "burst", WellFormed(x), NEW s \in ScriptState,
         NEW t \in Nat, NEW o \in Outcomes(x, s, t)
  PROVE  /\ x.window \in Nat \ {0} /\ x.allowed \in Nat
         /\ Advance(x, s, t) = CountInWindow(x, s, t)
         /\ o = "ok" <=> ~ (CountInWindow(x, s, t).count > x.allowed)
  BY DEF WellFormed, Advance, Outcomes, Injected

\* Within the window.
LEMMA CountedOn ==
  ASSUME NEW x, x.window \in Nat \ {0}, x.allowed \in Nat,
         NEW s \in ScriptState, NEW t \in Nat, NEW ts, Limited(x, s, ts, t),
         s.start # NotStarted, ~ (t - s.start >= x.window),
         NEW o, o = "ok" <=> ~ (s.count + 1 > x.allowed)
  PROVE  Limited(x, [s EXCEPT !.count = @ + 1], IF o = "ok" THEN Append(ts, t) ELSE ts, t)
  <1> DEFINE r == [s EXCEPT !.count = @ + 1]
             b == s.start
             w == x.window
             a == x.allowed
             us == Append(ts, t)
             k == Len(ts) + 1
  <1>1. r.count = s.count + 1 /\ r.start = b /\ s.count \in Nat
    BY DEF ScriptState
  <1>2. /\ ts \in Seq(Nat) /\ InWindow(x, s, ts, t) /\ b \in 0 .. t
        /\ \A u \in Nat : Cardinality(During(ts, u, u + w)) <= Most(a)
    BY DEF Limited, InWindow
  <1>3. Cardinality(Since(ts, b)) \in Nat
    <2>1. b \in Int
      BY <1>2
    <2> QED BY <1>2, <2>1, Subsets, Zenon
  <1>4. CASE o # "ok"
    <2>1. InWindow(x, r, ts, t)
      BY <1>1, <1>2, <1>3 DEF InWindow
    <2> QED BY <1>1, <1>2, <1>4, <2>1 DEF Limited
  <1>5. CASE o = "ok"
    <2>1. s.count + 1 <= a /\ a # 0
      BY <1>1, <1>5
    <2>2. /\ us \in Seq(Nat)
          /\ \A n \in DOMAIN us : us[n] = t \/ \E m \in DOMAIN ts : us[n] = ts[m]
          /\ \A n \in DOMAIN ts : n \in DOMAIN us /\ us[n] = ts[n]
      <3>1. 0 \in Int
        OBVIOUS
      <3> QED BY <1>2, <3>1, LetThrough, ZenonT(30)
    <2>3. ASSUME NEW u \in Int, NEW v \in Int, ~ (u <= t /\ t < v)
          PROVE  During(us, u, v) = During(ts, u, v)
      BY <1>2, <2>3, LetThroughOutside
    <2>4. Since(us, b) \subseteq Since(ts, b) \cup {k}
      <3>1. b \in Int
        BY <1>2
      <3> QED BY <1>2, <3>1, LetThrough, Zenon
    <2> HIDE DEF us, k
    <2>5. Cardinality(Since(us, b)) <= Cardinality(Since(ts, b)) + 1
          /\ Cardinality(Since(us, b)) \in Nat
      <3>1. b \in Int
        BY <1>2
      <3>2. IsFiniteSet(Since(ts, b)) /\ Cardinality(Since(us, b)) \in Nat
        BY <1>2, <2>2, <3>1, Subsets, Zenon
      <3> QED BY <2>4, <3>2, OneMore
    <2>6. InWindow(x, r, us, t)
      <3>1. \A n \in DOMAIN us : us[n] < b + w
        <4>1. t < b + w /\ \A n \in DOMAIN ts : ts[n] < b + w
          BY <1>2, SMTT(30) DEF InWindow
        <4> QED BY <2>2, <4>1
      <3>2. \E n \in DOMAIN us : us[n] = b
        BY <1>2, <2>1, <2>2 DEF InWindow
      <3>3. /\ Cardinality(Since(us, b)) <= s.count + 1
            /\ Cardinality(Since(us, b)) <= a
        <4>1. Cardinality(Since(ts, b)) <= s.count
          BY <1>2 DEF InWindow
        <4> QED BY <1>1, <1>3, <2>1, <2>5, <4>1
      <3>4. ASSUME NEW u \in Nat, b < u + w
            PROVE  Cardinality(During(us, u, b)) <= Before(a)
        <4>1. During(us, u, b) = During(ts, u, b)
          BY <1>2, <2>3
        <4> QED BY <1>2, <3>4, <4>1 DEF InWindow
      <3> HIDE DEF r
      <3> QED BY <1>1, <1>2, <3>1, <3>2, <3>3, <3>4 DEF InWindow
    <2>7. ASSUME NEW u \in Nat
          PROVE  Cardinality(During(us, u, u + w)) <= Most(a)
      <3>1. PICK v \in Nat : v = u + w
        OBVIOUS
      <3>2. CASE u <= t /\ t < v
        <4>1. b \in Nat /\ b <= t
          BY <1>2
        <4>0. b < u + w
          <5> HIDE DEF b, w
          <5> QED BY <3>1, <3>2, <4>1
        <4>2. Cardinality(During(us, u, b)) <= Before(a) /\ Cardinality(Since(us, b)) <= a
          BY <1>1, <2>6, <4>0 DEF InWindow
        <4>3. Cardinality(During(us, u, v)) <= Most(a)
          BY <2>1, <2>2, <4>1, <4>2, Overlapping
        <4> QED BY <3>1, <4>3
      <3>3. CASE ~ (u <= t /\ t < v)
        <4>1. During(us, u, v) = During(ts, u, v)
          BY <2>3, <3>3
        <4> QED BY <1>2, <3>1, <4>1
      <3> QED BY <3>2, <3>3
    <2>8. Limited(x, r, us, t)
      <3> HIDE DEF r
      <3> QED BY <1>1, <2>2, <2>6, <2>7 DEF Limited
    <2> QED BY <1>5, <2>8 DEF us
  <1> QED BY <1>4, <1>5

\* What was let through before a window that begins at t.
LEMMA WindowBefore ==
  ASSUME NEW x, x.window \in Nat \ {0}, x.allowed \in Nat,
         NEW s \in ScriptState, NEW t \in Nat, NEW ts, Limited(x, s, ts, t),
         s.start = NotStarted \/ t - s.start >= x.window
  PROVE  /\ Since(ts, t) = {}
         /\ \A u \in Nat : t < u + x.window =>
              Cardinality(During(ts, u, t)) <= Before(x.allowed)
  <1> DEFINE b == s.start
             w == x.window
             a == x.allowed
  <1>1. ts \in Seq(Nat)
    BY DEF Limited
  <1>2. CASE b = NotStarted
    <2>1. DOMAIN ts = {}
      BY <1>2 DEF Limited
    <2>2. Since(ts, t) = {} /\ \A u \in Nat : During(ts, u, t) = {}
      BY <2>1 DEF During, Since
    <2>3. Cardinality({}) = 0 /\ 0 <= Before(a)
      BY FS_EmptySet DEF Before
    <2> QED BY <2>2, <2>3
  <1>3. CASE b # NotStarted
    <2>1. /\ InWindow(x, s, ts, t) /\ b \in Nat /\ w \in Nat /\ b + w <= t
          /\ Cardinality(Since(ts, b)) <= a
      BY <1>3 DEF Limited, InWindow
    <2>2. Since(ts, t) = {}
      <3>1. \A n \in DOMAIN ts : ts[n] < b + w /\ ts[n] \in Nat
        BY <1>1, <2>1 DEF InWindow
      <3> HIDE DEF b, w
      <3> QED BY <2>1, <3>1 DEF Since
    <2>3. ASSUME NEW u \in Nat, t < u + w
          PROVE  Cardinality(During(ts, u, t)) <= Before(a)
      <3>0. b < u
        <4> HIDE DEF b, w
        <4> QED BY <2>1, <2>3
      <3>1. During(ts, u, t) \subseteq Since(ts, b)
        <4>1. \A n \in DOMAIN ts : ts[n] \in Nat
          BY <1>1
        <4> HIDE DEF b
        <4> QED BY <2>1, <3>0, <4>1 DEF During, Since
      <3>2. /\ IsFiniteSet(Since(ts, b)) /\ Cardinality(Since(ts, b)) \in Nat
            /\ Cardinality(During(ts, u, t)) \in Nat
        <4>1. b \in Int /\ u \in Int /\ t \in Int
          BY <2>1
        <4> QED BY <1>1, <4>1, Subsets, Zenon
      <3>3. CASE a = 0
        <4>1. Cardinality(During(ts, u, t)) <= Cardinality(Since(ts, b))
          BY <3>1, <3>2, FS_Subset
        <4> QED BY <2>1, <3>2, <3>3, <4>1 DEF Before
      <3>4. CASE a # 0
        <4>1. PICK n \in DOMAIN ts : ts[n] = b
          BY <2>1, <3>4 DEF InWindow
        <4>2. n \in Since(ts, b) /\ n \notin During(ts, u, t)
          BY <2>1, <3>0, <4>1 DEF Since, During
        <4>3. /\ IsFiniteSet(Since(ts, b) \ {n})
              /\ Cardinality(Since(ts, b) \ {n}) = Cardinality(Since(ts, b)) - 1
          BY <3>2, <4>2, FS_RemoveElement
        <4>4. During(ts, u, t) \in SUBSET (Since(ts, b) \ {n})
          BY <3>1, <4>2
        <4>5. Cardinality(During(ts, u, t)) <= Cardinality(Since(ts, b) \ {n})
          BY <4>3, <4>4, FS_Subset
        <4> HIDE DEF a, b
        <4>6. a \in Nat
          BY DEF a
        <4> QED BY <2>1, <3>2, <3>4, <4>3, <4>5, <4>6 DEF Before
      <3> QED BY <3>3, <3>4
    <2> QED BY <2>2, <2>3
  <1> QED BY <1>2, <1>3

LEMMA BeginsAgain ==
  ASSUME NEW x, x.window \in Nat \ {0}, x.allowed \in Nat,
         NEW s \in ScriptState, NEW t \in Nat, NEW ts, Limited(x, s, ts, t),
         s.start = NotStarted \/ t - s.start >= x.window,
         NEW o, o = "ok" <=> ~ (1 > x.allowed)
  PROVE  Limited(x, [count |-> 1, start |-> t], IF o = "ok" THEN Append(ts, t) ELSE ts, t)
  <1> DEFINE r == [count |-> 1, start |-> t]
             w == x.window
             a == x.allowed
             us == Append(ts, t)
             k == Len(ts) + 1
  <1>1. r.count = 1 /\ r.start = t /\ t # NotStarted
    BY DEF NotStarted
  <1>2. /\ ts \in Seq(Nat)
        /\ \A u \in Nat : Cardinality(During(ts, u, u + w)) <= Most(a)
    BY DEF Limited
  <1>3. /\ Since(ts, t) = {}
        /\ \A u \in Nat : t < u + w => Cardinality(During(ts, u, t)) <= Before(a)
    BY WindowBefore
  <1>4. \A n \in DOMAIN ts : ts[n] < t
    BY <1>2, <1>3 DEF Since
  <1>5. IsFiniteSet({}) /\ Cardinality({}) = 0
    BY FS_EmptySet
  <1>6. CASE o # "ok"
    <2>1. a = 0
      BY <1>6
    <2>2. \A n \in DOMAIN ts : ts[n] < t + w
      BY <1>2, <1>4, SMTT(20)
    <2>3. InWindow(x, r, ts, t)
      <3> HIDE DEF r
      <3> QED BY <1>1, <1>3, <1>5, <2>1, <2>2 DEF InWindow
    <2> HIDE DEF r
    <2>4. Limited(x, r, ts, t)
      BY <1>1, <1>2, <2>3 DEF Limited
    <2> QED BY <1>6, <2>4 DEF r
  <1>7. CASE o = "ok"
    <2>1. a # 0 /\ a >= 1
      BY <1>7
    <2>2. /\ us \in Seq(Nat) /\ k \in DOMAIN us /\ us[k] = t
          /\ \A n \in DOMAIN us : us[n] = t \/ \E m \in DOMAIN ts : us[n] = ts[m]
          /\ Since(us, t) \subseteq Since(ts, t) \cup {k}
      <3>1. t \in Int
        OBVIOUS
      <3> QED BY <1>2, <3>1, LetThrough, Zenon
    <2>3. ASSUME NEW u \in Int, NEW v \in Int, ~ (u <= t /\ t < v)
          PROVE  During(us, u, v) = During(ts, u, v)
      BY <1>2, <2>3, LetThroughOutside
    <2> HIDE DEF us, k
    <2>4. Cardinality(Since(us, t)) <= 1
      <3>1. Cardinality(Since(us, t)) <= Cardinality({}) + 1
        BY <1>3, <1>5, <2>2, OneMore
      <3> QED BY <1>5, <3>1
    <2>5. Cardinality(Since(us, t)) \in Nat
      <3>1. t \in Int
        OBVIOUS
      <3> QED BY <2>2, <3>1, Subsets, Zenon
    <2>6. InWindow(x, r, us, t)
      <3>1. \A n \in DOMAIN us : us[n] < t + w
        <4>1. t < t + w
          OBVIOUS
        <4>2. \A n \in DOMAIN ts : ts[n] < t + w
          BY <1>2, <1>4, SMTT(20)
        <4> QED BY <2>2, <4>1, <4>2, Zenon
      <3>2. Cardinality(Since(us, t)) <= a
        BY <2>1, <2>4, <2>5
      <3>3. ASSUME NEW u \in Nat, t < u + w
            PROVE  Cardinality(During(us, u, t)) <= Before(a)
        <4>1. During(us, u, t) = During(ts, u, t)
          BY <2>3
        <4> QED BY <1>3, <3>3, <4>1
      <3> HIDE DEF r
      <3> QED BY <1>1, <2>2, <2>4, <3>1, <3>2, <3>3 DEF InWindow
    <2>7. ASSUME NEW u \in Nat
          PROVE  Cardinality(During(us, u, u + w)) <= Most(a)
      <3>1. PICK v \in Nat : v = u + w
        OBVIOUS
      <3>2. CASE u <= t /\ t < v
        <4>1. t < u + w
          BY <3>1, <3>2
        <4>2. Cardinality(During(us, u, t)) <= Before(a) /\ Cardinality(Since(us, t)) <= a
          BY <1>1, <2>6, <4>1 DEF InWindow
        <4>3. Cardinality(During(us, u, v)) <= Most(a)
          BY <2>1, <2>2, <4>2, Overlapping
        <4> QED BY <3>1, <4>3
      <3>3. CASE ~ (u <= t /\ t < v)
        <4>1. During(us, u, v) = During(ts, u, v)
          BY <2>3, <3>3
        <4> QED BY <1>2, <3>1, <4>1
      <3> QED BY <3>2, <3>3
    <2>8. Limited(x, r, us, t)
      <3> HIDE DEF r
      <3> QED BY <1>1, <2>2, <2>6, <2>7 DEF Limited
    <2> QED BY <1>7, <2>8 DEF us
  <1> QED BY <1>6, <1>7

LEMMA LimitedCall ==
  ASSUME NEW x, x.kind = "burst", WellFormed(x), NEW s \in ScriptState,
         NEW ts, NEW t \in Nat, Limited(x, s, ts, t), NEW o \in Outcomes(x, s, t)
  PROVE  Limited(x, Advance(x, s, t), IF o = "ok" THEN Append(ts, t) ELSE ts, t)
  <1>1. /\ x.window \in Nat \ {0} /\ x.allowed \in Nat
        /\ Advance(x, s, t) = CountInWindow(x, s, t)
        /\ o = "ok" <=> ~ (CountInWindow(x, s, t).count > x.allowed)
    BY BurstCall
  <1>2. CASE s.start = NotStarted \/ t - s.start >= x.window
    <2>1. CountInWindow(x, s, t) = [count |-> 1, start |-> t]
      BY <1>2 DEF CountInWindow
    <2>2. o = "ok" <=> ~ (1 > x.allowed)
      BY <1>1, <2>1
    <2>3. Limited(x, [count |-> 1, start |-> t], IF o = "ok" THEN Append(ts, t) ELSE ts, t)
      BY <1>1, <1>2, <2>2, BeginsAgain
    <2> QED BY <1>1, <2>1, <2>3, Zenon
  <1>3. CASE ~ (s.start = NotStarted \/ t - s.start >= x.window)
    <2>1. CountInWindow(x, s, t) = [s EXCEPT !.count = @ + 1]
      BY <1>3 DEF CountInWindow
    <2>2. o = "ok" <=> ~ (s.count + 1 > x.allowed)
      BY <1>1, <2>1 DEF ScriptState
    <2>3. Limited(x, [s EXCEPT !.count = @ + 1], IF o = "ok" THEN Append(ts, t) ELSE ts, t)
      BY <1>1, <1>3, <2>2, CountedOn
    <2> QED BY <1>1, <2>1, <2>3, Zenon
  <1> QED BY <1>2, <1>3

BurstInv ==
  /\ TypesInv
  /\ DOMAIN passed = DOMAIN scripts
  /\ \A i \in DOMAIN scripts :
       scripts[i].kind = "burst" => Limited(scripts[i], states[i], passed[i], now)

LEMMA BurstInit == Init => BurstInv
  <1> SUFFICES ASSUME Init PROVE BurstInv
    OBVIOUS
  <1>1. TypesInv /\ DOMAIN passed = DOMAIN scripts
    BY TypesInit DEF Init
  <1>2. ASSUME NEW i \in DOMAIN scripts, scripts[i].kind = "burst"
        PROVE  Limited(scripts[i], states[i], passed[i], now)
    <2>1. /\ WellFormed(scripts[i]) /\ passed[i] = <<>>
          /\ states[i].start = NotStarted
      <3>1. setting \in Settings /\ Starts(setting) /\ scripts = Scripts(setting)
        BY DEF Init
      <3>2. states[i] = FreshState /\ passed[i] = <<>>
        BY DEF Init
      <3> QED BY <3>1, <3>2, ScriptsWell DEF FreshState
    <2>2. 0 <= Most(scripts[i].allowed)
      <3>1. scripts[i].allowed \in Nat
        BY <1>2, <2>1 DEF WellFormed
      <3> QED BY <3>1 DEF Most
    <2>3. \A u \in Nat : During(<<>>, u, u + scripts[i].window) = {}
      BY DEF During
    <2>4. Cardinality({}) = 0
      BY FS_EmptySet
    <2>5. <<>> \in Seq(Nat)
      OBVIOUS
    <2> QED BY <2>1, <2>2, <2>3, <2>4, <2>5 DEF Limited
  <1> QED BY <1>1, <1>2 DEF BurstInv

LEMMA LimitedLater ==
  ASSUME NEW x, NEW s, NEW ts, NEW t \in Nat, Limited(x, s, ts, t), NEW u \in Nat, t <= u
  PROVE  Limited(x, s, ts, u)
  BY DEF Limited, InWindow

LEMMA BurstNext == BurstInv /\ [Next]_vars => BurstInv'
  <1> SUFFICES ASSUME BurstInv, [Next]_vars PROVE BurstInv'
    OBVIOUS
  <1>1. /\ TypesInv /\ TypesInv' /\ Typed /\ OtherTypes
        /\ UNCHANGED <<setting, scripts>>
    BY TypesNext, Fixed DEF BurstInv, TypesInv, SessionInv
  <1>2. ASSUME UNCHANGED <<states, passed>>, now' \in Nat, now <= now'
        PROVE  BurstInv'
    <2>1. \A i \in DOMAIN scripts : scripts[i].kind = "burst" =>
            Limited(scripts[i], states[i], passed[i], now')
      BY <1>1, <1>2, LimitedLater DEF BurstInv, OtherTypes
    <2> QED BY <1>1, <1>2, <2>1 DEF BurstInv
  <1>3. ASSUME NEW c \in Callers, Send(c)
        PROVE  BurstInv'
    <2> DEFINE i == Instance(chosen[c])
    <2>1. i \in DOMAIN scripts
      BY <1>1 DEF Instance, OtherTypes, Scripts
    <2>2. WellFormed(scripts[i]) /\ states[i] \in ScriptState /\ now \in Nat
      BY <1>1, <2>1, ScriptsWell DEF OtherTypes, Typed
    <2>3. PICK o \in Outcomes(scripts[i], states[i], now) :
            passed' = IF o = "ok" THEN [passed EXCEPT ![i] = Append(@, now)] ELSE passed
      BY <1>3 DEF Send
    <2>4. states' = [states EXCEPT ![i] = Advance(scripts[i], @, now)] /\ now' = now
      BY <1>3 DEF Send
    <2> HIDE DEF i
    <2>5. /\ DOMAIN passed = DOMAIN scripts /\ DOMAIN states = DOMAIN scripts
          /\ DOMAIN passed' = DOMAIN scripts
      BY <1>1, <2>3 DEF BurstInv, OtherTypes
    <2>6. /\ states'[i] = Advance(scripts[i], states[i], now)
          /\ passed'[i] = IF o = "ok" THEN Append(passed[i], now) ELSE passed[i]
          /\ \A j \in DOMAIN scripts \ {i} : states'[j] = states[j] /\ passed'[j] = passed[j]
      BY <2>1, <2>3, <2>4, <2>5
    <2>7. ASSUME NEW j \in DOMAIN scripts, scripts[j].kind = "burst"
          PROVE  Limited(scripts[j], states'[j], passed'[j], now)
      <3>1. Limited(scripts[j], states[j], passed[j], now)
        BY <2>7 DEF BurstInv
      <3>2. CASE j = i
        <4>1. Limited(scripts[i], Advance(scripts[i], states[i], now),
                      IF o = "ok" THEN Append(passed[i], now) ELSE passed[i], now)
          BY <2>2, <2>7, <3>1, <3>2, LimitedCall
        <4> QED BY <2>6, <3>2, <4>1
      <3>3. CASE j # i
        BY <2>6, <3>1, <3>3
      <3> QED BY <3>2, <3>3
    <2> QED BY <1>1, <2>4, <2>5, <2>7 DEF BurstInv
  <1>4. ASSUME NEW c \in Callers, Step(c), ~Send(c)
        PROVE  BurstInv'
    <2>1. UNCHANGED <<states, passed, now>>
      BY <1>4 DEF Step, List, Select, Exhausted, Respond, FailAttempt, HookThrows,
        Record, Succeed, Catch, CatchThrows, world
    <2> QED BY <1>1, <1>2, <2>1 DEF OtherTypes
  <1>5. ASSUME NEW c, NEW f, Refuse(c, f) \/ Submit(c, f)
        PROVE  BurstInv'
    <2>1. UNCHANGED <<states, passed, now>>
      BY <1>5 DEF Refuse, Submit, world
    <2> QED BY <1>1, <1>2, <2>1 DEF OtherTypes
  <1>6. ASSUME (\E k \in Keys : AddKey(k) \/ DeleteKey(k)) \/ Tick \/ UNCHANGED vars
        PROVE  BurstInv'
    <2>1. UNCHANGED <<states, passed>> /\ (now' = now \/ now' = now + 1)
      BY <1>6 DEF AddKey, DeleteKey, Tick, vars, world
    <2> QED BY <1>1, <1>2, <2>1 DEF OtherTypes
  <1> QED BY <1>1, <1>3, <1>4, <1>5, <1>6, StepCases

LEMMA MaxWithZero ==
  ASSUME NEW m \in Int
  PROVE  /\ Max({0, m}) \in Int /\ m <= Max({0, m}) /\ 0 <= Max({0, m})
  <1>1. \E x \in {0, m} : \A y \in {0, m} : x >= y
    OBVIOUS
  <1>2. Max({0, m}) \in {0, m} /\ \A y \in {0, m} : Max({0, m}) >= y
    BY <1>1, Zenon DEF Max
  <1> QED BY <1>2

(* fake-script.ts, burst: over any stretch of the length of a window a      *)
(* limiter lets through less than twice its allowance, over all the keys    *)
(* that share it.                                                           *)
THEOREM BurstsBounded == Spec => []BurstBounded
  <1>1. BurstInv => BurstBounded
    <2> SUFFICES ASSUME BurstInv, NEW i \in DOMAIN scripts, scripts[i].kind = "burst",
                        NEW t \in 0 .. now
                 PROVE  Cardinality({n \in DOMAIN passed[i] :
                           t <= passed[i][n] /\ passed[i][n] < t + scripts[i].window})
                          <= Max({0, 2 * scripts[i].allowed - 1})
      BY DEF BurstBounded
    <2> DEFINE w == scripts[i].window
               a == scripts[i].allowed
    <2>1. OtherTypes /\ Typed /\ Limited(scripts[i], states[i], passed[i], now)
      BY DEF BurstInv, TypesInv, SessionInv
    <2>2. w \in Nat /\ a \in Nat
      <3>1. WellFormed(scripts[i])
        BY <2>1, ScriptsWell DEF OtherTypes, Typed
      <3> QED BY <3>1 DEF WellFormed
    <2>3. t \in Nat
      BY <2>1 DEF OtherTypes
    <2>4. Cardinality(During(passed[i], t, t + w)) <= Most(a)
      BY <2>1, <2>3 DEF Limited
    <2>5. Cardinality(During(passed[i], t, t + w)) \in Nat
      <3>1. PICK v \in Int : v = t + w
        BY <2>2, <2>3
      <3>2. passed[i] \in Seq(Nat) /\ t \in Int
        BY <2>1, <2>3 DEF Limited
      <3>3. Cardinality(During(passed[i], t, v)) \in Nat
        BY <3>2, Subsets, Zenon
      <3> QED BY <3>1, <3>3
    <2>6. Most(a) <= Max({0, 2 * a - 1}) /\ Max({0, 2 * a - 1}) \in Int /\ Most(a) \in Nat
      <3>1. PICK m \in Int : m = 2 * a - 1
        BY <2>2
      <3>2. Max({0, m}) \in Int /\ m <= Max({0, m}) /\ 0 <= Max({0, m})
        BY MaxWithZero
      <3>3. Most(a) = (IF a = 0 THEN 0 ELSE m) /\ Most(a) \in Nat
        BY <2>2, <3>1 DEF Most
      <3>4. Most(a) <= Max({0, m})
        BY <3>2, <3>3
      <3> QED BY <3>1, <3>2, <3>3, <3>4
    <2>7. Cardinality(During(passed[i], t, t + w)) <= Max({0, 2 * a - 1})
      BY <2>4, <2>5, <2>6
    <2> QED BY <2>7 DEF During
  <1> QED BY <1>1, BurstInit, BurstNext, PTL DEF Spec

=============================================================================

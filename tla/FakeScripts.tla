----------------------------- MODULE FakeScripts ----------------------------
(***************************************************************************)
(* The failure scripts of the fake provider (providers/fake) as values: a  *)
(* script is what a directive of the config file means, its state is what  *)
(* the closure built from it keeps, and every call of next() is a pair of  *)
(* operators, the outcomes it may have and the state it leaves.            *)
(*                                                                         *)
(* A directive is its head with its arguments, in order: <<name, value>>,  *)
(* or <<word>> for one without "=".  Times are clock ticks.                *)
(***************************************************************************)
EXTENDS Integers, Sequences, FiniteSetsExt

\* Beside "ok": what a directive can make the provider answer, and the error
\* of a write that fails while an answer is handled.
Injected == {"rate_limited", "server_error", "timeout"}
Failures == Injected \cup {"network_error"}

\* The status of an outcome; an error without one is answered as 502.
StatusOf(outcome) ==
  CASE outcome = "ok"            -> 200
    [] outcome = "rate_limited"  -> 429
    [] outcome = "server_error"  -> 500
    [] outcome = "timeout"       -> 504
    [] outcome = "network_error" -> 502

Retryable(outcome) == StatusOf(outcome) \in {429, 500, 502, 503, 504}

-----------------------------------------------------------------------------
(* The directives                                                           *)

\* Outcomes by name or status; any other word is refused when the file is read.
ParseOutcome(word) ==
  CASE word \in {"ok", "200"}           -> "ok"
    [] word \in {"rate_limited", "429"} -> "rate_limited"
    [] word \in {"server_error", "500"} -> "server_error"
    [] word \in {"timeout", "504"}      -> "timeout"
    [] OTHER                            -> "refused"

\* A later argument replaces an earlier one of its name; a bare word names an
\* argument that says "true".
NamedArgs(args) ==
  [name \in {args[i][1] : i \in DOMAIN args} |->
     LET last == args[Max({i \in DOMAIN args : args[i][1] = name})]
     IN  IF Len(last) = 1 THEN "true" ELSE last[2]]

\* The argument under the first of its names that was given.
Arg(args, names, default) ==
  LET named == NamedArgs(args)
      given == {i \in DOMAIN names : names[i] \in DOMAIN named}
  IN  IF given = {} THEN default ELSE named[names[Min(given)]]

\* The directives meant here: the arguments are a sequence, and those that are
\* read as numbers are whole.
Numbers == {"period", "windowMs", "window", "allowed", "allowedBeforeBurst",
            "limit", "p", "probability", "seed"}

IsDirective(d) ==
  /\ d.args \in Seq({d.args[i] : i \in DOMAIN d.args})
  /\ \A name \in Numbers \cap DOMAIN NamedArgs(d.args) :
       NamedArgs(d.args)[name] \in Int

Nothing == [kind |-> "ok"]
Refused == [kind |-> "refused"]

\* A sequence of outcomes; the directives below inject one outcome, never "ok".
SequenceScript(args) ==
  LET steps == [i \in DOMAIN args |-> ParseOutcome(args[i][1])]
  IN  IF \E i \in DOMAIN steps : steps[i] = "refused" THEN Refused
      ELSE [kind |-> "sequence", steps |-> steps]

InjectedBy(args, default) == ParseOutcome(Arg(args, <<"outcome">>, default))

PeriodicScript(args) ==
  LET period  == Arg(args, <<"period">>, 0)
      outcome == InjectedBy(args, "rate_limited")
  IN  IF period < 1 \/ outcome \notin Injected THEN Refused
      ELSE [kind |-> "periodic", period |-> period, outcome |-> outcome]

BurstScript(args) ==
  LET window  == Arg(args, <<"windowMs", "window">>, 1000)
      allowed == Arg(args, <<"allowed", "allowedBeforeBurst", "limit">>, 1)
      outcome == InjectedBy(args, "rate_limited")
  IN  IF window < 1 \/ allowed < 0 \/ outcome \notin Injected THEN Refused
      ELSE [kind |-> "burst", window |-> window, allowed |-> allowed,
            outcome |-> outcome]

\* p in percent.  The generator is a xorshift: seeded with 0 it yields only 0,
\* which is below any p but 0; otherwise either outcome may come, unless p is
\* at an end of its range.
ProbabilityScript(args) ==
  LET p       == Arg(args, <<"p", "probability">>, 0)
      seed    == Arg(args, <<"seed">>, 1)
      outcome == InjectedBy(args, "server_error")
  IN  IF p \notin 0 .. 100 \/ outcome \notin Injected THEN Refused
      ELSE [kind  |-> "probability",
            draws |-> IF p = 0 THEN {"ok"}
                      ELSE IF p = 100 \/ seed = 0 THEN {outcome}
                      ELSE {"ok", outcome}]

BuildScript(directive) ==
  CASE directive.head = "ok"          -> Nothing
    [] directive.head = "sequence"    -> SequenceScript(directive.args)
    [] directive.head = "periodic"    -> PeriodicScript(directive.args)
    [] directive.head = "burst"       -> BurstScript(directive.args)
    [] directive.head = "probability" -> ProbabilityScript(directive.args)
    [] OTHER                          -> Refused

-----------------------------------------------------------------------------
(* The scripts                                                              *)

NotStarted == -1

\* index, call or count, and windowStart
FreshState == [count |-> 0, start |-> NotStarted]

\* Mutant of CountCall: a call that fails is not counted.
CountCallPassed(script, s) ==
  IF (s.count + 1) % script.period = 0 THEN s ELSE [s EXCEPT !.count = @ + 1]

CountCall(script, s) == [s EXCEPT !.count = @ + 1]

\* Mutant of CountInWindow: windows begin at multiples of their length, as
\* those of the quota manager do.
CountInAlignedWindow(script, s, t) ==
  LET start == (t \div script.window) * script.window
  IN  IF s.start = start THEN [s EXCEPT !.count = @ + 1]
                         ELSE [count |-> 1, start |-> start]

\* A window begins with the first call after the one before has ended.
CountInWindow(script, s, t) ==
  IF s.start = NotStarted \/ t - s.start >= script.window
  THEN [count |-> 1, start |-> t]
  ELSE [s EXCEPT !.count = @ + 1]

\* The state after a call at time t.
Advance(script, s, t) ==
  CASE script.kind = "sequence" /\ s.count < Len(script.steps) ->
         [s EXCEPT !.count = @ + 1]
    [] script.kind = "periodic" -> CountCall(script, s)
    [] script.kind = "burst"    -> CountInWindow(script, s, t)
    [] OTHER                    -> s

\* The outcomes of a call at time t, from the state before it.
Outcomes(script, s, t) ==
  CASE script.kind = "sequence" ->
         {IF s.count < Len(script.steps) THEN script.steps[s.count + 1] ELSE "ok"}
    [] script.kind = "periodic" ->
         {IF (s.count + 1) % script.period = 0 THEN script.outcome ELSE "ok"}
    [] script.kind = "burst" ->
         {IF Advance(script, s, t).count > script.allowed THEN script.outcome
                                                          ELSE "ok"}
    [] script.kind = "probability" -> script.draws
    [] OTHER -> {"ok"}

=============================================================================

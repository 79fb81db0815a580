------------------------------- MODULE MCDemo -------------------------------
(* Three keys of which two are in the file, one or two callers.             *)
EXTENDS Demo, TLC

CONSTANTS k1, k2, k3, c1, c2

NoOwn == [k \in {} |-> [head |-> "ok", args |-> <<>>]]
Directive(h, a) == [head |-> h, args |-> a]

Form(mode, texts, count, session) ==
  [mode |-> mode, texts |-> texts, count |-> count, session |-> session,
   signedIn |-> TRUE, routed |-> TRUE]

Strangers == {[Form("single", 1, 1, FALSE) EXCEPT !.signedIn = FALSE],
              [Form("single", 1, 1, FALSE) EXCEPT !.routed = FALSE]}

Setting(callers, forms, own, default, adds, ticks, throws) ==
  [fileKeys |-> {k1, k2}, callers |-> callers, forms |-> forms, own |-> own,
   default |-> default, adds |-> adds, ticks |-> ticks, throws |-> throws]

\* Three turns of a session on a key that fails every third call, another
\* whose failures run out, and keys that come and go.
Session ==
  Setting({c1}, {Form("multi", 3, 1, TRUE)} \cup Strangers,
          k1 :> Directive("periodic", <<<<"period", 3>>, <<"rate_limited">>>>)
          @@ k2 :> Directive("sequence", <<<<"ok">>, <<"500">>>>),
          Directive("ok", <<>>), 3, 0, {})

\* Two callers share a limiter of two calls in two ticks.
Burst ==
  Setting({c1, c2}, {Form("load", 1, 2, FALSE)}, NoOwn,
          Directive("burst", <<<<"window", 2>>, <<"allowed", 2>>>>), 0, 3, {})

\* One caller, a shared periodic script; the bare word is not its outcome.
Periodic ==
  Setting({c1}, {Form("load", 0, 4, b) : b \in BOOLEAN}, NoOwn,
          Directive("periodic", <<<<"period", 2>>, <<"timeout">>>>), 1, 0, {})

\* Random failures, and recorders that may throw.
Chaos(throws) ==
  Setting({c1}, {Form("multi", 2, 1, TRUE), Form("single", 2, 1, FALSE)},
          k1 :> Directive("probability", <<<<"p", 10>>, <<"seed", 0>>>>),
          Directive("probability", <<<<"p", 50>>>>), 1, 0, throws)

\* Files that are refused: an unknown directive, a period of zero.
RefusedFiles ==
  {[Periodic EXCEPT !.default = Directive("random", <<>>)],
   [Periodic EXCEPT !.default = Directive("periodic", <<<<"period", 0>>>>)],
   [Periodic EXCEPT !.default = Directive("sequence", <<<<"teapot">>>>)]}

MCSettings == {Session, Burst, Periodic, Chaos({"usage"}), Chaos({"usage", "health"})}
              \cup RefusedFiles
=============================================================================

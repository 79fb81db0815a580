---------------------------- MODULE RequestLog ------------------------------
(***************************************************************************)
(* What the executor promises the caller of execute, without how keys are  *)
(* chosen or how the health of keys is kept: a request tries at most       *)
(* MaxAttempts keys, each once and none the caller excluded, never goes on *)
(* after an error that does not permit it, and is answered in the end.     *)
(***************************************************************************)
EXTENDS Naturals, Sequences, Functions

CONSTANTS Clients, Keys, MaxAttempts, CallerExclusions

VARIABLES
  phase,    \* "new" before the first request, "open", "closed" once answered
  barred,   \* keys the caller excludes
  tried,    \* the keys sent to by the open request, in order
  refused   \* requests whose last error permits no further attempt

vars == <<phase, barred, tried, refused>>

Init ==
  /\ phase = [c \in Clients |-> "new"]
  /\ barred = [c \in Clients |-> {}]
  /\ tried = [c \in Clients |-> <<>>]
  /\ refused = {}

(* A request arrives. *)
Open(c, ex) ==
  /\ phase[c] # "open"
  /\ phase' = [phase EXCEPT ![c] = "open"]
  /\ barred' = [barred EXCEPT ![c] = ex]
  /\ UNCHANGED <<tried, refused>>

(* One attempt, with a key of its own. *)
Try(c, k) ==
  /\ phase[c] = "open"
  /\ c \notin refused
  /\ k \notin barred[c] \cup Range(tried[c])
  /\ Len(tried[c]) < MaxAttempts
  /\ tried' = [tried EXCEPT ![c] = Append(@, k)]
  /\ UNCHANGED <<phase, barred, refused>>

(* The attempt ends in an error that does, or does not, permit another. *)
Fail(c) ==
  /\ phase[c] = "open"
  /\ tried[c] # <<>>
  /\ refused' \in {refused \cup {c}, refused \ {c}}
  /\ UNCHANGED <<phase, barred, tried>>

(* The answer. *)
Close(c) ==
  /\ phase[c] = "open"
  /\ phase' = [phase EXCEPT ![c] = "closed"]
  /\ barred' = [barred EXCEPT ![c] = {}]
  /\ tried' = [tried EXCEPT ![c] = <<>>]
  /\ refused' = refused \ {c}

Next ==
  \E c \in Clients :
    \/ \E ex \in CallerExclusions : Open(c, ex)
    \/ \E k \in Keys : Try(c, k)
    \/ Fail(c)
    \/ Close(c)

Safety == Init /\ [][Next]_vars

(* Every request that is open is answered. *)
Spec == Safety /\ \A c \in Clients : WF_vars(Close(c))

=============================================================================

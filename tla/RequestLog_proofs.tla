-------------------------- MODULE RequestLog_proofs -------------------------
(***************************************************************************)
(* Every step of KeyPool is a step of RequestLog or leaves it unchanged:   *)
(* the executor keeps its promises (all of them but the answer in the end, *)
(* which needs fairness) for every number of keys, clients and attempts.   *)
(***************************************************************************)
EXTENDS KeyPool_proofs, SequenceTheorems

-----------------------------------------------------------------------------
(* What the locals of a request say at each place.                          *)

Selecting(c) == pc[c] \in {"release", "find", "pick", "charge"}
Answering(c) == pc[c] \in {"sending", "succeeded", "recover", "log_success"}
Failing(c) == pc[c] \in {"log_failure", "count_failure", "judge", "log_status"}

LocalsOK(c) ==
  /\ pc[c] = "idle" => /\ excluded[c] = {}
                       /\ attempted[c] = <<>>
                       /\ lastError[c] = "none"
  /\ Selecting(c) => /\ lastError[c] # "fatal"
                     /\ Len(attempted[c]) < MaxAttempts
  /\ pc[c] = "charge" => chosen[c] \notin Barred(c)
  /\ Answering(c) => attempted[c] # <<>>
  /\ Failing(c) => lastError[c] # "none"
  /\ Len(attempted[c]) <= MaxAttempts
  /\ pc[c] = "report" => answer[c] # "none"

LocalsInv == TypeInv /\ \A c \in Clients : LocalsOK(c)

LEMMA LocalsInit == Init => \A c \in Clients : LocalsOK(c)
  BY KeyPoolAssumption DEF Init, LocalsOK, Selecting, Answering, Failing

(* A step of another client, the administrator or the clock touches none of *)
(* these variables at c.                                                    *)
Untouched(c) ==
  /\ pc'[c] = pc[c]
  /\ excluded'[c] = excluded[c]
  /\ attempted'[c] = attempted[c]
  /\ chosen'[c] = chosen[c]
  /\ lastError'[c] = lastError[c]
  /\ answer'[c] = answer[c]

LEMMA UntouchedLocals ==
  ASSUME NEW c, LocalsOK(c), Untouched(c)
  PROVE  LocalsOK(c)'
  BY DEF LocalsOK, Untouched, Selecting, Answering, Failing, Barred

(* Facts about types that the steps below share. *)
LocalTypes ==
  /\ pc \in [Clients -> PC]
  /\ excluded \in [Clients -> SUBSET Keys]
  /\ attempted \in [Clients -> Seq(Keys)]
  /\ chosen \in [Clients -> Keys \cup {NoKey}]
  /\ lastError \in [Clients -> {"none", "retryable", "fatal"}]
  /\ answer \in [Clients -> {"none", "ok", "provider_error", "request_error"}]

LEMMA InvLocalTypes == TypeInv => LocalTypes
  BY DEF TypeInv, TypeOK, LocalTypes

-----------------------------------------------------------------------------
(* The steps of one client, in the four groups of Step: what they do to the *)
(* locals of that client, and that they leave the others alone.             *)

LEMMA LocalsSelection ==
  ASSUME LocalsInv, NEW c \in Clients, Release(c) \/ Find(c) \/ Pick(c)
  PROVE  /\ LocalsOK(c)'
         /\ \A d \in Clients \ {c} : Untouched(d)
<1> USE InvLocalTypes
        DEF LocalsInv, LocalTypes, LocalsOK, Selecting, Answering, Failing,
            Untouched, Barred, shared, local, Goto
<1>1. CASE Release(c)
  BY <1>1 DEF Release
<1>2. CASE Find(c)
  BY <1>2 DEF Find
<1>3. CASE Pick(c)
  <2>1. CASE Goto(c, "exhausted") /\ UNCHANGED <<cursor, chosen>>
    BY <1>3, <2>1 DEF Pick
  <2>2. ASSUME NEW k \in Eligible(c),
               chosen' = [chosen EXCEPT ![c] = k], Goto(c, "charge")
        PROVE  /\ LocalsOK(c)'
               /\ \A d \in Clients \ {c} : Untouched(d)
    <3>1. k \notin Barred(c)
      BY DEF Eligible
    <3>2. QED
      BY <1>3, <2>2, <3>1 DEF Pick
  <2>3. QED
    BY <1>3, <2>1, <2>2 DEF Pick
<1>4. QED
  BY <1>1, <1>2, <1>3

LEMMA LocalsCharge ==
  ASSUME LocalsInv, NEW c \in Clients, Charge(c)
  PROVE  /\ LocalsOK(c)'
         /\ \A d \in Clients \ {c} : Untouched(d)
<1> USE InvLocalTypes
        DEF LocalsInv, LocalTypes, Charge, shared, local, Goto
<1>1. chosen[c] \in Keys /\ attempted[c] \in Seq(Keys)
  BY DEF TypeInv, KeyInHand
<1>2. attempted'[c] = Append(attempted[c], chosen[c])
  OBVIOUS
<1>3. /\ attempted'[c] # <<>>
      /\ Len(attempted'[c]) = Len(attempted[c]) + 1
  BY <1>1, <1>2, AppendProperties
<1>4. Len(attempted'[c]) <= MaxAttempts
  BY <1>1, <1>3, KeyPoolAssumption DEF LocalsOK, Selecting
<1>5. LocalsOK(c)'
  BY <1>3, <1>4 DEF LocalsOK, Selecting, Answering, Failing
<1>6. QED
  BY <1>5 DEF Untouched

LEMMA LocalsAnswer ==
  ASSUME LocalsInv, NEW c \in Clients,
         \/ ProviderSucceeds(c) \/ ProviderFails(c)
         \/ RecordUsage(c) \/ RecordSuccess(c) \/ AnswerSuccess(c)
  PROVE  /\ LocalsOK(c)'
         /\ \A d \in Clients \ {c} : Untouched(d)
<1> USE InvLocalTypes
        DEF LocalsInv, LocalTypes, LocalsOK, Selecting, Answering, Failing,
            Untouched, shared, local, Goto
<1>1. CASE ProviderSucceeds(c)
  BY <1>1 DEF ProviderSucceeds
<1>2. CASE ProviderFails(c)
  BY <1>2 DEF ProviderFails, CatchError
<1>3. CASE RecordUsage(c)
  BY <1>3 DEF RecordUsage
<1>4. CASE RecordSuccess(c)
  BY <1>4 DEF RecordSuccess
<1>5. CASE AnswerSuccess(c)
  BY <1>5, KeyPoolAssumption DEF AnswerSuccess, Forget
<1>6. QED
  BY <1>1, <1>2, <1>3, <1>4, <1>5

LEMMA LocalsFailure ==
  ASSUME LocalsInv, NEW c \in Clients,
         \/ LogFailure(c) \/ CountFailure(c) \/ Judge(c) \/ FinishFailure(c)
         \/ Exhausted(c) \/ ReportError(c)
  PROVE  /\ LocalsOK(c)'
         /\ \A d \in Clients \ {c} : Untouched(d)
<1> USE InvLocalTypes
        DEF LocalsInv, LocalTypes, LocalsOK, Selecting, Answering, Failing,
            Untouched, shared, local, Goto
<1>1. CASE LogFailure(c)
  BY <1>1 DEF LogFailure
<1>2. CASE CountFailure(c)
  BY <1>2 DEF CountFailure
<1>3. CASE Judge(c)
  BY <1>3 DEF Judge
<1>4. CASE FinishFailure(c)
  BY <1>4 DEF FinishFailure, ShouldRetry
<1>5. CASE Exhausted(c)
  BY <1>5 DEF Exhausted
<1>6. CASE ReportError(c)
  BY <1>6, KeyPoolAssumption DEF ReportError, Forget
<1>7. QED
  BY <1>1, <1>2, <1>3, <1>4, <1>5, <1>6

LEMMA LocalsFaults ==
  ASSUME LocalsInv, NEW c \in Clients,
         SuccessHookThrows(c) \/ FailureHookThrows(c) \/ ReportThrows(c)
  PROVE  /\ LocalsOK(c)'
         /\ \A d \in Clients \ {c} : Untouched(d)
<1> USE InvLocalTypes
        DEF LocalsInv, LocalTypes, LocalsOK, Selecting, Answering, Failing,
            Untouched, shared, local, Goto
<1>1. CASE SuccessHookThrows(c)
  BY <1>1 DEF SuccessHookThrows, CatchError
<1>2. CASE FailureHookThrows(c)
  BY <1>2 DEF FailureHookThrows
<1>3. CASE ReportThrows(c)
  BY <1>3, KeyPoolAssumption DEF ReportThrows, Forget
<1>4. QED
  BY <1>1, <1>2, <1>3

LEMMA LocalsSubmit ==
  ASSUME LocalsInv, NEW c \in Clients, NEW ex \in CallerExclusions, Submit(c, ex)
  PROVE  /\ LocalsOK(c)'
         /\ \A d \in Clients \ {c} : Untouched(d)
BY InvLocalTypes, KeyPoolAssumption
DEF LocalsInv, LocalTypes, LocalsOK, Selecting, Answering, Failing, Untouched, Submit, Goto

LEMMA LocalsEnvironment ==
  ASSUME Admin \/ Tick \/ UNCHANGED vars
  PROVE  \A d \in Clients : Untouched(d)
BY DEF Admin, AdminUpsert, AdminDelete, AdminSetStatus, Tick, vars, local, Untouched

LEMMA LocalsNext == LocalsInv /\ [Next]_vars => LocalsInv'
<1> SUFFICES ASSUME LocalsInv, [Next]_vars PROVE LocalsInv'
  OBVIOUS
<1>1. TypeInv'
  BY TypeNext DEF LocalsInv
<1>2. ASSUME NEW c \in Clients, Step(c) \/ \E ex \in CallerExclusions : Submit(c, ex)
      PROVE  /\ LocalsOK(c)'
             /\ \A d \in Clients \ {c} : Untouched(d)
  BY <1>2, LocalsSelection, LocalsCharge, LocalsAnswer, LocalsFailure,
     LocalsFaults, LocalsSubmit
  DEF Step
<1>3. ASSUME NEW c \in Clients, Step(c) \/ \E ex \in CallerExclusions : Submit(c, ex)
      PROVE  \A d \in Clients : LocalsOK(d)'
  <2>1. ASSUME NEW d \in Clients PROVE LocalsOK(d)'
    <3>1. CASE d = c
      BY <1>2, <1>3, <3>1
    <3>2. CASE d # c
      <4>1. Untouched(d) /\ LocalsOK(d)
        BY <1>2, <1>3, <3>2 DEF LocalsInv
      <4>2. QED
        BY <4>1, UntouchedLocals
    <3>3. QED
      BY <3>1, <3>2
  <2>2. QED
    BY <2>1
<1>4. CASE Admin \/ Tick \/ UNCHANGED vars
  <2>1. \A d \in Clients : LocalsOK(d) /\ Untouched(d)
    BY <1>4, LocalsEnvironment DEF LocalsInv
  <2>2. \A d \in Clients : LocalsOK(d)'
    BY <2>1, UntouchedLocals
  <2>3. QED
    BY <1>1, <2>2 DEF LocalsInv
<1>5. QED
  BY <1>1, <1>3, <1>4 DEF Next, LocalsInv

-----------------------------------------------------------------------------
(* The refinement: what RequestLog sees of a step.                          *)

(* The value of the mapping at one client. *)
SamePhase(c) == /\ (pc'[c] = "idle") = (pc[c] = "idle")
                /\ pc[c] = "idle" => answer'[c] = answer[c]

(* A step that opens, closes and tries nothing is a stutter.                *)
LEMMA Stutter ==
  ASSUME \A c \in Clients : SamePhase(c), UNCHANGED <<excluded, attempted, lastError>>
  PROVE  UNCHANGED Log!vars
<1>1. \A c \in Clients : Phase(c)' = Phase(c)
  BY DEF SamePhase, Phase
<1>2. [c \in Clients |-> Phase(c)]' = [c \in Clients |-> Phase(c)]
  BY <1>1
<1>3. {c \in Clients : lastError[c] = "fatal"}' = {c \in Clients : lastError[c] = "fatal"}
  OBVIOUS
<1>4. QED
  BY <1>2, <1>3 DEF Log!vars

LEMMA LogInit == Init => Log!Init
<1> SUFFICES ASSUME Init PROVE Log!Init
  OBVIOUS
<1>1. \A c \in Clients : Phase(c) = "new"
  BY DEF Init, Phase
<1>2. {c \in Clients : lastError[c] = "fatal"} = {}
  BY DEF Init
<1>3. QED
  BY <1>1, <1>2 DEF Init, Log!Init

(* Counting the request is the attempt. *)
LEMMA ChargeTries ==
  ASSUME LocalsInv, NEW c \in Clients, Charge(c)
  PROVE  Log!Try(c, chosen[c])
<1> USE InvLocalTypes DEF LocalsInv, LocalTypes, Goto
<1>1. /\ [d \in Clients |-> Phase(d)][c] = "open"
      /\ c \notin {d \in Clients : lastError[d] = "fatal"}
      /\ Len(attempted[c]) < MaxAttempts
      /\ chosen[c] \notin excluded[c] \cup Range(attempted[c])
  BY DEF Charge, Phase, LocalsOK, Selecting, Barred
<1>2. attempted' = [attempted EXCEPT ![c] = Append(attempted[c], chosen[c])]
  BY DEF Charge
<1>3. UNCHANGED <<excluded, lastError, answer>>
  BY DEF Charge
<1>4. \A d \in Clients : Phase(d)' = Phase(d)
  BY DEF Charge, Phase
<1>5. [d \in Clients |-> Phase(d)]' = [d \in Clients |-> Phase(d)]
  BY <1>4
<1>6. {d \in Clients : lastError[d] = "fatal"}' = {d \in Clients : lastError[d] = "fatal"}
  BY <1>3
<1>7. QED
  BY <1>1, <1>2, <1>3, <1>5, <1>6 DEF Log!Try, Log!Range, Range

(* A request that arrives opens. *)
LEMMA SubmitOpens ==
  ASSUME LocalsInv, NEW c \in Clients, NEW ex \in CallerExclusions, Submit(c, ex)
  PROVE  Log!Open(c, ex)
<1> USE InvLocalTypes DEF LocalsInv, LocalTypes, Goto
<1>1. [d \in Clients |-> Phase(d)][c] # "open"
  BY DEF Submit, Phase
<1>2. \A d \in Clients : Phase(d)' = IF d = c THEN "open" ELSE Phase(d)
  BY DEF Submit, Phase
<1>3. [d \in Clients |-> Phase(d)]' = [[d \in Clients |-> Phase(d)] EXCEPT ![c] = "open"]
  BY <1>2
<1>4. attempted' = attempted /\ lastError' = lastError
  BY DEF Submit, LocalsOK
<1>5. {d \in Clients : lastError[d] = "fatal"}' = {d \in Clients : lastError[d] = "fatal"}
  BY <1>4
<1>6. QED
  BY <1>1, <1>3, <1>4, <1>5 DEF Submit, Log!Open

(* An error that is caught ends the attempt. *)
LEMMA CatchFails ==
  ASSUME LocalsInv, NEW c \in Clients, Answering(c),
         NEW error \in {"retryable", "fatal"}, CatchError(c, error)
  PROVE  Log!Fail(c)
<1> USE InvLocalTypes DEF LocalsInv, LocalTypes, CatchError, Goto
<1> DEFINE refused == {d \in Clients : lastError[d] = "fatal"}
<1>1. /\ [d \in Clients |-> Phase(d)][c] = "open"
      /\ attempted[c] # <<>>
  BY DEF Answering, Phase, LocalsOK
<1>2. \A d \in Clients : Phase(d)' = Phase(d)
  BY DEF Answering, Phase
<1>3. [d \in Clients |-> Phase(d)]' = [d \in Clients |-> Phase(d)]
  BY <1>2
<1>4. refused' \in {refused \cup {c}, refused \ {c}}
  <2>1. \A d \in Clients : lastError'[d] = IF d = c THEN error ELSE lastError[d]
    OBVIOUS
  <2>2. CASE error = "fatal"
    BY <2>1, <2>2
  <2>3. CASE error = "retryable"
    BY <2>1, <2>3
  <2>4. QED
    BY <2>2, <2>3
<1>5. QED
  BY <1>1, <1>3, <1>4 DEF Log!Fail

(* The answer closes the request and forgets its locals. *)
LEMMA ForgetCloses ==
  ASSUME LocalsInv, NEW c \in Clients, pc[c] # "idle", Forget(c), Goto(c, "idle"),
         \A d \in Clients \ {c} : answer'[d] = answer[d], answer'[c] # "none"
  PROVE  Log!Close(c)
<1> USE InvLocalTypes DEF LocalsInv, LocalTypes, Goto, Forget
<1> DEFINE refused == {d \in Clients : lastError[d] = "fatal"}
<1>1. [d \in Clients |-> Phase(d)][c] = "open"
  BY DEF Phase
<1>2. \A d \in Clients : Phase(d)' = IF d = c THEN "closed" ELSE Phase(d)
  BY DEF Phase
<1>3. [d \in Clients |-> Phase(d)]' = [[d \in Clients |-> Phase(d)] EXCEPT ![c] = "closed"]
  BY <1>2
<1>4. refused' = refused \ {c}
  OBVIOUS
<1>5. QED
  BY <1>1, <1>3, <1>4 DEF Log!Close

-----------------------------------------------------------------------------
(* Every step maps to a step or a stutter.                                  *)

(* The steps on the way to an attempt, and those on the way back from it    *)
(* but for the catch, do not concern the caller.                            *)
LEMMA InnerStepsStutter ==
  ASSUME LocalsInv, NEW c \in Clients,
         \/ Release(c) \/ Find(c) \/ Pick(c) \/ ProviderSucceeds(c)
         \/ RecordUsage(c) \/ RecordSuccess(c) \/ LogFailure(c)
         \/ CountFailure(c) \/ Judge(c) \/ FinishFailure(c) \/ Exhausted(c)
         \/ FailureHookThrows(c)
  PROVE  UNCHANGED Log!vars
<1> USE InvLocalTypes DEF LocalsInv, LocalTypes, SamePhase, shared, local, Goto
<1>1. CASE Release(c) \/ Find(c)
  BY <1>1, Stutter DEF Release, Find
<1>2. CASE Pick(c)
  <2>1. /\ UNCHANGED <<excluded, attempted, lastError, answer>>
        /\ pc[c] = "pick"
        /\ pc' = [pc EXCEPT ![c] = "exhausted"] \/ pc' = [pc EXCEPT ![c] = "charge"]
    BY <1>2 DEF Pick
  <2>2. QED
    BY <2>1, Stutter
<1>3. CASE ProviderSucceeds(c) \/ RecordUsage(c) \/ RecordSuccess(c)
  BY <1>3, Stutter DEF ProviderSucceeds, RecordUsage, RecordSuccess
<1>4. CASE LogFailure(c) \/ CountFailure(c) \/ Judge(c)
  BY <1>4, Stutter DEF LogFailure, CountFailure, Judge
<1>5. CASE FinishFailure(c) \/ Exhausted(c)
  BY <1>5, Stutter DEF FinishFailure, Exhausted
<1>6. CASE FailureHookThrows(c)
  BY <1>6, Stutter DEF FailureHookThrows
<1>7. QED
  BY <1>1, <1>2, <1>3, <1>4, <1>5, <1>6

(* The catch of execute, and the answers. *)
LEMMA OuterSteps ==
  ASSUME LocalsInv, NEW c \in Clients,
         \/ Charge(c) \/ ProviderFails(c) \/ SuccessHookThrows(c)
         \/ AnswerSuccess(c) \/ ReportError(c) \/ ReportThrows(c)
  PROVE  Log!Next
<1>1. CASE Charge(c)
  <2>1. chosen[c] \in Keys
    BY <1>1 DEF Charge, LocalsInv, TypeInv, KeyInHand
  <2>2. QED
    BY <1>1, <2>1, ChargeTries DEF Log!Next
<1>2. CASE ProviderFails(c) \/ SuccessHookThrows(c)
  <2>1. Answering(c)
    BY <1>2 DEF ProviderFails, SuccessHookThrows, Answering
  <2>2. \E error \in {"retryable", "fatal"} : CatchError(c, error)
    BY <1>2 DEF ProviderFails, SuccessHookThrows
  <2>3. Log!Fail(c)
    BY <2>1, <2>2, CatchFails
  <2>4. QED
    BY <2>3 DEF Log!Next
<1>3. CASE AnswerSuccess(c) \/ ReportError(c) \/ ReportThrows(c)
  <2>1. /\ pc[c] # "idle" /\ Forget(c) /\ Goto(c, "idle")
        /\ answer'[c] # "none"
        /\ \A d \in Clients \ {c} : answer'[d] = answer[d]
    BY <1>3, InvLocalTypes
    DEF AnswerSuccess, ReportError, ReportThrows, LocalsInv, LocalTypes, LocalsOK
  <2>2. Log!Close(c)
    BY <2>1, ForgetCloses
  <2>3. QED
    BY <2>2 DEF Log!Next
<1>4. QED
  BY <1>1, <1>2, <1>3

LEMMA LogNext == LocalsInv /\ [Next]_vars => [Log!Next]_(Log!vars)
<1> SUFFICES ASSUME LocalsInv, [Next]_vars PROVE Log!Next \/ UNCHANGED Log!vars
  OBVIOUS
<1>1. CASE \E c \in Clients : Step(c)
  BY <1>1, InnerStepsStutter, OuterSteps DEF Step
<1>2. ASSUME NEW c \in Clients, NEW ex \in CallerExclusions, Submit(c, ex)
      PROVE  Log!Next
  BY <1>2, SubmitOpens DEF Log!Next
<1>3. CASE Admin \/ Tick \/ UNCHANGED vars
  <2>1. UNCHANGED <<excluded, attempted, lastError, pc, answer>>
    BY <1>3 DEF Admin, AdminUpsert, AdminDelete, AdminSetStatus, Tick, vars, local
  <2>2. QED
    BY <2>1, Stutter DEF SamePhase
<1>4. QED
  BY <1>1, <1>2, <1>3 DEF Next

(* The executor keeps its promises: attempts only with keys that are        *)
(* neither excluded nor tried before, at most MaxAttempts of them, none     *)
(* after a fatal error, and only an open request is answered.               *)
THEOREM KeepsPromises == Spec => Log!Safety
<1>1. Init => LocalsInv /\ Log!Init
  BY TypeInit, LocalsInit, LogInit DEF LocalsInv
<1>2. QED
  BY <1>1, LocalsNext, LogNext, PTL DEF Spec, Log!Safety

-----------------------------------------------------------------------------
(* Giving up, and usage entries                                             *)

LEMMA GivesUpStep ==
  ASSUME LocalsInv, [Next]_vars, NEW c \in Clients,
         answer[c] = "none", answer'[c] = "provider_error"
  PROVE  \/ pc[c] = "exhausted"
         \/ lastError[c] = "fatal"
         \/ Len(attempted[c]) = MaxAttempts
<1> USE InvLocalTypes DEF LocalsInv, LocalTypes
<1>1. CASE FinishFailure(c)
  <2>1. ~ShouldRetry(lastError[c], Len(attempted[c]))
    BY <1>1 DEF FinishFailure
  <2>2. lastError[c] # "none" /\ Len(attempted[c]) <= MaxAttempts
    BY <1>1 DEF FinishFailure, LocalsOK, Failing
  <2>3. Len(attempted[c]) \in Nat /\ MaxAttempts \in Nat
    BY KeyPoolAssumption
  <2>4. QED
    BY <2>1, <2>2, <2>3 DEF ShouldRetry
<1>2. CASE Exhausted(c)
  BY <1>2 DEF Exhausted
<1>3. ASSUME ~FinishFailure(c), ~Exhausted(c)
      PROVE  FALSE
  <2>1. ASSUME NEW d \in Clients, Step(d)
        PROVE  answer'[c] = answer[c] \/ answer'[c] \in {"ok", "request_error"}
    <3> USE DEF shared, local
    <3>1. CASE Release(d) \/ Find(d) \/ Pick(d) \/ Charge(d)
      BY <3>1 DEF Release, Find, Pick, Charge
    <3>2. CASE \/ ProviderSucceeds(d) \/ ProviderFails(d) \/ RecordUsage(d)
               \/ RecordSuccess(d) \/ AnswerSuccess(d)
      BY <3>2 DEF ProviderSucceeds, ProviderFails, CatchError, RecordUsage,
                  RecordSuccess, AnswerSuccess
    <3>3. CASE LogFailure(d) \/ CountFailure(d) \/ Judge(d) \/ ReportError(d)
      BY <3>3 DEF LogFailure, CountFailure, Judge, ReportError
    <3>4. CASE SuccessHookThrows(d) \/ FailureHookThrows(d) \/ ReportThrows(d)
      BY <3>4 DEF SuccessHookThrows, CatchError, FailureHookThrows, ReportThrows
    <3>5. CASE d # c /\ (FinishFailure(d) \/ Exhausted(d))
      BY <3>5 DEF FinishFailure, Exhausted
    <3>6. QED
      BY <1>3, <2>1, <3>1, <3>2, <3>3, <3>4, <3>5 DEF Step
  <2>2. ASSUME NEW d \in Clients, NEW ex \in CallerExclusions, Submit(d, ex)
        PROVE  answer'[c] \in {answer[c], "none"}
    BY <2>2 DEF Submit
  <2>3. CASE Admin \/ Tick \/ UNCHANGED vars
    BY <2>3 DEF Admin, AdminUpsert, AdminDelete, AdminSetStatus, Tick, vars, local
  <2>4. QED
    BY <2>1, <2>2, <2>3 DEF Next
<1>4. QED
  BY <1>1, <1>2, <1>3

(* A request gives up only without a key, after a fatal error, or when all  *)
(* its attempts are spent.                                                  *)
THEOREM GivesUpHonestly == Spec => GivesUpOnlyWithReason
<1>1. LocalsInv /\ [Next]_vars =>
        [\A c \in Clients :
           answer[c] = "none" /\ answer'[c] = "provider_error" =>
             \/ pc[c] = "exhausted"
             \/ lastError[c] = "fatal"
             \/ Len(attempted[c]) = MaxAttempts]_vars
  BY GivesUpStep
<1>2. Init => LocalsInv
  BY TypeInit, LocalsInit DEF LocalsInv
<1>3. QED
  BY <1>1, <1>2, LocalsNext, PTL DEF Spec, GivesUpOnlyWithReason

-----------------------------------------------------------------------------
(* Usage entries: what the success hook and the route record for a request  *)
(* adds up to one entry without recorder faults, and to at least one        *)
(* whatever faults there are, unless the answer is an internal error.       *)

Recorded(c) == pc[c] \in {"recover", "log_success"}

AtLeastOne(c) ==
  /\ Recorded(c) => entries[c] >= 1
  /\ pc[c] = "idle" /\ answer[c] \in {"ok", "provider_error"} => entries[c] >= 1

ExactlyOne(c) ==
  /\ Recorded(c) => entries[c] = 1
  /\ pc[c] = "idle" /\ answer[c] # "none" => entries[c] = 1
  /\ pc[c] # "idle" /\ ~Recorded(c) => entries[c] = 0

AtMostOne(c) ==
  /\ Recorded(c) \/ pc[c] = "idle" => entries[c] <= 1
  /\ pc[c] # "idle" /\ ~Recorded(c) => entries[c] = 0

AtLeastInv == TypeInv /\ \A c \in Clients : AtLeastOne(c)
AtMostInv == TypeInv /\ \A c \in Clients : AtMostOne(c)
ExactInv == TypeInv /\ \A c \in Clients : ExactlyOne(c)

-----------------------------------------------------------------------------
(* What a step of a client does to the entries of its request, seen from    *)
(* the place it starts at and the place it goes to.                         *)

Quiet(c) ==
  /\ pc'[c] = pc[c]
  /\ answer'[c] = answer[c]
  /\ entries'[c] = entries[c]

Between(c) ==       \* nothing is recorded, nothing answered
  /\ pc[c] # "idle" /\ ~Recorded(c)
  /\ pc'[c] # "idle" /\ pc'[c] \notin {"recover", "log_success"}
  /\ entries'[c] = entries[c]

ByHook(c) ==        \* RecordUsage
  /\ pc[c] # "idle" /\ ~Recorded(c)
  /\ pc'[c] = "recover"
  /\ entries'[c] = entries[c] + 1

AfterHook(c) ==     \* RecordSuccess
  /\ Recorded(c)
  /\ pc'[c] = "log_success"
  /\ entries'[c] = entries[c]

Success(c) ==       \* AnswerSuccess
  /\ Recorded(c)
  /\ pc'[c] = "idle"
  /\ entries'[c] = entries[c]

ByRoute(c) ==       \* ReportError
  /\ pc[c] # "idle" /\ ~Recorded(c)
  /\ pc'[c] = "idle"
  /\ entries'[c] = entries[c] + 1

Opened(c) ==        \* Submit
  /\ pc'[c] = "release"
  /\ entries'[c] = 0

Unwritten(c) ==     \* ReportThrows
  /\ "usage" \in Faults
  /\ pc[c] # "idle" /\ ~Recorded(c)
  /\ pc'[c] = "idle" /\ answer'[c] = "request_error"
  /\ entries'[c] = entries[c]

Fault(c) ==         \* a health event cannot be written
  /\ "health" \in Faults
  /\ pc'[c] \notin {"idle", "recover", "log_success"}

Effect(c) ==
  \/ Quiet(c) \/ Between(c) \/ ByHook(c) \/ AfterHook(c) \/ Success(c)
  \/ ByRoute(c) \/ Opened(c) \/ Unwritten(c) \/ Fault(c)

(* Every step has one of these effects on every client. *)
LEMMA Effects == ASSUME TypeInv, [Next]_vars, NEW c \in Clients PROVE Effect(c)
<1> USE DEF shared, local, Goto, Recorded, Effect
<1>0. /\ pc \in [Clients -> PC]
      /\ answer \in [Clients -> {"none", "ok", "provider_error", "request_error"}]
      /\ entries \in [Clients -> Nat]
  BY DEF TypeInv, TypeOK
<1>1. ASSUME NEW d \in Clients, Step(d)
      PROVE  Effect(c)
  <2>1. CASE d # c
    <3>1. /\ pc'[c] = pc[c]
          /\ answer'[c] = answer[c]
          /\ entries'[c] = entries[c]
      <4>1. CASE Release(d) \/ Find(d) \/ Pick(d) \/ Charge(d)
        BY <1>0, <2>1, <4>1 DEF Release, Find, Pick, Charge
      <4>2. CASE \/ ProviderSucceeds(d) \/ ProviderFails(d) \/ RecordUsage(d)
                 \/ RecordSuccess(d) \/ AnswerSuccess(d)
        BY <1>0, <2>1, <4>2
        DEF ProviderSucceeds, ProviderFails, CatchError, RecordUsage,
            RecordSuccess, AnswerSuccess
      <4>3. CASE \/ LogFailure(d) \/ CountFailure(d) \/ Judge(d)
                 \/ FinishFailure(d) \/ Exhausted(d) \/ ReportError(d)
        BY <1>0, <2>1, <4>3
        DEF LogFailure, CountFailure, Judge, FinishFailure, Exhausted, ReportError
      <4>4. CASE SuccessHookThrows(d) \/ FailureHookThrows(d) \/ ReportThrows(d)
        BY <1>0, <2>1, <4>4
        DEF SuccessHookThrows, CatchError, FailureHookThrows, ReportThrows
      <4>5. QED
        BY <1>1, <4>1, <4>2, <4>3, <4>4 DEF Step
    <3>2. QED
      BY <3>1 DEF Quiet
  <2>2. CASE d = c
    <3>1. CASE Release(c) \/ Find(c) \/ Pick(c) \/ Charge(c)
      BY <1>0, <3>1 DEF Release, Find, Pick, Charge, Between
    <3>2. CASE ProviderSucceeds(c) \/ ProviderFails(c)
      BY <1>0, <3>2 DEF ProviderSucceeds, ProviderFails, CatchError, Between
    <3>3. CASE RecordUsage(c)
      BY <1>0, <3>3 DEF RecordUsage, ByHook
    <3>4. CASE RecordSuccess(c)
      BY <1>0, <3>4 DEF RecordSuccess, AfterHook
    <3>5. CASE AnswerSuccess(c)
      BY <1>0, <3>5 DEF AnswerSuccess, Success
    <3>6. CASE LogFailure(c) \/ CountFailure(c) \/ Judge(c)
      BY <1>0, <3>6 DEF LogFailure, CountFailure, Judge, Between
    <3>7. CASE FinishFailure(c) \/ Exhausted(c)
      BY <1>0, <3>7 DEF FinishFailure, Exhausted, Between
    <3>8. CASE ReportError(c)
      BY <1>0, <3>8 DEF ReportError, ByRoute
    <3>9. CASE SuccessHookThrows(c) \/ FailureHookThrows(c) \/ ReportThrows(c)
      <4>1. CASE SuccessHookThrows(c)
        BY <1>0, <4>1 DEF SuccessHookThrows, CatchError, Between, Fault
      <4>2. CASE FailureHookThrows(c)
        BY <1>0, <4>2 DEF FailureHookThrows, Fault
      <4>3. CASE ReportThrows(c)
        BY <1>0, <4>3 DEF ReportThrows, Unwritten
      <4>4. QED
        BY <3>9, <4>1, <4>2, <4>3
    <3>10. QED
      BY <1>1, <2>2, <3>1, <3>2, <3>3, <3>4, <3>5, <3>6, <3>7, <3>8, <3>9 DEF Step
  <2>3. QED
    BY <2>1, <2>2
<1>2. ASSUME NEW d \in Clients, NEW ex \in CallerExclusions, Submit(d, ex)
      PROVE  Effect(c)
  BY <1>0, <1>2 DEF Submit, Opened, Quiet
<1>3. CASE Admin \/ Tick \/ UNCHANGED vars
  BY <1>3 DEF Admin, AdminUpsert, AdminDelete, AdminSetStatus, Tick, vars, Quiet
<1>4. QED
  BY <1>1, <1>2, <1>3 DEF Next

LEMMA AtLeastNext == AtLeastInv /\ [Next]_vars => AtLeastInv'
<1> SUFFICES ASSUME AtLeastInv, [Next]_vars PROVE AtLeastInv'
  OBVIOUS
<1>1. ASSUME NEW c \in Clients PROVE AtLeastOne(c)'
  <2>1. Effect(c) /\ AtLeastOne(c) /\ entries[c] \in Nat
    BY Effects DEF AtLeastInv, TypeInv, TypeOK
  <2>2. QED
    BY <2>1
    DEF Effect, Quiet, Between, ByHook, AfterHook, Success, ByRoute, Opened,
        Unwritten, Fault, AtLeastOne, Recorded
<1>2. QED
  BY <1>1, TypeNext DEF AtLeastInv

LEMMA ExactNext ==
  ASSUME Faults = {}
  PROVE  ExactInv /\ [Next]_vars => ExactInv'
<1> SUFFICES ASSUME ExactInv, [Next]_vars PROVE ExactInv'
  OBVIOUS
<1>1. ASSUME NEW c \in Clients PROVE ExactlyOne(c)'
  <2>1. Effect(c) /\ ExactlyOne(c) /\ entries[c] \in Nat
    BY Effects DEF ExactInv, TypeInv, TypeOK
  <2>2. QED
    BY <2>1
    DEF Effect, Quiet, Between, ByHook, AfterHook, Success, ByRoute, Opened,
        Unwritten, Fault, ExactlyOne, Recorded
<1>2. QED
  BY <1>1, TypeNext DEF ExactInv

(* Whatever recorders fail, a request that is answered with the provider's  *)
(* response or error has left a usage entry.                                *)
THEOREM Accounted == Spec => []AnsweredIsRecorded
<1>1. Init => AtLeastInv
  BY TypeInit DEF AtLeastInv, AtLeastOne, Recorded, Init
<1>2. AtLeastInv => AnsweredIsRecorded
  BY DEF AtLeastInv, AtLeastOne, AnsweredIsRecorded
<1>3. QED
  BY <1>1, <1>2, AtLeastNext, PTL DEF Spec

(* As long as no recorder fails, a request leaves exactly one usage entry,  *)
(* however many attempts it makes.                                          *)
THEOREM AccountedOnce ==
  ASSUME Faults = {}
  PROVE  Spec => []OneUsageEntryPerRequest
<1>1. Init => ExactInv
  BY TypeInit DEF ExactInv, ExactlyOne, Recorded, Init
<1>2. ExactInv => OneUsageEntryPerRequest
  BY DEF ExactInv, ExactlyOne, OneUsageEntryPerRequest
<1>3. QED
  BY <1>1, <1>2, ExactNext, PTL DEF Spec

LEMMA AtMostNext ==
  ASSUME "health" \notin Faults
  PROVE  AtMostInv /\ [Next]_vars => AtMostInv'
<1> SUFFICES ASSUME AtMostInv, [Next]_vars PROVE AtMostInv'
  OBVIOUS
<1>1. ASSUME NEW c \in Clients PROVE AtMostOne(c)'
  <2>1. Effect(c) /\ AtMostOne(c) /\ entries[c] \in Nat
    BY Effects DEF AtMostInv, TypeInv, TypeOK
  <2>2. QED
    BY <2>1
    DEF Effect, Quiet, Between, ByHook, AfterHook, Success, ByRoute, Opened,
        Unwritten, Fault, AtMostOne, Recorded
<1>2. QED
  BY <1>1, TypeNext DEF AtMostInv

(* app.ts:82-84, "single entry per logical request".  As long as health    *)
(* events can be written a request never leaves more than one usage entry,  *)
(* even if usage entries themselves cannot always be written: a health      *)
(* event that fails after the usage entry of a success is the one way to a  *)
(* second one.                                                              *)
THEOREM SingleEntry ==
  ASSUME "health" \notin Faults
  PROVE  Spec => []SingleUsageEntry
<1>1. Init => AtMostInv
  BY TypeInit DEF AtMostInv, AtMostOne, Recorded, Init
<1>2. AtMostInv => SingleUsageEntry
  <2> SUFFICES ASSUME AtMostInv, NEW c \in Clients PROVE entries[c] <= 1
    BY DEF SingleUsageEntry
  <2>1. AtMostOne(c)
    BY DEF AtMostInv
  <2>2. QED
    BY <2>1 DEF AtMostOne
<1>3. QED
  BY <1>1, <1>2, AtMostNext, PTL DEF Spec

-----------------------------------------------------------------------------
(* What the promises come to for a caller: a consequence of the abstract    *)
(* specification alone, whatever the executor does to keep it.              *)

AttemptsSound ==
  \A c \in Clients :
    /\ Len(attempted[c]) <= MaxAttempts
    /\ \A i, j \in 1 .. Len(attempted[c]) :
         attempted[c][i] = attempted[c][j] => i = j
    /\ \A i \in 1 .. Len(attempted[c]) : attempted[c][i] \notin excluded[c]

Phases == [c \in Clients |-> Phase(c)]

PromiseInv ==
  /\ attempted \in [Clients -> Seq(Keys)]
  /\ DOMAIN excluded = Clients
  /\ \A c \in Clients : Phases[c] # "open" => attempted[c] = <<>>
  /\ AttemptsSound

LEMMA PromiseInit == Log!Init => PromiseInv
<1> SUFFICES ASSUME Log!Init PROVE PromiseInv
  OBVIOUS
<1>1. attempted = [c \in Clients |-> <<>>] /\ excluded = [c \in Clients |-> {}]
  BY DEF Log!Init
<1>2. QED
  BY <1>1, KeyPoolAssumption DEF PromiseInv, AttemptsSound

LEMMA PromiseTry ==
  ASSUME PromiseInv, NEW c \in Clients, NEW k \in Keys, Log!Try(c, k)
  PROVE  PromiseInv'
<1>1. /\ Phases[c] = "open"
      /\ k \notin excluded[c] \cup Log!Range(attempted[c])
      /\ Len(attempted[c]) < MaxAttempts
      /\ attempted' = [attempted EXCEPT ![c] = Append(attempted[c], k)]
      /\ Phases' = Phases
      /\ excluded' = excluded
  BY DEF Log!Try, Phases
<1>2. attempted[c] \in Seq(Keys) /\ attempted \in [Clients -> Seq(Keys)]
  BY DEF PromiseInv
<1>3. /\ attempted'[c] = Append(attempted[c], k)
      /\ \A d \in Clients \ {c} : attempted'[d] = attempted[d]
      /\ attempted' \in [Clients -> Seq(Keys)]
  BY <1>1, <1>2
<1>4. /\ Len(attempted'[c]) = Len(attempted[c]) + 1
      /\ \A i \in 1 .. Len(attempted[c]) : attempted'[c][i] = attempted[c][i]
      /\ attempted'[c][Len(attempted[c]) + 1] = k
  BY <1>2, <1>3
<1>5. \A i \in 1 .. Len(attempted[c]) : attempted[c][i] # k
  BY <1>1, <1>2 DEF Log!Range
<1>6. /\ Len(attempted[c]) \in Nat
      /\ MaxAttempts \in Nat
      /\ \A i, j \in 1 .. Len(attempted[c]) : attempted[c][i] = attempted[c][j] => i = j
      /\ \A i \in 1 .. Len(attempted[c]) : attempted[c][i] \notin excluded[c]
  BY <1>2, KeyPoolAssumption DEF PromiseInv, AttemptsSound
<1>7. /\ Len(attempted'[c]) <= MaxAttempts
      /\ \A i, j \in 1 .. Len(attempted'[c]) :
           attempted'[c][i] = attempted'[c][j] => i = j
      /\ \A i \in 1 .. Len(attempted'[c]) : attempted'[c][i] \notin excluded'[c]
  <2> DEFINE n == Len(attempted[c])
  <2>1. \A i \in 1 .. Len(attempted'[c]) : i \in 1 .. n \/ i = n + 1
    BY <1>4, <1>6
  <2>2. Len(attempted'[c]) <= MaxAttempts
    BY <1>1, <1>4, <1>6
  <2>3. ASSUME NEW i \in 1 .. Len(attempted'[c]), NEW j \in 1 .. Len(attempted'[c]),
               attempted'[c][i] = attempted'[c][j]
        PROVE  i = j
    BY <2>1, <2>3, <1>4, <1>5, <1>6
  <2>4. ASSUME NEW i \in 1 .. Len(attempted'[c])
        PROVE  attempted'[c][i] \notin excluded'[c]
    BY <2>1, <1>1, <1>4, <1>6
  <2>5. QED
    BY <2>2, <2>3, <2>4
<1>8. AttemptsSound'
  BY <1>1, <1>3, <1>7 DEF AttemptsSound, PromiseInv
<1>9. \A d \in Clients : Phases'[d] # "open" => attempted'[d] = <<>>
  BY <1>1, <1>3 DEF PromiseInv
<1>10. QED
  BY <1>1, <1>3, <1>8, <1>9 DEF PromiseInv

LEMMA PromiseNext == PromiseInv /\ [Log!Next]_(Log!vars) => PromiseInv'
<1> SUFFICES ASSUME PromiseInv, [Log!Next]_(Log!vars) PROVE PromiseInv'
  OBVIOUS
<1>1. ASSUME NEW c \in Clients, NEW ex \in CallerExclusions, Log!Open(c, ex)
      PROVE  PromiseInv'
  <2>1. /\ Phases[c] # "open"
        /\ Phases' = [Phases EXCEPT ![c] = "open"]
        /\ excluded' = [excluded EXCEPT ![c] = ex]
        /\ attempted' = attempted
    BY <1>1 DEF Log!Open, Phases
  <2>2. attempted[c] = <<>> /\ Len(attempted[c]) = 0
    BY <2>1 DEF PromiseInv
  <2>3. DOMAIN Phases = Clients
    BY DEF Phases
  <2> HIDE DEF Phases
  <2>4. AttemptsSound'
    BY <2>1, <2>2 DEF PromiseInv, AttemptsSound
  <2>5. QED
    BY <2>1, <2>3, <2>4 DEF PromiseInv
<1>2. ASSUME NEW c \in Clients, NEW k \in Keys, Log!Try(c, k)
      PROVE  PromiseInv'
  BY <1>2, PromiseTry
<1>3. ASSUME NEW c \in Clients, Log!Fail(c)
      PROVE  PromiseInv'
  <2>1. Phases' = Phases /\ excluded' = excluded /\ attempted' = attempted
    BY <1>3 DEF Log!Fail, Phases
  <2>2. QED
    BY <2>1 DEF PromiseInv, AttemptsSound
<1>4. ASSUME NEW c \in Clients, Log!Close(c)
      PROVE  PromiseInv'
  <2>1. /\ Phases' = [Phases EXCEPT ![c] = "closed"]
        /\ excluded' = [excluded EXCEPT ![c] = {}]
        /\ attempted' = [attempted EXCEPT ![c] = <<>>]
    BY <1>4 DEF Log!Close, Phases
  <2>2. DOMAIN Phases = Clients
    BY DEF Phases
  <2>3. AttemptsSound'
    BY <2>1, KeyPoolAssumption DEF PromiseInv, AttemptsSound
  <2>4. QED
    BY <2>1, <2>2, <2>3 DEF PromiseInv
<1>5. CASE UNCHANGED Log!vars
  <2>1. Phases' = Phases /\ excluded' = excluded /\ attempted' = attempted
    BY <1>5 DEF Log!vars, Phases
  <2>2. QED
    BY <2>1 DEF PromiseInv, AttemptsSound
<1>6. QED
  BY <1>1, <1>2, <1>3, <1>4, <1>5 DEF Log!Next

(* Whoever keeps the promises of RequestLog sends a request with at most    *)
(* MaxAttempts keys, no key twice and none the caller excluded.             *)
THEOREM PromisesSound == Log!Safety => []AttemptsSound
<1>1. PromiseInv => AttemptsSound
  BY DEF PromiseInv
<1>2. QED
  BY <1>1, PromiseInit, PromiseNext, PTL DEF Log!Safety

(* provider-request-executor.ts:86-191.  So the executor does, however      *)
(* requests, recorder faults and the console overlap.                       *)
THEOREM AttemptsKept == Spec => []AttemptsSound
  BY KeepsPromises, PromisesSound, PTL

=============================================================================

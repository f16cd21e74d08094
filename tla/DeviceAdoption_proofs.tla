------------------------- MODULE DeviceAdoption_proofs -------------------------
(***************************************************************************)
(* Proofs about DeviceAdoption, for every configuration of the adoption's  *)
(* wait and any number of applies and of edits by the administrator.  Both *)
(* waits of a create run in RetryWait's variables, so RetryWait's own      *)
(* invariant is a part of this one and its step lemma does the work.       *)
(***************************************************************************)
EXTENDS DeviceAdoption, RetryWait_proofs

-----------------------------------------------------------------------------
(* The inductive invariant.                                                 *)

\* The controller reports only an adopted device Connected.
DeviceOK ==
  /\ adopted \in BOOLEAN /\ deviceState \in DeviceStates
  /\ deviceState = "target" => adopted

\* In the lookup: its wait is RetryContext's, a target it answered is a find in the captured
\* variable, and nil is returned for nothing less.
LookupOK ==
  step = "lookup" =>
    /\ conf = RetryConf /\ ~adopting
    /\ result.verdict = "done" => current
    /\ answer = "nil" => outcome = "value" /\ resultErr = "nil"

\* A device found and not adopted was not adopted since by anybody but the administrator, and
\* an adoption is asked for nothing else.
FindOK ==
  /\ step = "lookup" /\ current /\ ~seen.adopted => ~adopted \/ meddled
  /\ step = "adopt" => ~adopted \/ meddled
  /\ step = "adopt" => ~adopting

\* In the adoption's wait, what ended it as a success is what was last seen.
WaitedOK ==
  /\ step = "wait" => conf = AdoptConf
  /\ step = "wait" /\ result.answer = "target" => seen.state = "target" /\ seen.adopted
  /\ step = "send" /\ adopting => outcome = "value" /\ seen.state = "target" /\ seen.adopted

AdoptInv == WaitInv /\ DeviceOK /\ LookupOK /\ FindOK /\ WaitedOK

-----------------------------------------------------------------------------
(* The waits.                                                                *)

\* A wait begun anew starts in RetryWait's invariant, whatever became of the last one.
LEMMA WaitRestart ==
  ASSUME NEW c \in Confs, Wait(c), ctxDone' \in BOOLEAN
  PROVE  WaitInv' /\ conf' = c /\ result'.answer = "none" /\ result'.verdict = "more"
  <1>1. c.ContinuousTargetOccurence \in Nat \ {0} /\ c.NotFoundChecks \in Nat \ {0}
    BY WaitAssumption DEF Conf
  <1>2. 0 \in 0..c.ContinuousTargetOccurence /\ 0 \in 0..c.NotFoundChecks + 1
    BY <1>1
  <1>3. Zero \in Results /\ Zero.verdict = "more" /\ Zero.answer = "none"
    BY DEF Zero, Results
  <1>4. TypeOK'
    BY <1>2, <1>3, Zenon DEF Wait, TypeOK
  <1>5. LoopOK' /\ CountOK' /\ DeliveryOK' /\ CallerOK'
    BY <1>1, <1>3 DEF Wait, LoopOK, CountOK, DeliveryOK, CallerOK
  <1>6. NotFoundIsTolerated' /\ TimeoutIsHonest'
    BY <1>3 DEF Wait, NotFoundIsTolerated, TimeoutIsHonest
  <1> QED
    BY <1>3, <1>4, <1>5, <1>6 DEF WaitInv, Wait

\* What f answers is a refresh of the lookup's wait.
LEMMA CallRefreshes ==
  ASSUME NEW rerr \in {"nil", "retryable"}, Call(rerr)
  PROVE  \E a \in Answers : Refresh(a) /\ (a = "target" <=> rerr = "nil")
  <1>1. CASE rerr = "nil"
    BY <1>1 DEF Call, Answers
  <1>2. CASE rerr = "retryable"
    BY <1>2 DEF Call, Answers
  <1> QED
    BY <1>1, <1>2

\* Whatever the apply does, the wait's variables take a step of RetryWait, start over or
\* stay as they are.
LEMMA WaitPart ==
  ASSUME AdoptInv, [AdoptionNext]_adoptionVars
  PROVE  WaitInv'
  <1> USE DEF AdoptInv
  <1>1. ctxDone \in BOOLEAN
    BY DEF WaitInv, TypeOK
  <1>2. ASSUME NEW allowed \in BOOLEAN, StartCreate(allowed) PROVE WaitInv'
    BY <1>2, WaitRestart, AdoptionAssumption DEF StartCreate
  <1>3. ASSUME NEW rerr \in {"nil", "retryable"}, LookUp(rerr) PROVE WaitInv'
    BY <1>3, CallRefreshes, RefreshStep DEF LookUp
  <1>4. ASSUME NEW effect \in BOOLEAN, NEW answered \in BOOLEAN, Adopt(effect, answered)
        PROVE  WaitInv'
    BY <1>1, <1>4, WaitRestart, WaitStutters, AdoptionAssumption DEF Adopt
  <1>5. ASSUME NEW a \in Answers, Poll(a) PROVE WaitInv'
    BY <1>5, RefreshStep DEF Poll
  <1>6. CASE Clock
    BY <1>6, ScheduledStep, CallerStep DEF Clock
  <1>7. CASE Deadline
    BY <1>7, CallerStep DEF Deadline
  <1>8. CASE LookUpReturns
    BY <1>8, WaitStutters DEF LookUpReturns, Return
  <1>9. CASE LookedUp
    BY <1>9, WaitStutters DEF LookedUp, retryVars
  <1>10. CASE Waited
    BY <1>10, WaitStutters DEF Waited, retryVars
  <1>11. ASSUME NEW answered \in BOOLEAN, WriteFields(answered) PROVE WaitInv'
    BY <1>11, WaitStutters DEF WriteFields, retryVars
  <1>12. CASE Update
    BY <1>12, WaitStutters DEF Update, retryVars
  <1>13. CASE ReadDevice
    BY <1>13, WaitStutters DEF ReadDevice, retryVars
  <1>14. ASSUME NEW forget \in BOOLEAN, Destroy(forget) PROVE WaitInv'
    BY <1>14, WaitStutters DEF Destroy, retryVars
  <1>15. CASE Informs
    BY <1>15, WaitStutters DEF Informs, retryVars
  <1>16. CASE Meddle
    BY <1>16, WaitStutters DEF Meddle, retryVars
  <1>17. CASE UNCHANGED adoptionVars
    BY <1>17, WaitStutters DEF adoptionVars, retryVars
  <1> QED
    BY <1>2, <1>3, <1>4, <1>5, <1>6, <1>7, <1>8, <1>9, <1>10, <1>11, <1>12, <1>13, <1>14, <1>15,
       <1>16, <1>17 DEF AdoptionNext

-----------------------------------------------------------------------------
(* The apply and the device.                                                 *)

\* A success ended the loop with the target it asked for, and the loop is over.
LEMMA SuccessAnswered ==
  ASSUME WaitInv, outcome = "value", ~conf.TargetEmpty
  PROVE  result.answer = "target" /\ result.verdict = "done" /\ loop = "closed"
  BY DEF WaitInv, CallerOK, DeliveryOK, CountOK, Hit

\* The goroutine and the caller leave the configuration alone, and the result too.
LEMMA ClockKeeps ==
  ASSUME WaitInv, Scheduled \/ Awaiting \/ Timeout \/ GraceTimeout \/ Cancel
  PROVE  /\ UNCHANGED <<conf, result>>
         /\ outcome = "value" => outcome' = "value"
  BY DEF WaitInv, CallerOK, Scheduled, DelayOver, DelayCancelled, Send, PauseCancelled, PauseOver,
         Awaiting, Receive, ReceiveClosed, SeeCtxDone, Timeout, GraceTimeout, Cancel, ReturnAs,
         producer, caller, history

\* A refresh changes the result and the counters only.
LEMMA RefreshKeeps ==
  ASSUME WaitInv, NEW a \in Answers, Refresh(a)
  PROVE  /\ UNCHANGED <<conf, waiter, outcome, ctxDone>>
         /\ result.verdict = "more" /\ result'.answer = a /\ outcome # "value"
         /\ result'.verdict = "done" => a = (IF conf.TargetEmpty THEN "absent" ELSE "target")
  <1>1. loop = "refresh" /\ UNCHANGED <<conf, waiter, outcome, ctxDone>>
    BY DEF Refresh, caller
  <1>2. result'.answer = a /\ CountOK'
    BY Judged DEF WaitInv
  <1> QED
    BY <1>1, <1>2 DEF WaitInv, LoopOK, CallerOK, DeliveryOK, CountOK, Hit

\* Every step keeps what the controller knows of the device consistent.
LEMMA DeviceStep ==
  ASSUME DeviceOK, [AdoptionNext]_adoptionVars
  PROVE  DeviceOK'
  <1> USE DEF DeviceOK, DeviceStates, device, apply, rest
  <1>1. ASSUME NEW effect \in BOOLEAN, NEW answered \in BOOLEAN, Adopt(effect, answered)
        PROVE  DeviceOK'
    BY <1>1 DEF Adopt
  <1>2. ASSUME NEW forget \in BOOLEAN, Destroy(forget) PROVE DeviceOK'
    BY <1>2 DEF Destroy
  <1>3. CASE Informs
    BY <1>3 DEF Informs
  <1>4. CASE Meddle
    BY <1>4 DEF Meddle
  <1>5. CASE /\ ~Informs /\ ~Meddle /\ (\A forget \in BOOLEAN : ~Destroy(forget))
             /\ \A effect, answered \in BOOLEAN : ~Adopt(effect, answered)
    BY <1>5 DEF AdoptionNext, StartCreate, LookUp, LookUpReturns, LookedUp, Poll, Waited, Clock,
                Deadline, WriteFields, Update, ReadDevice, adoptionVars
  <1> QED
    BY <1>1, <1>2, <1>3, <1>4, <1>5

\* Every step of an apply, of the waits, of the device and of the administrator keeps what the
\* lookup, the adoption and its wait have found out.
LEMMA ApplyStep ==
  ASSUME AdoptInv, [AdoptionNext]_adoptionVars
  PROVE  LookupOK' /\ FindOK' /\ WaitedOK'
  <1> USE DEF AdoptInv, DeviceOK, LookupOK, FindOK, WaitedOK, device, apply, rest
  <1>1. ASSUME NEW allowed \in BOOLEAN, StartCreate(allowed)
        PROVE  LookupOK' /\ FindOK' /\ WaitedOK'
    <2>1. result'.verdict = "more" /\ conf' = RetryConf
      BY <1>1, WaitRestart, AdoptionAssumption DEF StartCreate
    <2> QED
      BY <1>1, <2>1 DEF StartCreate
  <1>2. ASSUME NEW rerr \in {"nil", "retryable"}, LookUp(rerr)
        PROVE  LookupOK' /\ FindOK' /\ WaitedOK'
    <2>1. PICK a \in Answers : Refresh(a) /\ (a = "target" <=> rerr = "nil")
      BY <1>2, CallRefreshes DEF LookUp
    <2>2. /\ conf' = RetryConf /\ outcome # "value" /\ UNCHANGED <<step, adopting, adopted, meddled>>
          /\ result'.verdict = "done" => a = "target"
      BY <1>2, <2>1, RefreshKeeps DEF LookUp, RetryConf
    <2>3. answer' # "nil" /\ step' = "lookup"
      BY <1>2, <2>2 DEF LookUp, Call
    <2>4. (rerr = "nil" => current') /\ (current' => current \/ rerr = "nil")
      BY <1>2, Zenon DEF LookUp, Call
    <2>5. seen' = (IF rerr = "nil" THEN Seen ELSE seen) /\ step = "lookup"
      BY <1>2 DEF LookUp
    <2>6. current' /\ ~seen'.adopted => ~adopted \/ meddled
      BY <2>4, <2>5 DEF Seen
    <2>7. LookupOK'
      BY <2>1, <2>2, <2>3, <2>4, <2>5
    <2> QED
      BY <2>2, <2>3, <2>6, <2>7
  <1>3. CASE LookUpReturns
    BY <1>3 DEF LookUpReturns, Return, vars, producer, caller
  <1>4. CASE LookedUp
    <2>1. answer = "nil" => current
      BY <1>4, SuccessAnswered DEF LookedUp, RetryConf
    <2> QED
      BY <1>4, <2>1 DEF LookedUp, retryVars, vars, producer, caller
  <1>5. ASSUME NEW effect \in BOOLEAN, NEW answered \in BOOLEAN, Adopt(effect, answered)
        PROVE  LookupOK' /\ FindOK' /\ WaitedOK'
    <2>1. CASE answered
      <3>1. ctxDone' \in BOOLEAN /\ Wait(AdoptConf)
        BY <1>5, <2>1 DEF Adopt, WaitInv, TypeOK
      <3>2. result'.answer = "none" /\ conf' = AdoptConf
        BY <3>1, WaitRestart, AdoptionAssumption
      <3> QED
        BY <1>5, <2>1, <3>2 DEF Adopt
    <2>2. CASE ~answered
      BY <1>5, <2>2 DEF Adopt
    <2> QED
      BY <2>1, <2>2
  <1>6. ASSUME NEW a \in Answers, Poll(a)
        PROVE  LookupOK' /\ FindOK' /\ WaitedOK'
    <2>1. result'.answer = a /\ conf' = AdoptConf
      BY <1>6, RefreshKeeps DEF Poll
    <2>2. a = "target" => informs /\ seen' = Seen /\ deviceState = "target"
      BY <1>6 DEF Poll
    <2> QED
      BY <1>6, <2>1, <2>2 DEF Poll, Seen
  <1>7. CASE Waited
    <2>1. outcome = "value" => seen.state = "target" /\ seen.adopted
      BY <1>7, SuccessAnswered, AdoptionAssumption DEF Waited
    <2> QED
      BY <1>7, <2>1 DEF Waited, retryVars, vars, producer, caller
  <1>8. CASE Clock \/ Deadline
    <2>1. /\ UNCHANGED <<conf, result>> /\ (outcome = "value" => outcome' = "value")
          /\ step \in {"lookup", "wait"}
      BY <1>8, ClockKeeps DEF Clock, Deadline
    <2> QED
      BY <1>8, <2>1 DEF Clock, Deadline
  <1>9. ASSUME NEW answered \in BOOLEAN, WriteFields(answered)
        PROVE  LookupOK' /\ FindOK' /\ WaitedOK'
    BY <1>9 DEF WriteFields
  <1>10. CASE Update
    BY <1>10 DEF Update
  <1>11. CASE ReadDevice
    BY <1>11 DEF ReadDevice
  <1>12. ASSUME NEW forget \in BOOLEAN, Destroy(forget)
         PROVE  LookupOK' /\ FindOK' /\ WaitedOK'
    BY <1>12 DEF Destroy
  <1>13. CASE Informs
    BY <1>13 DEF Informs, retryVars, vars, producer, caller
  <1>14. CASE Meddle
    BY <1>14 DEF Meddle, retryVars, vars, producer, caller
  <1>15. CASE UNCHANGED adoptionVars
    BY <1>15 DEF adoptionVars, retryVars, vars, producer, caller
  <1> QED
    BY <1>1, <1>2, <1>3, <1>4, <1>5, <1>6, <1>7, <1>8, <1>9, <1>10, <1>11, <1>12, <1>13, <1>14,
       <1>15 DEF AdoptionNext

-----------------------------------------------------------------------------
(* The theorems.                                                             *)

\* A first apply starts in the invariant.
LEMMA AdoptStart == AdoptionInit => AdoptInv
  <1> SUFFICES ASSUME AdoptionInit PROVE AdoptInv
    OBVIOUS
  <1>1. WaitInv
    BY WaitStart DEF AdoptionInit, RetryInit
  <1>2. DeviceOK
    BY DEF AdoptionInit, DeviceOK
  <1>3. LookupOK /\ FindOK /\ WaitedOK
    BY DEF AdoptionInit, LookupOK, FindOK, WaitedOK
  <1> QED
    BY <1>1, <1>2, <1>3 DEF AdoptInv

\* The inductive invariant of an adoption, RetryWait's included, holds throughout.
THEOREM AdoptInductive == AdoptionSpec => []AdoptInv
  <1>1. AdoptInv /\ [AdoptionNext]_adoptionVars => AdoptInv'
    <2> SUFFICES ASSUME AdoptInv, [AdoptionNext]_adoptionVars PROVE AdoptInv'
      OBVIOUS
    <2>1. DeviceOK'
      BY DeviceStep DEF AdoptInv
    <2> QED
      BY <2>1, WaitPart, ApplyStep DEF AdoptInv
  <1> QED
    BY <1>1, AdoptStart, PTL DEF AdoptionSpec

\* When RetryContext returns nil, f has stored its find, and the goroutine that calls f is over:
\* the caller reads the captured variable with nobody writing it (wait.go, device_descriptor.go).
THEOREM FindIsSafe == AdoptionSpec => []FoundIsSafeToUse
  <1>1. AdoptInv => FoundIsSafeToUse
    <2>1. AdoptInv /\ step = "lookup" /\ answer = "nil" => outcome = "value" /\ ~conf.TargetEmpty
      BY DEF AdoptInv, LookupOK, RetryConf
    <2> QED
      BY <2>1, SuccessAnswered DEF AdoptInv, LookupOK, FoundIsSafeToUse, NilIsSafeToUse
  <1> QED
    BY <1>1, AdoptInductive, PTL

\* A device adopted by a create is written to only after the controller reported it Connected,
\* under the id the write names, however the waits, the device and the administrator interleave.
THEOREM WrittenOnlyConnected == AdoptionSpec => []ConnectedBeforeWritten
  <1>1. AdoptInv => ConnectedBeforeWritten
    BY DEF AdoptInv, WaitedOK, ConnectedBeforeWritten
  <1> QED
    BY <1>1, AdoptInductive, PTL

\* No create asks the controller to adopt what an earlier, half failed create adopted already.
THEOREM AdoptedOnce == AdoptionSpec => NeverAdoptedTwice
  <1>1. AdoptInv => \A e, a \in BOOLEAN : Adopt(e, a) => ~adopted \/ meddled
    BY DEF AdoptInv, FindOK, Adopt
  <1>2. []AdoptInv => [][\A e, a \in BOOLEAN : Adopt(e, a) => ~adopted \/ meddled]_adoptionVars
    BY <1>1, PTL
  <1> QED
    BY <1>2, AdoptInductive, PTL DEF NeverAdoptedTwice

=============================================================================

--------------------------- MODULE RetryWait_proofs ---------------------------
(***************************************************************************)
(* Proofs about RetryWait, for every set of configurations: any number of  *)
(* target occurrences and of tolerated absences, waiting for a state or    *)
(* for an absence, with and without Pending states.                        *)
(***************************************************************************)
EXTENDS RetryWait, TLAPS

-----------------------------------------------------------------------------
(* The inductive invariant.                                                 *)

\* A judgement other than "more" ends the loop, and nothing else leads to the last send.
LoopOK ==
  /\ loop = "final" => result.verdict # "more"
  /\ result.verdict # "more" => loop \in {"final", "closed"}
  /\ loop = "closed" /\ result.verdict = "more" => cancelCh

\* The counters of the loop count what the history counts, and a loop that goes on has not
\* reached either limit.
CountOK ==
  /\ hits = targetOccurence
  /\ conf.TargetEmpty /\ ~conf.PendingEmpty /\ result.verdict # "fail" => row = targetOccurence
  /\ result.verdict = "done" => row > 0
  /\ conf.TargetEmpty => notfoundTick = 0
  /\ result.verdict = "more" =>
       /\ targetOccurence < conf.ContinuousTargetOccurence
       /\ notfoundTick <= conf.NotFoundChecks
       /\ ~conf.TargetEmpty => notfoundTick = absences
  /\ result.verdict = "done" => Hit(result.answer) /\ hits = conf.ContinuousTargetOccurence

\* A judged result is on its way, in the channel or with the caller, and is the loop's last.
DeliveryOK ==
  /\ resCh # None /\ resCh.verdict # "more" => loop = "closed" /\ resCh = result
  /\ lastResult.verdict # "more" => loop = "closed" /\ resCh = None /\ lastResult = result
  /\ loop = "closed" /\ result.verdict # "more" => resCh = result \/ lastResult = result

\* What the caller knows when it waits, and when it returns.
CallerOK ==
  /\ outcome = "running" <=> waiter # "returned"
  /\ waiter = "wait" => ~cancelCh
  /\ waiter # "returned" => lastResult.verdict # "done"
  /\ outcome = "value" => lastResult.verdict = "done"
  /\ outcome = "timeout" /\ ~graceOver /\ ~ctxDone => loop = "closed"

WaitInv ==
  /\ TypeOK /\ LoopOK /\ CountOK /\ DeliveryOK /\ CallerOK
  /\ NotFoundIsTolerated /\ TimeoutIsHonest

-----------------------------------------------------------------------------
(* What the loop makes of an answer.                                        *)

\* The values results and channels range over.
LEMMA ResultType ==
  ASSUME NEW a \in Answers, NEW verdict \in {"more", "done", "fail"}
  PROVE  [answer |-> a, verdict |-> verdict] \in Results /\ Zero \in Results
  BY DEF Results, Zero

\* An answer keeps both counters within the limits of the configuration.
LEMMA CountersType ==
  ASSUME TypeOK, LoopOK, CountOK, NEW a \in Answers, Refresh(a)
  PROVE  /\ targetOccurence' \in 0..conf.ContinuousTargetOccurence
         /\ notfoundTick' \in 0..conf.NotFoundChecks + 1
         /\ hits' = targetOccurence' /\ absences' \in 0..conf.NotFoundChecks + 1
         /\ row' \in 0..conf.ContinuousTargetOccurence /\ (Hit(a) => row' > 0)
  <1>1. /\ conf.ContinuousTargetOccurence \in Nat \ {0} /\ conf.NotFoundChecks \in Nat \ {0}
        /\ conf.TargetEmpty \in BOOLEAN /\ conf' = conf
    BY WaitAssumption DEF TypeOK, Conf, Refresh
  <1>2. result.verdict = "more"
    BY DEF Refresh, LoopOK, TypeOK, Results
  <1>3. /\ targetOccurence < conf.ContinuousTargetOccurence /\ hits = targetOccurence
        /\ notfoundTick <= conf.NotFoundChecks
    BY <1>2 DEF CountOK
  <1> QED
    BY <1>1, <1>3 DEF Refresh, Remember, Counted, Ticked, TypeOK

\* Every way a refresh is judged, with the state of the counters that goes with it.
LEMMA Judged ==
  ASSUME TypeOK, LoopOK, CountOK, NEW a \in Answers, Refresh(a)
  PROVE  /\ result' \in Results /\ result'.answer = a
         /\ \/ loop' = "send" /\ result'.verdict = "more"
            \/ loop' = "final" /\ result'.verdict \in {"done", "fail"}
         /\ CountOK'
         /\ result'.verdict = "fail" /\ a = "absent" => absences' > conf.NotFoundChecks
  <1> DEFINE r(v) == [answer |-> a, verdict |-> v]
  <1>1. /\ conf.ContinuousTargetOccurence \in Nat \ {0} /\ conf.NotFoundChecks \in Nat \ {0}
        /\ conf.TargetEmpty \in BOOLEAN /\ conf' = conf
    BY WaitAssumption DEF TypeOK, Conf, Refresh
  <1>2. /\ result.verdict = "more" /\ targetOccurence < conf.ContinuousTargetOccurence
        /\ notfoundTick <= conf.NotFoundChecks /\ (~conf.TargetEmpty => notfoundTick = absences)
        /\ (conf.TargetEmpty => notfoundTick = 0)
    BY DEF Refresh, LoopOK, CountOK, TypeOK, Results
  <1>3. /\ targetOccurence' \in 0..conf.ContinuousTargetOccurence
        /\ notfoundTick' \in 0..conf.NotFoundChecks + 1
        /\ hits' = targetOccurence' /\ absences' \in 0..conf.NotFoundChecks + 1
        /\ row' \in 0..conf.ContinuousTargetOccurence /\ (Hit(a) => row' > 0)
    BY CountersType
  <1>4. /\ targetOccurence' = Counted(a) /\ notfoundTick' = Ticked(a)
        /\ absences' = IF a # "absent" THEN 0
                       ELSE IF absences <= conf.NotFoundChecks THEN absences + 1 ELSE absences
    BY DEF Refresh, Remember
  <1>5. conf.TargetEmpty => Ticked(a) = 0
    BY <1>2 DEF Ticked
  <1>6. ~conf.TargetEmpty /\ a # "error" => Ticked(a) = absences'
    BY <1>1, <1>2, <1>4 DEF Ticked, TypeOK
  <1>row. conf.TargetEmpty /\ ~conf.PendingEmpty /\ a \notin {"error", "other"} => row' = Counted(a)
    <2>1. conf.TargetEmpty /\ ~conf.PendingEmpty => row = targetOccurence
      BY <1>2 DEF CountOK
    <2> QED
      BY <1>1, <1>2, <2>1 DEF Refresh, Remember, Counted, Hit, TypeOK, Answers
  <1>7. CASE a = "error"
    <2>1. loop' = "final" /\ result' = r("fail")
      BY <1>7 DEF Refresh, Finish
    <2> QED
      BY <1>1, <1>3, <1>4, <1>5, <1>7, <2>1, ResultType DEF CountOK
  <1>8. CASE a # "error" /\ Reached(a)
    <2>1. loop' = "final" /\ result' = r("done")
      BY <1>8 DEF Refresh, Finish
    <2>2. Hit(a)' /\ hits' = conf.ContinuousTargetOccurence
      BY <1>1, <1>3, <1>4, <1>8 DEF Reached, Hit
    <2> QED
      BY <1>1, <1>3, <1>4, <1>5, <1>8, <1>row, <2>1, <2>2, ResultType DEF CountOK, Hit, Reached
  <1>9. CASE a # "error" /\ ~Reached(a) /\ Ticked(a) > conf.NotFoundChecks
    <2>1. loop' = "final" /\ result' = r("fail")
      BY <1>9 DEF Refresh, Finish
    <2>2. absences' > conf.NotFoundChecks
      BY <1>1, <1>5, <1>6, <1>9
    <2> QED
      BY <1>1, <1>3, <1>4, <1>5, <2>1, <2>2, ResultType DEF CountOK
  <1>10. CASE /\ a = "other" /\ ~conf.PendingEmpty
              /\ ~Reached(a) /\ ~(Ticked(a) > conf.NotFoundChecks)
    <2>1. loop' = "final" /\ result' = r("fail")
      BY <1>10 DEF Refresh, Finish
    <2> QED
      BY <1>1, <1>3, <1>4, <1>5, <1>10, <2>1, ResultType DEF CountOK
  <1>11. CASE /\ a # "error" /\ ~Reached(a) /\ ~(Ticked(a) > conf.NotFoundChecks)
              /\ ~(a = "other" /\ ~conf.PendingEmpty)
    <2>1. loop' = "send" /\ result' = r("more")
      BY <1>11 DEF Refresh, Continue
    <2>2. targetOccurence' < conf.ContinuousTargetOccurence
      BY <1>1, <1>2, <1>3, <1>4, <1>11 DEF Reached, Counted, TypeOK
    <2>3. notfoundTick' <= conf.NotFoundChecks
      BY <1>1, <1>3, <1>4, <1>11
    <2> QED
      BY <1>1, <1>3, <1>4, <1>5, <1>6, <1>11, <1>row, <2>1, <2>2, <2>3, ResultType DEF CountOK
  <1> QED
    BY <1>7, <1>8, <1>9, <1>10, <1>11

-----------------------------------------------------------------------------
(* Every step preserves the invariant.                                       *)

\* A wait starts in the invariant.
LEMMA WaitStart == Init => WaitInv
  <1> SUFFICES ASSUME Init PROVE WaitInv
    OBVIOUS
  <1>1. conf.ContinuousTargetOccurence \in Nat \ {0} /\ conf.NotFoundChecks \in Nat \ {0}
    BY WaitAssumption DEF Init, Conf
  <1>2. Zero \in Results /\ Zero.verdict = "more"
    BY DEF Zero, Results
  <1>3. TypeOK
    <2>1. /\ 0 \in 0..conf.ContinuousTargetOccurence
          /\ 0 \in 0..conf.NotFoundChecks + 1
      BY <1>1
    <2> QED
      BY <1>2, <2>1, Zenon DEF Init, TypeOK
  <1>4. LoopOK /\ CountOK /\ DeliveryOK /\ CallerOK
    BY <1>1, <1>2 DEF Init, LoopOK, CountOK, DeliveryOK, CallerOK
  <1>5. NotFoundIsTolerated /\ TimeoutIsHonest
    BY <1>2 DEF Init, NotFoundIsTolerated, TimeoutIsHonest
  <1> QED
    BY <1>3, <1>4, <1>5 DEF WaitInv

\* What the goroutine does on its own, without asking Refresh.
LEMMA ScheduledStep ==
  ASSUME WaitInv, Scheduled
  PROVE  WaitInv'
  <1> USE DEF WaitInv, TypeOK, LoopOK, CountOK, DeliveryOK, CallerOK, NotFoundIsTolerated,
              TimeoutIsHonest, Hit, caller, history
  <1>1. CASE DelayOver
    BY <1>1 DEF DelayOver
  <1>2. CASE DelayCancelled
    BY <1>2 DEF DelayCancelled
  <1>3. CASE Send
    <2>1. result.verdict = "more" <=> loop = "send"
      BY <1>3 DEF Send
    <2>2. lastResult.verdict = "more" /\ result # None
      BY <1>3, NoneAssumption DEF Send
    <2> QED
      BY <1>3, <2>1, <2>2 DEF Send
  <1>4. CASE PauseCancelled
    BY <1>4 DEF PauseCancelled
  <1>5. CASE PauseOver
    BY <1>5 DEF PauseOver
  <1> QED
    BY <1>1, <1>2, <1>3, <1>4, <1>5 DEF Scheduled

\* An answer of Refresh, and its judgement.
LEMMA RefreshStep ==
  ASSUME WaitInv, NEW a \in Answers, Refresh(a)
  PROVE  WaitInv'
  <1> USE DEF WaitInv
  <1>1. /\ result' \in Results /\ result'.answer = a /\ CountOK'
        /\ \/ loop' = "send" /\ result'.verdict = "more"
           \/ loop' = "final" /\ result'.verdict \in {"done", "fail"}
        /\ result'.verdict = "fail" /\ a = "absent" => absences' > conf.NotFoundChecks
    BY Judged
  <1>2. /\ loop = "refresh" /\ conf' = conf
        /\ UNCHANGED <<unpaused, resCh, cancelCh, ctxDone, waiter, lastResult, outcome, graceOver>>
    BY DEF Refresh, caller
  <1>3. /\ result.verdict = "more" /\ lastResult.verdict = "more"
        /\ outcome # "timeout" \/ graceOver \/ ctxDone
    BY <1>2 DEF LoopOK, DeliveryOK, CallerOK
  <1>4. TypeOK'
    BY <1>1, <1>2, CountersType DEF TypeOK
  <1>5. LoopOK' /\ NotFoundIsTolerated'
    BY <1>1, <1>2 DEF LoopOK, NotFoundIsTolerated
  <1>6. DeliveryOK' /\ CallerOK' /\ TimeoutIsHonest'
    BY <1>1, <1>2 DEF DeliveryOK, LoopOK, CallerOK, TimeoutIsHonest
  <1> QED
    BY <1>1, <1>4, <1>5, <1>6

\* What the caller does.
LEMMA CallerStep ==
  ASSUME WaitInv, Awaiting \/ Timeout \/ GraceTimeout \/ Cancel
  PROVE  WaitInv'
  <1> USE DEF WaitInv, TypeOK, LoopOK, CountOK, DeliveryOK, CallerOK, NotFoundIsTolerated,
              TimeoutIsHonest, Hit, ReturnAs, producer, caller, history
  <1>1. CASE Receive
    <2>1. resCh \in Results
      BY <1>1 DEF Receive
    <2>2. CASE resCh.verdict = "done"
      BY <1>1, <2>1, <2>2, NoneAssumption DEF Receive
    <2>3. CASE resCh.verdict # "done"
      BY <1>1, <2>1, <2>3, NoneAssumption DEF Receive
    <2> QED
      BY <2>2, <2>3
  <1>2. CASE ReceiveClosed
    <2>1. CASE waiter = "grace"
      BY <1>2, <2>1, NoneAssumption DEF ReceiveClosed
    <2>2. CASE waiter = "wait"
      <3>1. lastResult.verdict = "fail"
        BY <1>2, <2>2, NoneAssumption DEF ReceiveClosed, Results
      <3> QED
        BY <1>2, <2>2, <3>1 DEF ReceiveClosed
    <2> QED
      BY <1>2, <2>1, <2>2 DEF ReceiveClosed
  <1>3. CASE SeeCtxDone
    BY <1>3 DEF SeeCtxDone
  <1>4. CASE Timeout
    BY <1>4 DEF Timeout
  <1>5. CASE GraceTimeout
    BY <1>5 DEF GraceTimeout
  <1>6. CASE Cancel
    BY <1>6 DEF Cancel
  <1> QED
    BY <1>1, <1>2, <1>3, <1>4, <1>5, <1>6 DEF Awaiting

\* A step in which the wait does not take part.
LEMMA WaitStutters ==
  ASSUME WaitInv, UNCHANGED vars
  PROVE  WaitInv'
  BY DEF WaitInv, TypeOK, LoopOK, CountOK, DeliveryOK, CallerOK, NotFoundIsTolerated,
         TimeoutIsHonest, Hit, vars, producer, caller, history

\* Every step of a wait preserves the invariant.
LEMMA WaitStep ==
  ASSUME WaitInv, [Next]_vars
  PROVE  WaitInv'
  BY ScheduledStep, RefreshStep, CallerStep, WaitStutters DEF Next, Refreshed

\* The invariant says of a success what SuccessIsEarned says.
LEMMA EarnedFromInv == WaitInv => SuccessIsEarned
  BY DEF WaitInv, TypeOK, LoopOK, CountOK, DeliveryOK, CallerOK, SuccessIsEarned, Results, Hit

-----------------------------------------------------------------------------
(* The theorems.                                                             *)

\* The inductive invariant holds of every wait, however it is configured.
THEOREM WaitInductive == Spec => []WaitInv
  <1>1. WaitInv /\ [Next]_vars => WaitInv'
    BY WaitStep
  <1> QED
    BY <1>1, WaitStart, PTL DEF Spec

\* The counters of every wait stay within its limits, and results within their kind.
THEOREM TypeCorrect == Spec => []TypeOK
  <1>1. WaitInv => TypeOK
    BY DEF WaitInv
  <1> QED
    BY <1>1, WaitInductive, PTL

\* A wait never takes anything for a success that Refresh did not answer as often as was asked
\* since the last pending state (in a row, where once is enough or an absence is awaited with
\* Pending states): no closed channel, late result or cancelled loop (state.go, the counters
\* and the return on !ok).
THEOREM SuccessEarned == Spec => []SuccessIsEarned
  BY EarnedFromInv, WaitInductive, PTL

\* A wait never gives up on a missing object before more than NotFoundChecks absences in a row.
THEOREM NotFoundTolerated == Spec => []NotFoundIsTolerated
  <1>1. WaitInv => NotFoundIsTolerated
    BY DEF WaitInv
  <1> QED
    BY <1>1, WaitInductive, PTL

\* A TimeoutError never hides a target that was reached, the grace period and cancellation
\* aside: what the loop sent last is always received first.
THEOREM TimeoutHonest == Spec => []TimeoutIsHonest
  <1>1. WaitInv => TimeoutIsHonest
    BY DEF WaitInv
  <1> QED
    BY <1>1, WaitInductive, PTL

=============================================================================

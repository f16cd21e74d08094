------------------------------- MODULE RetryWait -------------------------------
(***************************************************************************)
(* StateChangeConf.WaitForStateContext (unifi/util/retry/state.go): a      *)
(* goroutine that refreshes and reports, a caller that waits, and between  *)
(* them a channel of one result and the closing of cancelCh.               *)
(*                                                                         *)
(* Durations are left out: a timer may fire at any time after it is set.   *)
(* What Refresh answers is one of Answers; nothing bounds how often it is  *)
(* called, and nothing needs to, for the counters stop by themselves.      *)
(***************************************************************************)
EXTENDS Naturals

CONSTANTS
  Confs,  \* the StateChangeConfs waited with, their defaults filled in
  None    \* nothing to receive

\* TargetEmpty: no Target, the wait is for the absence of a thing.  PendingEmpty: no Pending,
\* any state is allowed.
Conf == [ContinuousTargetOccurence : Nat \ {0}, NotFoundChecks : Nat \ {0},
         TargetEmpty : BOOLEAN, PendingEmpty : BOOLEAN]

ASSUME WaitAssumption == Confs \subseteq Conf

\* An error, a nil result, a Target state, a Pending one, and one that is neither.
Answers == {"error", "absent", "other", "target", "pending"}

\* A Result: the answer ("none" before the first), and whether it is Done or carries an Error.
Results == [answer : Answers \cup {"none"}, verdict : {"more", "done", "fail"}]

ASSUME NoneAssumption == None \notin Results

VARIABLES
  conf,            \* what WaitForStateContext was called with
  loop,            \* the goroutine: delay, send, pause, refresh, final (the last send), closed
  result,          \* the Result it holds
  targetOccurence, notfoundTick,
  unpaused,        \* its next pause is the first, of no duration
  resCh,           \* the channel of one
  cancelCh,        \* TRUE once closed
  ctxDone,         \* the caller's context is cancelled
  waiter,          \* the caller: wait, grace, returned
  lastResult,
  outcome,         \* how WaitForStateContext returned: running, value, error, ctx, timeout
  graceOver,       \* history: the refresh grace period ran out
  hits, row,       \* history: target answers since the last pending one; target answers in a row
  absences         \* history: absent answers in a row

producer == <<loop, result, targetOccurence, notfoundTick, unpaused>>
caller   == <<waiter, lastResult, outcome, graceOver>>
history  == <<hits, row, absences>>
vars     == <<conf, producer, resCh, cancelCh, ctxDone, caller, history>>

Zero == [answer |-> "none", verdict |-> "more"]

TypeOK ==
  /\ conf \in Confs
  /\ loop \in {"delay", "send", "pause", "refresh", "final", "closed"}
  /\ result \in Results /\ lastResult \in Results /\ resCh \in Results \cup {None}
  /\ targetOccurence \in 0..conf.ContinuousTargetOccurence
  /\ notfoundTick \in 0..conf.NotFoundChecks + 1
  /\ unpaused \in BOOLEAN /\ cancelCh \in BOOLEAN /\ ctxDone \in BOOLEAN /\ graceOver \in BOOLEAN
  /\ waiter \in {"wait", "grace", "returned"}
  /\ outcome \in {"running", "value", "error", "ctx", "timeout"}
  /\ hits \in 0..conf.ContinuousTargetOccurence /\ row \in 0..conf.ContinuousTargetOccurence
  /\ absences \in 0..conf.NotFoundChecks + 1

Init ==
  /\ conf \in Confs
  /\ loop = "delay" /\ result = Zero /\ targetOccurence = 0 /\ notfoundTick = 0 /\ unpaused = TRUE
  /\ resCh = None /\ cancelCh = FALSE /\ ctxDone = FALSE
  /\ waiter = "wait" /\ lastResult = Zero /\ outcome = "running" /\ graceOver = FALSE
  /\ hits = 0 /\ row = 0 /\ absences = 0

-----------------------------------------------------------------------------
(* The goroutine.                                                           *)

\* select on the delay and cancelCh: either may be taken once both are ready.
DelayOver ==
  /\ loop = "delay"
  /\ loop' = "send"
  /\ UNCHANGED <<conf, result, targetOccurence, notfoundTick, unpaused, resCh, cancelCh, ctxDone,
                 caller, history>>

DelayCancelled ==
  /\ loop = "delay" /\ cancelCh
  /\ loop' = "closed"
  /\ UNCHANGED <<conf, result, targetOccurence, notfoundTick, unpaused, resCh, cancelCh, ctxDone,
                 caller, history>>

\* resCh <- result, which waits for room and for nothing else; the last one is followed by
\* the return, and the return by the close.
Send ==
  /\ loop \in {"send", "final"} /\ resCh = None
  /\ resCh' = result
  /\ loop' = IF loop = "final" THEN "closed" ELSE "pause"
  /\ UNCHANGED <<conf, result, targetOccurence, notfoundTick, unpaused, cancelCh, ctxDone,
                 caller, history>>

PauseCancelled ==
  /\ loop = "pause" /\ cancelCh
  /\ loop' = "closed"
  /\ UNCHANGED <<conf, result, targetOccurence, notfoundTick, unpaused, resCh, cancelCh, ctxDone,
                 caller, history>>

\* time.After(wait): against a closed cancelCh only the first pause, of no duration, can win.
PauseOver ==
  /\ loop = "pause" /\ (unpaused \/ ~cancelCh)
  /\ loop' = "refresh" /\ unpaused' = FALSE
  /\ UNCHANGED <<conf, result, targetOccurence, notfoundTick, resCh, cancelCh, ctxDone,
                 caller, history>>

\* A refresh that ends the loop, and one that does not.
Finish(a, verdict) == loop' = "final" /\ result' = [answer |-> a, verdict |-> verdict]
Continue(a)        == loop' = "send" /\ result' = [answer |-> a, verdict |-> "more"]

\* What is waited for: a Target state, or nothing at all.
Hit(a) == a = (IF conf.TargetEmpty THEN "absent" ELSE "target")

\* Mutant of Counted: a pending state does not start the count over.
CountedForever(a) == IF Hit(a) THEN targetOccurence + 1 ELSE targetOccurence

\* targetOccurence after answer a: a hit counts, a pending state starts over, and anything
\* else leaves it.
Counted(a) ==
  IF Hit(a) THEN targetOccurence + 1 ELSE IF a = "pending" THEN 0 ELSE targetOccurence

\* Mutant of Reached: the count is compared before it is stepped.
ReachedLate(a) == Hit(a) /\ targetOccurence = conf.ContinuousTargetOccurence

\* The target occurred as often as asked.
Reached(a) == Hit(a) /\ Counted(a) = conf.ContinuousTargetOccurence

\* Mutant of Ticked: an object that shows up again does not clear the not-found count.
TickedForever(a) == IF a = "absent" /\ ~conf.TargetEmpty THEN notfoundTick + 1 ELSE notfoundTick

\* notfoundTick after answer a: absences in a row, where absence is not the target.
Ticked(a) ==
  IF a = "absent" THEN IF conf.TargetEmpty THEN notfoundTick ELSE notfoundTick + 1
  ELSE IF a = "error" THEN notfoundTick ELSE 0

\* What the properties count, capped like the counters.
Remember(a) ==
  /\ hits' = IF Hit(a) /\ hits < conf.ContinuousTargetOccurence THEN hits + 1
             ELSE IF a = "pending" THEN 0 ELSE hits
  /\ row' = IF ~Hit(a) THEN 0
            ELSE IF row < conf.ContinuousTargetOccurence THEN row + 1 ELSE row
  /\ absences' = IF a # "absent" THEN 0
                 ELSE IF absences <= conf.NotFoundChecks THEN absences + 1 ELSE absences

\* conf.Refresh() and the judgement of what it answers.
Refresh(a) ==
  /\ loop = "refresh"
  /\ a = "target" => ~conf.TargetEmpty
  /\ a = "pending" => ~conf.PendingEmpty
  /\ targetOccurence' = Counted(a) /\ notfoundTick' = Ticked(a)
  /\ IF a = "error" THEN Finish(a, "fail")
     ELSE IF Reached(a) THEN Finish(a, "done")
     ELSE IF Ticked(a) > conf.NotFoundChecks THEN Finish(a, "fail")
     ELSE IF a = "other" /\ ~conf.PendingEmpty THEN Finish(a, "fail")
     ELSE Continue(a)
  /\ Remember(a)
  /\ UNCHANGED <<conf, unpaused, resCh, cancelCh, ctxDone, caller>>

-----------------------------------------------------------------------------
(* The caller.                                                              *)

ReturnAs(o) == waiter' = "returned" /\ outcome' = o

\* case r := <-resCh, in the loop and in the grace period: a Done result is returned, any
\* other is kept.
Receive ==
  /\ waiter \in {"wait", "grace"} /\ resCh # None
  /\ resCh' = None
  /\ IF resCh.verdict = "done"
     THEN ReturnAs("value") /\ lastResult' = resCh
     ELSE lastResult' = resCh /\ UNCHANGED <<waiter, outcome>>
  /\ UNCHANGED <<conf, producer, cancelCh, ctxDone, graceOver, history>>

\* The channel is closed and drained: the last result decides, or the timeout stands.
ReceiveClosed ==
  /\ waiter \in {"wait", "grace"} /\ resCh = None /\ loop = "closed"
  /\ ReturnAs(IF waiter = "grace" THEN "timeout"
              ELSE IF lastResult.verdict = "fail" THEN "error" ELSE "value")
  /\ UNCHANGED <<conf, producer, resCh, cancelCh, ctxDone, lastResult, graceOver, history>>

\* case <-ctx.Done(): close(cancelCh) and return; the grace period is abandoned.
SeeCtxDone ==
  /\ waiter \in {"wait", "grace"} /\ ctxDone
  /\ cancelCh' = TRUE
  /\ ReturnAs(IF waiter = "grace" THEN "timeout" ELSE "ctx")
  /\ UNCHANGED <<conf, producer, resCh, ctxDone, lastResult, graceOver, history>>

\* Mutant of Timeout: no grace period.
TimeoutReturns ==
  /\ waiter = "wait"
  /\ cancelCh' = TRUE /\ ReturnAs("timeout")
  /\ UNCHANGED <<conf, producer, resCh, ctxDone, lastResult, graceOver, history>>

\* case <-timeout: close(cancelCh), and listen on for the grace period.
Timeout ==
  /\ waiter = "wait"
  /\ cancelCh' = TRUE /\ waiter' = "grace"
  /\ UNCHANGED <<conf, producer, resCh, ctxDone, lastResult, outcome, graceOver, history>>

\* Mutant of GraceTimeout: the grace period has no timer.
GraceWithoutTimer == FALSE /\ UNCHANGED vars

\* The grace period ends.
GraceTimeout ==
  /\ waiter = "grace"
  /\ graceOver' = TRUE /\ ReturnAs("timeout")
  /\ UNCHANGED <<conf, producer, resCh, cancelCh, ctxDone, lastResult, history>>

\* The caller of WaitForStateContext cancels, or its deadline passes.
Cancel ==
  /\ ~ctxDone
  /\ ctxDone' = TRUE
  /\ UNCHANGED <<conf, producer, resCh, cancelCh, caller, history>>

Scheduled == DelayOver \/ DelayCancelled \/ Send \/ PauseCancelled \/ PauseOver
Refreshed == \E a \in Answers : Refresh(a)
Awaiting  == Receive \/ ReceiveClosed \/ SeeCtxDone

Next == Scheduled \/ Refreshed \/ Awaiting \/ Timeout \/ GraceTimeout \/ Cancel

Spec == Init /\ [][Next]_vars

\* Goroutines are scheduled and timers fire; a Refresh may hang for ever.
FairSpec == Spec /\ WF_vars(Scheduled) /\ WF_vars(Awaiting)
                 /\ WF_vars(Timeout) /\ WF_vars(GraceTimeout)

\* And with a Refresh that always answers.
AnsweringSpec == FairSpec /\ WF_vars(Refreshed)

-----------------------------------------------------------------------------
(* Properties.                                                              *)

\* A wait that succeeds was earned: Refresh answered the target as often as asked since the
\* last pending state, the last time included, and a closed channel is never taken for a
\* success.  (state.go, the counters of the loop and the return on !ok.)  "Continuously"
\* (state.go:31) it occurred where once is enough, as in every wait of the provider, and in a
\* wait for an absence with Pending states.  Elsewhere the code lets an absence, or with no
\* Pending any other state, fall between two targets without starting the count over.
SuccessIsEarned ==
  outcome = "value" =>
    /\ lastResult.verdict = "done" /\ Hit(lastResult.answer)
    /\ hits = conf.ContinuousTargetOccurence
    /\ conf.ContinuousTargetOccurence = 1 \/ (conf.TargetEmpty /\ ~conf.PendingEmpty)
         => row = conf.ContinuousTargetOccurence

\* A wait gives up on a missing object only after more than NotFoundChecks absences in a row.
NotFoundIsTolerated ==
  result.verdict = "fail" /\ result.answer = "absent" => absences > conf.NotFoundChecks

\* A timeout never hides a target that was reached: unless the grace period ran out or the
\* context was cancelled, a TimeoutError means the loop stopped short of the target.
TimeoutIsHonest ==
  outcome = "timeout" /\ ~graceOver /\ ~ctxDone => result.verdict # "done"

\* The caller always returns, even from a Refresh that hangs.
CallerReturns == <>(waiter = "returned")

\* "Canceling ctx cancels the refresh loop" (state.go:39).
CancelEndsTheLoop == (outcome = "ctx") ~> (loop = "closed")

=============================================================================

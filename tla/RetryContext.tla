------------------------------ MODULE RetryContext ------------------------------
(***************************************************************************)
(* RetryContext (unifi/util/retry/wait.go): call f until it succeeds, as a *)
(* Refresh of RetryWait, and hand back f's own error under a mutex.  The   *)
(* caller's f leaves what it found in a variable it captured (in           *)
(* deviceKitBeforeSend, current), which is read once RetryContext is back. *)
(* DeviceAdoption makes the steps.                                         *)
(***************************************************************************)
EXTENDS RetryWait

\* One success is enough; the number of absences is the default, and none occurs.
RetryConf == [ContinuousTargetOccurence |-> 1, NotFoundChecks |-> 20,
              TargetEmpty |-> FALSE, PendingEmpty |-> FALSE]

ASSUME RetryAssumption == RetryConf \in Confs

VARIABLES
  resultErr, \* f's last error: "nil", "retryable" or "fatal"
  current,   \* f has stored what it found
  answer     \* what RetryContext returned: none yet, "nil", f's error, or the wait's

retryVars == <<vars, resultErr, current, answer>>

RetryInit == Init /\ conf = RetryConf /\ resultErr = "nil" /\ current = FALSE /\ answer = "none"

\* f succeeds, fails retryably, or fails for good; its error is stored under the mutex.
Call(rerr) ==
  /\ Refresh(CASE rerr = "nil" -> "target" [] rerr = "retryable" -> "pending"
               [] rerr = "fatal" -> "error")
  /\ resultErr' = rerr
  /\ current' = (current \/ rerr = "nil")
  /\ UNCHANGED answer

\* Mutant of Return: the wait's own error is never looked at.
ReturnResultErr ==
  /\ waiter = "returned" /\ answer = "none"
  /\ answer' = IF resultErr = "nil" THEN "nil" ELSE resultErr
  /\ UNCHANGED <<vars, resultErr, current>>

\* f's error outranks the wait's; without one, the wait's decides.
Return ==
  /\ waiter = "returned" /\ answer = "none"
  /\ answer' = IF resultErr # "nil" THEN resultErr
               ELSE IF outcome = "value" THEN "nil" ELSE "wait"
  /\ UNCHANGED <<vars, resultErr, current>>

-----------------------------------------------------------------------------
(* Properties.                                                              *)

\* When RetryContext returns nil, f has stored its find and the goroutine is done with f: the
\* caller reads current with nobody writing it.  (The abandoned goroutine of a timeout or a
\* cancellation may still be inside f, and the caller must not, and does not, read then.)
NilIsSafeToUse == answer = "nil" => current /\ loop = "closed" /\ resultErr = "nil"

=============================================================================

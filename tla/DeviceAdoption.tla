---------------------------- MODULE DeviceAdoption ----------------------------
(***************************************************************************)
(* How unifi_device takes over a piece of hardware (deviceKitBeforeSend    *)
(* and deviceKitBackend, unifi/device_descriptor.go).                      *)
(*                                                                         *)
(* A create looks the device up by its MAC under RetryContext, adopts it   *)
(* when it is not adopted yet, waits with WaitForStateContext until the    *)
(* controller reports it Connected, and only then writes to it.  Both      *)
(* waits run here step by step, against a device that informs, goes away,  *)
(* provisions, connects and fails as it likes, and an administrator who    *)
(* adopts and forgets it.  A create that fails half way is run again.      *)
(*                                                                         *)
(* A second wait uses the variables of RetryWait anew.  What an abandoned  *)
(* goroutine of the first may still do is one more GET nobody looks at.    *)
(***************************************************************************)
EXTENDS RetryContext

CONSTANTS
  AdoptConf,   \* what deviceWaitForState waits with: Connected once, 30 absences
  MaxApplies,  \* bound: creates and updates started
  MaxEdits     \* bound: adoptions and forgettings by the administrator

\* What the wait tells apart in ui.DeviceState: Connected; Adopting, Pending, Provisioning,
\* Upgrading and Unknown; and the others, which fail the wait.
DeviceStates == {"target", "pending", "other"}

ASSUME AdoptionAssumption ==
  /\ {RetryConf, AdoptConf} \subseteq Confs
  /\ ~AdoptConf.TargetEmpty /\ ~AdoptConf.PendingEmpty
  /\ MaxApplies \in Nat /\ MaxEdits \in Nat

VARIABLES
  informs,    \* the controller knows the device
  adopted,    \* and has adopted it
  deviceState,
  id,         \* its id, a new one for every adoption; 0 when it has none
  step,       \* of the apply: idle, lookup, adopt, wait, send
  seen,       \* device or current in the code: the last answer to GetDeviceByMAC
  allow,      \* allow_adoption
  adopting,   \* the apply has called AdoptDevice
  stateId,    \* the id in the Terraform state; 0 when the resource is not in it
  applies, edits,
  meddled     \* history: the administrator adopted or forgot the device since the lookup

device == <<informs, adopted, deviceState, id>>
apply  == <<step, seen, allow, adopting>>
rest   == <<resultErr, current, answer>>
adoptionVars == <<retryVars, device, apply, stateId, applies, edits, meddled>>

Seen     == [adopted |-> adopted, state |-> deviceState, id |-> id]
Nothing  == [adopted |-> FALSE, state |-> "pending", id |-> 0]

AdoptionInit ==
  /\ RetryInit
  /\ informs \in BOOLEAN /\ adopted \in BOOLEAN /\ deviceState \in DeviceStates
  /\ (adopted => informs) /\ (deviceState = "target" => adopted)
  /\ id = (IF adopted THEN 1 ELSE 0)
  /\ step = "idle" /\ seen = Nothing /\ allow = FALSE /\ adopting = FALSE
  /\ stateId = 0 /\ applies = 0 /\ edits = 0 /\ meddled = FALSE

\* A wait begins: WaitForStateContext is called with c.
Wait(c) ==
  /\ conf' = c
  /\ loop' = "delay" /\ result' = Zero /\ targetOccurence' = 0 /\ notfoundTick' = 0
  /\ unpaused' = TRUE /\ resCh' = None /\ cancelCh' = FALSE
  /\ waiter' = "wait" /\ lastResult' = Zero /\ outcome' = "running" /\ graceOver' = FALSE
  /\ hits' = 0 /\ row' = 0 /\ absences' = 0

-----------------------------------------------------------------------------
(* Create.                                                                 *)

StartCreate(allowed) ==
  /\ step = "idle" /\ stateId = 0 /\ applies < MaxApplies
  /\ step' = "lookup" /\ allow' = allowed /\ adopting' = FALSE /\ seen' = Nothing
  /\ applies' = applies + 1 /\ meddled' = FALSE
  /\ Wait(RetryConf) /\ ctxDone' = FALSE
  /\ resultErr' = "nil" /\ current' = FALSE /\ answer' = "none"
  /\ UNCHANGED <<device, stateId, edits>>

\* The retried f: every error, "not found" included, is retryable.
LookUp(rerr) ==
  /\ step = "lookup" /\ Call(rerr)
  /\ rerr = "nil" => informs
  /\ seen' = IF rerr = "nil" THEN Seen ELSE seen
  /\ UNCHANGED <<device, step, allow, adopting, stateId, applies, edits, meddled>>

LookUpReturns ==
  /\ step = "lookup" /\ Return
  /\ UNCHANGED <<device, apply, stateId, applies, edits, meddled>>

\* Mutant of LookedUp: whether the device is adopted is not asked.
AdoptAnyway ==
  /\ step = "lookup" /\ answer # "none"
  /\ step' = IF answer = "nil" /\ allow THEN "adopt" ELSE "idle"
  /\ UNCHANGED <<retryVars, device, seen, allow, adopting, stateId, applies, edits, meddled>>

\* Found and adopted, found and to be adopted, or given up.
LookedUp ==
  /\ step = "lookup" /\ answer # "none"
  /\ step' = IF answer # "nil" THEN "idle"
             ELSE IF seen.adopted THEN "send" ELSE IF allow THEN "adopt" ELSE "idle"
  /\ UNCHANGED <<retryVars, device, seen, allow, adopting, stateId, applies, edits, meddled>>

\* AdoptDevice.  The controller may refuse, and its answer may be lost.
Adopt(effect, answered) ==
  /\ step = "adopt"
  /\ answered => effect /\ informs
  /\ IF effect /\ informs /\ ~adopted
     THEN adopted' = TRUE /\ deviceState' = "pending" /\ id' = id + 1
     ELSE UNCHANGED <<adopted, deviceState, id>>
  /\ adopting' = TRUE
  /\ IF answered
     THEN /\ step' = "wait" /\ Wait(AdoptConf)
          /\ UNCHANGED ctxDone
     ELSE step' = "idle" /\ UNCHANGED vars
  /\ UNCHANGED <<rest, informs, seen, allow, stateId, applies, edits, meddled>>

\* deviceWaitForState's Refresh.  A device that is not found, and one the controller answers
\* api.err.UnknownDevice for, are absent; an error of any other kind ends the wait.
Poll(a) ==
  /\ step = "wait" /\ Refresh(a)
  /\ a \in {"absent", "error"} \/ (informs /\ a = deviceState)
  /\ a = "absent" => ~informs
  /\ seen' = IF a = "error" THEN seen ELSE IF informs THEN Seen ELSE Nothing
  /\ UNCHANGED <<rest, device, step, allow, adopting, stateId, applies, edits, meddled>>

\* Mutant of Waited: the error of the wait is dropped.
WaitedForNothing ==
  /\ step = "wait" /\ waiter = "returned"
  /\ step' = "send"
  /\ UNCHANGED <<retryVars, device, seen, allow, adopting, stateId, applies, edits, meddled>>

Waited ==
  /\ step = "wait" /\ waiter = "returned"
  /\ step' = IF outcome = "value" THEN "send" ELSE "idle"
  /\ UNCHANGED <<retryVars, device, seen, allow, adopting, stateId, applies, edits, meddled>>

\* The goroutine, the timers and the deadline of whichever wait is under way.
Clock ==
  /\ step \in {"lookup", "wait"}
  /\ Scheduled \/ Awaiting \/ Timeout \/ GraceTimeout
  /\ UNCHANGED <<rest, device, apply, stateId, applies, edits, meddled>>

Deadline ==
  /\ step \in {"lookup", "wait"} /\ Cancel
  /\ UNCHANGED <<rest, device, apply, stateId, applies, edits, meddled>>

\* The overlays and the masked write go to the id that was seen; a device that was forgotten
\* or adopted anew since has another.  With the answer the id enters the state, as
\* deviceRestoreCreateValues would have it, adopted.
WriteFields(answered) ==
  /\ step = "send" /\ step' = "idle"
  /\ stateId' = IF answered /\ adopted /\ id = seen.id THEN seen.id ELSE stateId
  /\ UNCHANGED <<retryVars, device, seen, allow, adopting, applies, edits, meddled>>

-----------------------------------------------------------------------------
(* The rest of the resource's life.                                        *)

\* An update looks the device up once, for its type only, and writes to the id in state.
Update ==
  /\ step = "idle" /\ stateId # 0 /\ applies < MaxApplies
  /\ step' = "send" /\ seen' = [Nothing EXCEPT !.id = stateId] /\ adopting' = FALSE
  /\ applies' = applies + 1
  /\ UNCHANGED <<retryVars, device, allow, stateId, edits, meddled>>

\* GetDevice by id; a device that is not found is removed from the state.
ReadDevice ==
  /\ step = "idle" /\ stateId # 0
  /\ stateId' = IF adopted /\ id = stateId THEN stateId ELSE 0
  /\ UNCHANGED <<retryVars, device, apply, applies, edits, meddled>>

\* A destroy releases the device; with forget_on_destroy the controller forgets it too.
Destroy(forget) ==
  /\ step = "idle" /\ stateId # 0
  /\ stateId' = 0
  /\ IF forget /\ adopted /\ id = stateId
     THEN informs' \in BOOLEAN /\ adopted' = FALSE /\ deviceState' = "other" /\ UNCHANGED id
     ELSE UNCHANGED device
  /\ UNCHANGED <<retryVars, apply, applies, edits, meddled>>

(* The device and the administrator (external).                            *)

\* An adopted device stays listed in whatever state it is; while it is being adopted it may
\* disappear and come back.
Informs ==
  /\ informs' \in BOOLEAN /\ deviceState' \in DeviceStates
  /\ adopted => informs' \/ step = "wait"
  /\ deviceState' = "target" => adopted
  /\ UNCHANGED <<retryVars, adopted, id, apply, stateId, applies, edits, meddled>>

Meddle ==
  /\ edits < MaxEdits /\ edits' = edits + 1 /\ informs
  /\ adopted' = ~adopted /\ deviceState' = "other"
  /\ id' = IF adopted THEN id ELSE id + 1
  /\ meddled' = TRUE
  /\ UNCHANGED <<retryVars, informs, apply, stateId, applies>>

AdoptionNext ==
  \/ \E allowed \in BOOLEAN : StartCreate(allowed)
  \/ \E rerr \in {"nil", "retryable"} : LookUp(rerr)
  \/ LookUpReturns \/ LookedUp
  \/ \E effect, answered \in BOOLEAN : Adopt(effect, answered)
  \/ \E a \in Answers : Poll(a)
  \/ Waited \/ Clock \/ Deadline
  \/ \E answered \in BOOLEAN : WriteFields(answered)
  \/ Update \/ ReadDevice
  \/ \E forget \in BOOLEAN : Destroy(forget)
  \/ Informs \/ Meddle

Progress == LookUpReturns \/ LookedUp \/ Waited
            \/ (\E effect, answered \in BOOLEAN : Adopt(effect, answered))
            \/ (\E answered \in BOOLEAN : WriteFields(answered))
During(A) == step \in {"lookup", "wait"} /\ A
             /\ UNCHANGED <<rest, device, apply, stateId, applies, edits, meddled>>

AdoptionSpec == AdoptionInit /\ [][AdoptionNext]_adoptionVars

\* Goroutines are scheduled, timers fire, and every call of the apply but a lookup's and a
\* poll's is answered or fails: those have the waits' timeouts behind them.
AdoptionFairSpec ==
  /\ AdoptionSpec
  /\ WF_adoptionVars(Progress)
  /\ WF_adoptionVars(During(Scheduled)) /\ WF_adoptionVars(During(Awaiting))
  /\ WF_adoptionVars(During(Timeout)) /\ WF_adoptionVars(During(GraceTimeout))

-----------------------------------------------------------------------------
(* Properties.                                                             *)

\* A lookup that returned nil left what it found, and no goroutine is still writing it.
\* (NilIsSafeToUse of RetryContext, where its caller relies on it.)
FoundIsSafeToUse == step = "lookup" => NilIsSafeToUse

\* A device this create adopted is not written to before the controller reported it Connected
\* under the id the write then names; no timeout, cancellation or absence in between is taken
\* for it.
ConnectedBeforeWritten ==
  step = "send" /\ adopting => seen.state = "target" /\ (seen.adopted \/ meddled) /\ outcome = "value"

\* A create that failed after adopting, or whose adoption's answer was lost, is run again
\* without adopting again: the provider asks the controller to adopt only what nobody has
\* adopted, unless the administrator did in between.
NeverAdoptedTwice ==
  [][\A e, a \in BOOLEAN : Adopt(e, a) => ~adopted \/ meddled]_adoptionVars

\* Whatever the device does, an apply comes back.
ApplyEnds == (step # "idle") ~> (step = "idle")
=============================================================================

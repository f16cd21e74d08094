-------------------------- MODULE ResourceLifecycle --------------------------
(***************************************************************************)
(* What the resource engine promises of one managed resource, whatever its *)
(* attributes: which objects there are, which one Terraform tracks, and    *)
(* what an operation that ends may say of it.                              *)
(*                                                                         *)
(* Calls, models, masks, plans and hooks are not here.  An object that is  *)
(* made is recorded, or its loss is reported; a tracked resource never     *)
(* moves to another object; and it is let go only when the object is gone, *)
(* on request, or when the import that named it fails.                     *)
(***************************************************************************)
CONSTANTS
  Ids,      \* objects the controller may hold
  ByName,   \* not an object: tracked by a name that is still to be resolved
  None      \* neither: nothing tracked, nothing being made

VARIABLES
  present,    \* the objects the controller holds
  tracked,    \* what the Terraform state points at
  confirmed,  \* it has been read or written, not only named by an import
  making,     \* the object a create has made or taken over and not recorded yet
  loose,      \* objects given up: let go on request, or lost by a create that failed
  verdict     \* what the last operation that ended reported

state == <<tracked, confirmed, making>>
vars  == <<present, state, loose, verdict>>

Init ==
  /\ present \subseteq Ids
  /\ tracked = None /\ confirmed = FALSE /\ making = None /\ loose = {} /\ verdict = "none"

\* A create makes an object, or takes over one that is there.
Make(i) ==
  /\ tracked = None /\ making = None
  /\ present' = present \cup {i} /\ making' = i
  /\ UNCHANGED <<tracked, confirmed, loose, verdict>>

\* A create succeeds: what it made is tracked.
Record ==
  /\ tracked = None /\ making # None
  /\ tracked' = making /\ confirmed' = TRUE /\ making' = None
  /\ loose' = loose \ {making} /\ verdict' = "ok"
  /\ UNCHANGED present

\* A create fails after it made the object: it says so.
Lose ==
  /\ making # None
  /\ making' = None /\ loose' = loose \cup {making} /\ verdict' = "error"
  /\ UNCHANGED <<present, tracked, confirmed>>

Import(t) ==
  /\ tracked = None /\ making = None
  /\ tracked' = t /\ confirmed' = FALSE
  /\ UNCHANGED <<present, making, loose, verdict>>

\* The read that completes an import: a name becomes an id, an id stays what it is.
Confirm ==
  /\ tracked # None /\ ~confirmed
  /\ tracked' \in IF tracked = ByName THEN Ids ELSE {tracked}
  /\ confirmed' = TRUE /\ loose' = loose \ {tracked'} /\ verdict' = "ok"
  /\ UNCHANGED <<present, making>>

LetGo == tracked # None /\ tracked' = None /\ confirmed' = FALSE /\ UNCHANGED making

\* An import fails, or names nothing.
DiscardImport ==
  /\ ~confirmed /\ LetGo /\ verdict' \in {"ok", "error"}
  /\ UNCHANGED <<present, loose>>

\* A refresh finds the object gone.
Forget ==
  /\ tracked \notin present /\ LetGo /\ verdict' = "ok"
  /\ UNCHANGED <<present, loose>>

Release ==
  /\ confirmed /\ LetGo /\ verdict' = "ok"
  /\ loose' = loose \cup {tracked}
  /\ UNCHANGED present

\* A delete removes the tracked object and no other; if its answer is lost, the state keeps it.
Destroy ==
  /\ confirmed /\ present' = present \ {tracked}
  /\ \/ LetGo /\ verdict' = "ok"
     \/ UNCHANGED state /\ verdict' = "error"
  /\ UNCHANGED loose

\* A refresh, an update, or anything that fails before it has made an object.
Answer ==
  /\ making = None /\ verdict' \in {"ok", "error"}
  /\ UNCHANGED <<present, state, loose>>

\* Somebody else deletes an object.
Vanish(i) == present' = present \ {i} /\ UNCHANGED <<state, loose, verdict>>

Next ==
  \/ \E i \in Ids : Make(i) \/ Vanish(i)
  \/ \E t \in Ids \cup {ByName} : Import(t)
  \/ Record \/ Lose \/ Confirm \/ DiscardImport \/ Forget \/ Release \/ Destroy \/ Answer

Spec == Init /\ [][Next]_vars
=============================================================================

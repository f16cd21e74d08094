-------------------------- MODULE ResourceKitRefines --------------------------
(* The engine step by step implements ResourceLifecycle: every call of an      *)
(* operation is one step of it, or none.                                       *)
EXTENDS ResourceKit

Lifecycle == INSTANCE ResourceLifecycle WITH
  ByName    <- NoId,
  None      <- NoState,
  present   <- {i \in Ids : objects[i] # Absent},
  tracked   <- sid,
  confirmed <- sid # NoState /\ ~importing,
  making    <- IF pc = "createSent" THEN target ELSE NoState,
  loose     <- leaked \cup released,
  verdict   <- outcome

\* However its calls interleave with edits, deletions, lost answers and failures, the engine
\* does only what ResourceLifecycle allows.  (Create, Read, Update, Delete and ImportState of
\* resource.go, against what they promise.)
ImplementsLifecycle == Lifecycle!Spec
=============================================================================

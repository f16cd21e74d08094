--------------------------- MODULE MCAttributeCycle ---------------------------
(* AttributeCycle over every attribute the provider serves. *)
EXTENDS AttributeCycle
===============================================================================

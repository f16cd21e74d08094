---------------------------- MODULE MCResourceKit ----------------------------
(* Instances of ResourceKit for TLC; each configuration gives the attributes f, c, u and  *)
(* h their kinds (f is the name, u is derived by a hook, h hook-owned).                     *)
EXTENDS ResourceKitRefines
CONSTANTS f, c, u, h, i1, i2, One

=============================================================================

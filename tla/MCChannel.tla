----------------------------- MODULE MCChannel ------------------------------
(* Channel on small instances: the constants get their values in the cfgs.   *)
EXTENDS Channel
=============================================================================

-------------------------- MODULE MCMediaConnection -------------------------
(* MediaConnection on small instances: the constants get their values in the *)
(* cfgs.                                                                     *)
EXTENDS MediaConnection
=============================================================================

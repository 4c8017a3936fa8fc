--------------------------- MODULE MCAudioStream ----------------------------
(* AudioStream on small instances: the constants get their values in the     *)
(* cfgs.                                                                     *)
EXTENDS AudioStream
=============================================================================

----------------------------- MODULE MCStreamer -----------------------------
(* Streamer on small instances: the constants get their values in the cfgs.  *)
EXTENDS Streamer
=============================================================================

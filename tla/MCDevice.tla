------------------------------ MODULE MCDevice ------------------------------
(* Device with two calls, two volumes and two starts of the heartbeat.     *)
EXTENDS Device
=============================================================================

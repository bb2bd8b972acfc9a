-------------------------- MODULE MCDeviceSession --------------------------
(* Model-checking instance of DeviceSession. *)
EXTENDS DeviceSession
=============================================================================

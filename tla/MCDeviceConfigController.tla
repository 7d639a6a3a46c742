---------------------- MODULE MCDeviceConfigController ----------------------
(***************************************************************************)
(* Small instances of DeviceConfigController for TLC: the constants are in *)
(* the configurations.  All of them check liveness, so there is no         *)
(* symmetry.                                                               *)
(***************************************************************************)
EXTENDS DeviceConfigController
=============================================================================

--------------------------- MODULE MCDevicePlugin ---------------------------
(***************************************************************************)
(* An instance of DevicePlugin for TLC: two tokens, one stream.            *)
(***************************************************************************)
EXTENDS DevicePlugin

CONSTANTS t1, t2, s1
=============================================================================

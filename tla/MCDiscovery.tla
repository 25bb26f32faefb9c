---------------------------- MODULE MCDiscovery ----------------------------
(***************************************************************************)
(* Instance of Discovery for TLC: a discover_devices and a generator that  *)
(* its caller may pause, close or forget, on one port.                     *)
(***************************************************************************)
EXTENDS Discovery
=============================================================================

-------------------------- MODULE MCDeviceSession ---------------------------
(***************************************************************************)
(* Two lanes, each any of the five tools, on a device in any state.        *)
(***************************************************************************)
EXTENDS DeviceSession

=============================================================================

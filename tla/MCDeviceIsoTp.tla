---------------------------- MODULE MCDeviceIsoTp ----------------------------
(***************************************************************************)
(* Instances of DeviceIsoTp for TLC.                                       *)
(***************************************************************************)
EXTENDS DeviceIsoTp

CONSTANTS engine, brakes

\* A last segment of two bytes, and segments enough for the PCI byte to wrap around.
ShortAndLong == {8, 118}

=============================================================================

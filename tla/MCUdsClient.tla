----------------------------- MODULE MCUdsClient -----------------------------
(***************************************************************************)
(* Instances of UdsClient for TLC.                                         *)
(***************************************************************************)
EXTENDS UdsClient

CONSTANTS session, read

=============================================================================

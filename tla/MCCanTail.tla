----------------------------- MODULE MCCanTail -----------------------------
(***************************************************************************)
(* Instances of CanTail for TLC; the .cfg files give the constants.        *)
(***************************************************************************)
EXTENDS CanTail

=============================================================================

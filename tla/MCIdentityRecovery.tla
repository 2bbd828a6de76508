------------------------- MODULE MCIdentityRecovery -------------------------
(***************************************************************************)
(* IdentityRecovery for TLC.                                               *)
(***************************************************************************)
EXTENDS IdentityRecovery
=============================================================================

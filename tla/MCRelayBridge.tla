---------------------------- MODULE MCRelayBridge ----------------------------
(***************************************************************************)
(* RelayBridge for TLC.                                                    *)
(***************************************************************************)
EXTENDS RelayBridge
=============================================================================

-------------------------- MODULE MCTelemetryOutbox --------------------------
(***************************************************************************)
(* TelemetryOutbox for TLC.                                                *)
(***************************************************************************)
EXTENDS TelemetryOutbox
=============================================================================

---------------------------- MODULE MCRelayLedger ----------------------------
(***************************************************************************)
(* RelayLedger for TLC: three requests, the last of which bears a time in  *)
(* the future of the first; a day is two ticks, an ID is admissible for    *)
(* one tick after its birth and one before it.                             *)
(***************************************************************************)
EXTENDS RelayLedger, TLC

CONSTANTS q1, q2, q3, g

MCRequests == {q1, q2, q3}
MCBirth == q1 :> 0 @@ q2 :> 1 @@ q3 :> 2
=============================================================================

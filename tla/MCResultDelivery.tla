-------------------------- MODULE MCResultDelivery --------------------------
(***************************************************************************)
(* Small instances of ResultDelivery for TLC.                              *)
(***************************************************************************)
EXTENDS ResultDelivery, TLC

AllFaults == AllDisturbances
=============================================================================

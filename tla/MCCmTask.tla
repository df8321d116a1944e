------------------------------ MODULE MCCmTask ------------------------------
(* CmTask with the constants of the MCCmTask_*.cfg models. *)
EXTENDS CmTask
=============================================================================

-------------------------- MODULE MCApprovalConsole --------------------------
(***************************************************************************)
(* ApprovalConsole for TLC; the .cfg gives the instance.                   *)
(***************************************************************************)
EXTENDS ApprovalConsole
=============================================================================

----------------------------- MODULE MCNarrator -----------------------------
(***************************************************************************)
(* The instance of Narrator for TLC: its constants are in the .cfg.        *)
(***************************************************************************)
EXTENDS Narrator
=============================================================================

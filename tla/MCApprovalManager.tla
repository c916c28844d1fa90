------------------------- MODULE MCApprovalManager --------------------------
(***************************************************************************)
(* Instances of ApprovalManager for TLC: a held call c1 with competing      *)
(* decisions on it, and a call c2 that is auto-allowed.                    *)
(***************************************************************************)
EXTENDS ApprovalManager, TLC

CONSTANTS c1, c2, approve1, deny1

MCTarget == [d \in Decisions |-> c1]
MCVerdict == [d \in Decisions |-> IF d = deny1 THEN "DENIED" ELSE "APPROVED"]
=============================================================================

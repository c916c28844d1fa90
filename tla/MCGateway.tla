----------------------------- MODULE MCGateway ------------------------------
(***************************************************************************)
(* Instances of Gateway for TLC.  A tool is a kind of tool: "read" goes    *)
(* through, "write" is held, "foreign" is outside every scope.             *)
(***************************************************************************)
EXTENDS Gateway

MCScope == [a \in Agents |-> Tools \ {"foreign"}]
=============================================================================

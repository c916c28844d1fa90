---------------------------- MODULE MCBootstrap -----------------------------
(***************************************************************************)
(* Instances of Bootstrap for TLC: the deployed agents, by one and by two.  *)
(***************************************************************************)
EXTENDS Bootstrap

\* A run as composed, and a forced one of no days whose spans are off.
MCSettings ==
    {[force |-> FALSE, backdate |-> TRUE, days |-> 1], [force |-> TRUE, backdate |-> FALSE, days |-> 0]}

MCTeams == {<<Coder>>, <<Assistant, Compliance>>}
=============================================================================

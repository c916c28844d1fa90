----------------------------- MODULE MCScenario -----------------------------
(***************************************************************************)
(* The instance of Scenario for TLC: a run whose mission is held twice, two *)
(* runs held once each, and the two demonstrations.  The missions of the    *)
(* queue script stop when they are denied.                                  *)
(***************************************************************************)
EXTENDS Scenario

Plays(name, n, k, agent) == [script |-> name, runs |-> n, holds |-> k, stranger |-> agent]

MCSettings ==
    {Plays("scenario", 1, 2, Coder), Plays("scenario", 2, 1, Coder), Plays("scenario", 2, 1, Comply),
     Plays("flagship", 1, 2, Comply), Plays("queue", 1, 1, Comply)}
=============================================================================

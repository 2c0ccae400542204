-------------------------------- MODULE MCIntake --------------------------------
(* An agent that moves between two versions of a project.  The checks of the  *)
(* second pool may raise, and one of its sinks is reached by nothing.         *)
EXTENDS Intake, TLC
CONSTANTS p1, w1, w2, a1, v1, v2, x1, x2
MCInitialVersion == (a1 :> v1)
MCSinks == <<{x1, x2}, {x1, x2}>>
MCFlows == <<{x1, x2}, {x1}>>
================================================================================

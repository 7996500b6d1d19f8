----------------------------- MODULE MCStartUp ------------------------------
(* Model values for the runs of StartUp.                                    *)
EXTENDS StartUp, TLC

CONSTANTS r1, r2, x, y

TwoReplicas == {r1, r2}
TwoVariants == {x, y}
OnlyY == {y}
=============================================================================

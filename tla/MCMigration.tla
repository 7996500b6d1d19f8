---------------------------- MODULE MCMigration ----------------------------
(* Model values for the run of Migration.                                   *)
EXTENDS Migration, TLC

CONSTANTS r1, r2, x, y

TwoReplicas == {r1, r2}
TwoVariants == {x, y}
OnlyY == {y}
=============================================================================

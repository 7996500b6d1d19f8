--------------------------- MODULE MCVersionLint ---------------------------
(* Model values for the runs of VersionLint.                                *)
EXTENDS VersionLint

CONSTANTS t1, e1, e2

OneTask == {t1}
TwoExecs == {e1, e2}
=============================================================================

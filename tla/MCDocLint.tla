----------------------------- MODULE MCDocLint -----------------------------
(* Model values for the runs of DocLint.                                    *)
EXTENDS DocLint

CONSTANTS d1, e1, e2

OneDoc == {d1}
TwoExecs == {e1, e2}
=============================================================================

---------------------------- MODULE MCLintWorker ----------------------------
(* Model values for the run of LintWorker.                                  *)
EXTENDS LintWorker, TLC

CONSTANTS r0, r1, s1, n1, n2, q1, q2, g1, g2

TwoIds == {r0, r1}
OneSlot == {s1}
OneDefault == s1 :> r0
OneName == {n1}
TwoNames == {n1, n2}
TwoRequests == {q1, q2}
TwoRuns == {g1, g2}
=============================================================================

---------------------------- MODULE MCValidation ----------------------------
(* Model values for the runs of Validation.                                 *)
EXTENDS Validation, TLC

CONSTANTS v1, v2, t1, t2, p1, s1, s2, r1, r2, c1

OneVersion == {v1}
TwoVersions == {v1, v2}
TwoTasks == {t1, t2}
OneEvent == {p1}
EventOfV1 == p1 :> v1
TwoRulesets == {s1, s2}
TwoReplicas == {r1, r2}
OneClient == {c1}
AnsweredByR1 == c1 :> r1
=============================================================================

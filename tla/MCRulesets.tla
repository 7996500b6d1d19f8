----------------------------- MODULE MCRulesets -----------------------------
(* Model values for the runs of Rulesets.                                   *)
EXTENDS Rulesets, TLC

CONSTANTS r0, r1, r2, r3, s1, s2, n1, n2, q1, q2, q3

OneSlotIds == {r0, r1, r2}
TwoSlotIds == {r0, r1, r2, r3}
OneSlot == {s1}
TwoSlots == {s1, s2}
OneDefault == s1 :> r0
TwoDefaults == s1 :> r0 @@ s2 :> r1
TwoNames == {n1, n2}
OneName == {n1}
TwoRequests == {q1, q2}
ThreeRequests == {q1, q2, q3}

SymmTwoSlots == Permutations({r2, r3}) \cup Permutations(TwoNames) \cup Permutations(TwoRequests)
=============================================================================

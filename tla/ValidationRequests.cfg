SPECIFICATION FairSpec
CONSTANTS
    v1 = v1 v2 = v2 t1 = t1 t2 = t2 p1 = p1 s1 = s1 s2 = s2
    r1 = r1 r2 = r2 c1 = c1
    NoEvent = NoEvent NoRuleset = NoRuleset
    Versions <- OneVersion
    Tasks <- TwoTasks
    Events <- OneEvent
    VersionOf <- EventOfV1
    Rulesets <- TwoRulesets
    Replicas <- TwoReplicas
    Clients <- OneClient
    AnsweredBy <- AnsweredByR1
    MaxFaults = 2
INVARIANTS TypeOK OneTaskPerEvent EventNotLost AcceptedIsKnown LintedIsShown
PROPERTIES EventHasTask

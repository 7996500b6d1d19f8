SPECIFICATION FairSpec
CONSTANTS
    t1 = t1 e1 = e1 e2 = e2
    NoExec = NoExec NoTask = NoTask
    VTasks <- OneTask
    Execs <- TwoExecs
    RestartLimit = 1
    MaxFaults = 1
INVARIANTS TypeOK WaitingHasDocs SuccessHasVersion SuccessHasEvidence
PROPERTIES EventuallyFinished

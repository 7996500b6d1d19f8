SPECIFICATION FairSpec
CONSTANTS
    d1 = d1 e1 = e1 e2 = e2
    NoExec = NoExec NoDoc = NoDoc
    Docs <- OneDoc
    Execs <- TwoExecs
    RestartLimit = 2
    MaxFaults = 2
INVARIANTS TypeOK SuccessHasResult
PROPERTIES OnlyOwnerRecords StrayRunsAreExhausted EventuallySettled ImplementsResults ImplementsBatch

SPECIFICATION WorkerFairSpec
CONSTANTS
    r0 = r0 r1 = r1 s1 = s1 n1 = n1 n2 = n2 q1 = q1 q2 = q2 g1 = g1 g2 = g2
    NoId = NoId DefaultName = DefaultName
    Ids <- TwoIds
    Slots <- OneSlot
    DefaultOf <- OneDefault
    Names <- TwoNames
    TestNames <- OneName
    Requests <- TwoRequests
    Runs <- TwoRuns
INVARIANTS WorkerTypeOK HistoryAgrees SlotKeptOrCleaned OneLinter PanicsOnlyAfterCleanup
PROPERTIES PollsAgain
CHECK_DEADLOCK FALSE

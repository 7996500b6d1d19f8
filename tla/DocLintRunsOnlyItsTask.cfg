SPECIFICATION Spec
CONSTANTS
    d1 = d1 e1 = e1 e2 = e2
    NoExec = NoExec NoDoc = NoDoc
    Docs <- OneDoc
    Execs <- TwoExecs
    RestartLimit = 2
    MaxFaults = 1
PROPERTIES RunsOnlyItsTask

SPECIFICATION Spec
CONSTANTS
    t1 = t1 e1 = e1 e2 = e2
    NoExec = NoExec NoTask = NoTask
    VTasks <- OneTask
    Execs <- TwoExecs
    RestartLimit = 2
    MaxFaults = 0
PROPERTIES CompletedWhenReady

SPECIFICATION StartFairSpec
CONSTANTS
    r1 = r1 r2 = r2 x = x y = y
    NoScript = NoScript
    Replicas <- TwoReplicas
    Variants <- TwoVariants
    NoDown <- OnlyY
    MaxNum = 1
    MaxFaults = 1
INVARIANTS StartTypeOK OneServer ReadyIsStarted NoneStuck
PROPERTIES EventuallyServing
CHECK_DEADLOCK FALSE

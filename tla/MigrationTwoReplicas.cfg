SPECIFICATION FairSpec
CONSTANTS
    r1 = r1 r2 = r2 x = x y = y
    NoScript = NoScript
    Replicas <- TwoReplicas
    Variants <- TwoVariants
    NoDown <- OnlyY
    MaxNum = 3
    MaxFaults = 1
INVARIANTS TypeOK RecordsAgree ReadyOnBuild
PROPERTIES EventuallyReady LandsOnBuild
CHECK_DEADLOCK FALSE

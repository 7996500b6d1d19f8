SPECIFICATION TestSpec
CONSTANTS
    r0 = r0 r1 = r1 r2 = r2 r3 = r3 s1 = s1 s2 = s2 n1 = n1 n2 = n2 q1 = q1 q2 = q2 q3 = q3
    NoId = NoId DefaultName = DefaultName
    Ids <- OneSlotIds
    Slots <- OneSlot
    DefaultOf <- OneDefault
    Names <- TwoNames
    TestNames <- OneName
    Requests <- TwoRequests
INVARIANTS OneActivePerSlot

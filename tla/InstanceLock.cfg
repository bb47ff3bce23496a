SPECIFICATION HFairSpec
CONSTANTS
    Worker = {w1, w2, w3}
    Gone = Gone
INVARIANTS
    LateAtMostOne
    NoFalseAlarm
    HInv
PROPERTIES
    EventuallyExclusive

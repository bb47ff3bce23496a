SPECIFICATION FairSpec
CONSTANTS
    Troubles = {"boot", "unready", "slow_exc", "slow_srv", "crash", "garbled", "docker"}
    NoResult = NoResult
INVARIANTS
    TypeOK
    NoStray
    TimedFromMeeting
    NoEmbrace
    EachForItself
PROPERTIES
    TestEnds

SPECIFICATION GradingSpec
CONSTANTS
    g1 = g1
    g2 = g2
    Group = {g1, g2}
    NoGroup = NoGroup
    MaxTests = 2
    Penalties = {50, 75}
    File <- MCFile
    Layout <- MCLayout
    Outcome <- MCOutcome
    Task <- MCTask
    Merge <- MCMerge
    Depth = 6
INVARIANTS
    ScoreInRange
    GroupAllOrNothing
    PenaltyCapped
    WholeProgram
    OwnVerdict
    ConfigMerged
    WholeReport
PROPERTIES
    GradingIsJob

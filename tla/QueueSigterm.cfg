SPECIFICATION Spec
CONSTANTS
    w1 = w1
    w2 = w2
    n1 = n1
    n2 = n2
    s1 = s1
    s2 = s2
    f1 = f1
    f2 = f2
    Worker = {w1, w2}
    Name = {n1, n2}
    NameOf <- OwnNames
    Submission = {s1, s2}
    File = {f1, f2}
    FilesOf <- OneFile
    LevelOf <- AllMedium
    Unpackaged = {}
    Watched = {s1}
    NTests = 1
    Gone = Gone
    NoJob = NoJob
    AnyName = n1
    AnyWorker = w1
    FaultKinds = {"signal"}
    MaxFaults = 1
INVARIANTS
    NothingLost

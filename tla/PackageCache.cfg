SPECIFICATION FairSpec
CONSTANTS
    Worker = {w1, w2}
    File = {config_yml, f1}
    ConfigFile = config_yml
    Option = persistent
    Source = {"redis", "url"}
    MaxUploads = 2
    FaultKinds = {"drop", "crash", "zip"}
    MaxFaults = 2
INVARIANTS
    PersistentWhole
PROPERTIES
    PersistentFetched
    KeptBySomebody
    BackToWork

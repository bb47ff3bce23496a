SPECIFICATION Spec
CONSTANTS
    Worker = {w1, w2}
    File = {config_yml, f1}
    ConfigFile = config_yml
    Option = persistent
    Source = {"redis"}
    MaxUploads = 1
    FaultKinds = {}
    MaxFaults = 0
INVARIANTS
    WholePackage

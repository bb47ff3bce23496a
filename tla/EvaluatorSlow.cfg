SPECIFICATION MCSpec
CONSTANTS
    Group = {g1, g2}
    NoGroup = NoGroup
    MaxTests = 1
    Penalties = {50}
INVARIANTS
    SlowIsPenalised

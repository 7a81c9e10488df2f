SPECIFICATION Spec
CONSTANTS
    Instances = {i1, i2}
    Events = {e1, e2}
    ChannelSize = 1
    Hydrated = TRUE
    MaxSnapshots = 1
    MaxRestarts = 1
SYMMETRY Symmetric
INVARIANTS
    LiveOnce
    NoOtherLoss

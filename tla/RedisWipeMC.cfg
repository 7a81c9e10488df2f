SPECIFICATION Spec
CONSTANTS
    Instances = {i1}
    Events = {e1}
    ChannelSize = 1
    Hydrated = TRUE
    MaxSnapshots = 1
    MaxRestarts = 1
INVARIANTS
    QueueSurvivesSnapshot

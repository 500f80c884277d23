\* Two nodes; a poll as large as the recent peak or it is small; four runs of history.
SPECIFICATION Spec
CONSTANTS
    Nodes = {n1, n2}
    Observers = {o1}
    MinNodes = 1
    FloorNum = 1
    FloorDen = 1
    MaxPollsWithoutAdvance = 2
    HistoryLimit = 3
    MaxAge = 1
    MaxRuns = 4
SYMMETRY Interchangeable
INVARIANTS
    FrozenBeliefIsBounded
    HealthyPollIsBelieved
PROPERTIES
    StoredNeverRegresses

\* One watch with two rules, muted or not: edits and crashes between any two steps of an
\* evaluation, and the watch and its rules deleted and created again under their old ids.
\* The breaker is the proportional one, with a minimum small enough to reach.
SPECIFICATION Spec
CONSTANTS
    ConfirmPolls = 1
    MaxWatch = 1
    MaxRule = 2
    MaxNotify = 1
    MaxPerPoll = 0
    FractionNum = 1
    FractionDen = 2
    MinSignalsForFraction = 2
    PrefChoices <- MutedOrNot
INVARIANTS
    StoreIsWhole
    CountedMeansTold
PROPERTIES
    AsIfAlone
    EveryPromiseIsKept
    NoMessageAboutTheDeleted
    BreakerBoundsAlerts
    EvaluationsCommit

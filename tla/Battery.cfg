\* One watch, its rule and every voltage that matters: edits, crashes and new readings between
\* any two steps of a check.
SPECIFICATION Spec
CONSTANTS
    ConfirmReadings = 2
    Margin = 2
    DefaultLow = 5
    DefaultCritical = 2
    PrefChoices <- ToldOrMuted
    Voltages = {0, 1, 3, 6, 8, 9}
    OwnChoices <- FollowingOrTopped
    Follow <- Following
    Site <- SiteLevels
    Scope <- ScopeLevels
    MaxNewAlertsPerPoll = 1
INVARIANTS
    AnnouncedMeansTold
PROPERTIES
    LevelSettles
    RecoveryFollowsAlert
    ReadingsConfirm
    LowIsSaidOnce
    NeverAddedBack

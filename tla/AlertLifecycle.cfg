\* Every reading, mute and recovery setting at every poll, two polls to confirm.
SPECIFICATION Spec
CONSTANTS
    ConfirmPolls = 2
    MaxNotify = 2
INVARIANTS
    FlapGuard
    OneAlertPerOutage
PROPERTIES
    EndsAsItBegan
    BeliefSettles
    PromiseIsKept
    OwnerIsToldBoth

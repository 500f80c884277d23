\* Seven packets, two on a page and none, one or four in the backfill: overlaps, failures and outages.
SPECIFICATION Spec
CONSTANTS
    a = a
    b = b
    c = c
    Nodes = {a, b, c}
    Prefix <- Prefixes
    Packets <- Day
    Views <- Lists
    PageLimit = 2
    BackfillWindows = {0, 1, 4}
    BackfillOn = TRUE
CHECK_DEADLOCK FALSE
INVARIANTS
    EvidenceAddsUp
    NothingIsPassedOver
    CreditIsEarned

\* Two places in the channel and a backoff that doubles twice: goroutines of one connection in any order.
SPECIFICATION BotSpec
CONSTANTS
    Ceiling = 3
    Capacity = 2
CHECK_DEADLOCK FALSE
INVARIANTS
    OneConnectionAtATime
PROPERTIES
    LostConnectionIsReplaced
    StopIsHeeded

\* A connection that fails before its HELLO.
SPECIFICATION BotSpec
CONSTANTS
    Ceiling = 3
    Capacity = 2
CHECK_DEADLOCK FALSE
PROPERTIES
    FailedConnectionIsReplaced

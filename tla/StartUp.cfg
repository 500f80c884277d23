\* An old binary and a new one, the twelve migrations of the program, a database of any age.
SPECIFICATION Spec
CONSTANTS
    p1 = p1
    p2 = p2
    Processes = {p1, p2}
    Schema = 12
    Repeatable = {4, 5, 8}
    Knows <- OldAndNew
INVARIANTS
    OneSetOfLoops
    ServesItsSchema
PROPERTIES
    ServesAgain

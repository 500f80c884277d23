\* Two people and two messages, grouped or not: every interruption of a drain, and ids used again.
SPECIFICATION Spec
CONSTANTS
    People = {p1, p2}
    MaxAttempts = 2
    Limit = 2
    Standings = {"open", "shut"}
    MaxNote = 2
    MaxAnswers = 0
    MaxRoster = 0
SYMMETRY Interchangeable
INVARIANTS
    NothingIsLost
    NothingIsSaidTwice
    AttemptsAreBounded

\* One person with two messages, sent one at a time and tried twice: every writer of his dm_ok,
\* one answer in flight.
SPECIFICATION Spec
CONSTANTS
    People = {p1}
    MaxAttempts = 2
    Limit = 1
    Standings = {"open", "shut", "left"}
    MaxNote = 2
    MaxAnswers = 1
    MaxRoster = 1
PROPERTIES
    EverythingIsSettled
    DepartureShows

\* Two tabs of one person and one of another; ids that come back; a watch, a
\* target and a rule more than one account may have.
SPECIFICATION Spec
CONSTANTS
    alice = alice
    bob = bob
    a1 = a1
    a2 = a2
    b1 = b1
    n1 = n1
    o1 = o1
    o2 = o2
    People = {alice, bob}
    Tabs = {a1, a2, b1}
    Owner <- TwoTabsAndOne
    Nodes = {n1}
    Observers = {o1, o2}
    MaxWatchesPerUser = 2
    MaxRulesPerWatch = 3
    MaxId = 3
    MaxRuleId = 4
    MaxToken = 2
    Rooms <- EitherRoom
SYMMETRY Interchangeable
INVARIANTS
    NothingIsLeftBehind
    SignedInAsThemselves
    LimitsHold
PROPERTIES
    OnlyTheirOwn

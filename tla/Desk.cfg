\* Two requests in flight over the trips of a day, a record of each table, or the rules.
SPECIFICATION Spec
CONSTANTS
    Handlers = {h1, h2}
    Trips = {t1, t2, t3}
    Attempts = 2
    Names = {n1, n2}
    Rules = {r1, r2}
    RuleForms <- MCRuleForms
    LastDay = 2
    Horizon = 1
    None = None
INVARIANTS
    WhatIsNamedStays
    LabelsTellTrips
    CoveredIsPayable
PROPERTIES
    TurnedAwayByOthers
    KeepsCoverage
    StaysPriced
SYMMETRY AnyHandler
CHECK_DEADLOCK FALSE

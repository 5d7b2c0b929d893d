\* Every role at every card of a trip's page, while everybody else writes to the trip.
SPECIFICATION Spec
CONSTANTS
    None = None
INVARIANTS
    PageAgreesWithApi
    OwnChangesShow
PROPERTIES
    MovedAsShown
    EndsUpShown
CHECK_DEADLOCK FALSE

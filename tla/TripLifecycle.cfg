\* A whole trip, one request at a time.
SPECIFICATION Spec
CONSTANTS
    Handlers = {h1}
    Accounts = {a1, a2}
    Staff = {p, q}
    OfficeHolders = {q}
    Attempts = 2
    None = None
    Workload = {"assignCrew", "assignTruck", "transition", "open", "setCustodian", "removeAccount",
                "compute", "payout", "remove", "book", "decide"}
SYMMETRY Symmetry
INVARIANTS
    NothingOutlives
PROPERTIES
    OnlyForward
    EnsuredAccount
    DecidedStands
CHECK_DEADLOCK FALSE

\* Crew, delivery and the office open, name and remove accounts, pay is computed and
\* handed over, and the trip is removed, two requests at a time.
SPECIFICATION Spec
CONSTANTS
    Handlers = {h1, h2}
    Accounts = {a1, a2}
    Staff = {p}
    OfficeHolders = {p}
    Attempts = 2
    None = None
    Workload = {"assignCrew", "transition", "open", "setCustodian", "removeAccount",
                "compute", "payout", "remove"}
SYMMETRY Symmetry
INVARIANTS
    AccountsStand
PROPERTIES
    PaidStands
CHECK_DEADLOCK FALSE

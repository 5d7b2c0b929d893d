\* Two requests racing over one account, its balance and its asks, with a
\* payout run.
SPECIFICATION Spec
CONSTANTS
    Handlers = {h1, h2}
    Liquidations = {a1}
    Lines = {}
    Allowances = {x1}
    Requests = {r1}
    Settlements = {s1, s2}
    Deductions = {d1, d2}
    Amounts = {1, 2}
    None = None
    Workload = {"request", "updateRequest", "approveRequest", "decline", "withdraw", "submit", "return", "approve", "reverse", "record", "carry", "clear", "payout"}
SYMMETRY Symmetry
INVARIANTS
    RacesStayOnRecord
PROPERTIES
    SettledIsFinal
CHECK_DEADLOCK FALSE

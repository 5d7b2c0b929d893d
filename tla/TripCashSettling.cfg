\* One request at a time: balances in cash, out of pay, and unwound.
SPECIFICATION Spec
CONSTANTS
    Handlers = {h1}
    Liquidations = {a1, a2}
    Lines = {l1, l2}
    Allowances = {x1}
    Requests = {}
    Settlements = {s1, s2}
    Deductions = {d1, d2}
    Amounts = {1, 2}
    None = None
    Workload = {"openAccount", "removeAccount", "addLine", "issue", "submit", "return", "approve", "reverse", "record", "carry", "clear", "payout"}
SYMMETRY Symmetry
INVARIANTS
    DebtsAddUp
    MovedMoneyStands
PROPERTIES
    KeepsTheBook
CHECK_DEADLOCK FALSE

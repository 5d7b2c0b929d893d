\* One request at a time: claims and releases against approval and reversal.
SPECIFICATION Spec
CONSTANTS
    Handlers = {h1}
    Liquidations = {a1, a2}
    Lines = {l1}
    Allowances = {x1}
    Requests = {}
    Settlements = {s1, s2}
    Deductions = {}
    Amounts = {1, 2}
    None = None
    Workload = {"addLine", "updateLine", "removeLine", "issue", "updateAllowance", "removeAllowance", "submit", "approve", "reverse"}
SYMMETRY Symmetry
INVARIANTS
    TypeOK
    FrozenFigureStands
    OnlyApprovedIsOwed
CHECK_DEADLOCK FALSE

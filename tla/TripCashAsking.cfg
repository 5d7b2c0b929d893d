\* One request at a time: asks and their answers, rebills, and the gate that
\* completes the trip.
SPECIFICATION Spec
CONSTANTS
    Handlers = {h1}
    Liquidations = {a1, a2}
    Lines = {l1}
    Allowances = {x1, x2}
    Requests = {r1}
    Settlements = {s1, s2}
    Deductions = {}
    Amounts = {1, 2}
    None = None
    Workload = {"openAccount", "removeAccount", "addLine", "removeLine", "rebill", "unrebill", "request", "updateRequest", "approveRequest", "decline", "withdraw", "removeAllowance", "submit", "return", "approve", "reverse", "complete"}
SYMMETRY Symmetry
INVARIANTS
    OneReleasePerRequest
    NothingLeftHanging
PROPERTIES
    DecisionStands
    ReleasesWhatWasAsked
    CompletedSquare
CHECK_DEADLOCK FALSE

\* What the client owes and the broker is paid: rates, the mark on the broker's
\* cut, client payments and adjustments, one request at a time; and corrections,
\* marks and verdicts racing each other.
SPECIFICATION Spec
CONSTANTS
    Handlers = {h1, h2}
    Billables = {}
    Additionals = {}
    Payments = {p1}
    Adjustments = {a1}
    Users = {dispatcher, accountant}
    Accounting = {accountant}
    Clients = {k1}
    Brokers = {b1, b2}
    GrossRates = {2, 3}
    Percents = {50}
    Flats = {1}
    Amounts = {1}
    GasRates = {25, 30}
    DefaultGas = 25
    None = None
    Unsaid = Unsaid
    Workload = {"recordPayment", "updatePayment", "removePayment", "verifyPayment", "returnPayment",
                "editBooking", "correctRates", "markCutPaid", "unmarkCut", "verifyCut", "returnCut",
                "compute", "addAdjustment", "updateAdjustment", "removeAdjustment", "payout", "transition"}
    Racing = {"markCutPaid", "unmarkCut", "verifyCut", "correctRates", "updateSetting"}
SYMMETRY Symmetry
INVARIANTS
    LedgersStand
PROPERTIES
    SignedOffStands
    PaidRecordsStand
CHECK_DEADLOCK FALSE

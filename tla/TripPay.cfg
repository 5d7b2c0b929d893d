\* What the crew are paid from: charges, corrections of the rates, the gas rate,
\* computations and payout runs, one request at a time; and computations racing payouts.
SPECIFICATION Spec
CONSTANTS
    Handlers = {h1, h2}
    Billables = {b1}
    Additionals = {c1}
    Payments = {}
    Adjustments = {}
    Users = {dispatcher, accountant}
    Accounting = {accountant}
    Clients = {k1, k2}
    Brokers = {}
    GrossRates = {1, 2}
    Percents = {}
    Flats = {}
    Amounts = {1}
    GasRates = {25}
    DefaultGas = 25
    None = None
    Unsaid = Unsaid
    Workload = {"addCharge", "updateCharge", "removeCharge", "approveCharge", "returnCharge",
                "editBooking", "correctRates", "overrideGas", "compute", "payout", "transition"}
    Racing = {"compute", "payout", "transition"}
SYMMETRY Symmetry
INVARIANTS
    NoChargeStranded
    PayCoversWhatCounts
PROPERTIES
    PaidBasisStands
CHECK_DEADLOCK FALSE

----------------------------- MODULE MoneyTables ----------------------------
(***************************************************************************)
(* What a trip earns and what its crew are paid for it: the shipment's     *)
(* rate chain, its charges, the client's payments, the commissions and the *)
(* adjustments, and the requests running against them.                     *)
(*                                                                         *)
(* As in TripTables, a row is None until it is inserted, soft delete sets  *)
(* live to FALSE, and a handler that has made its checks keeps what it is  *)
(* about to write in job[h]: any other handler may run before it does.     *)
(*                                                                         *)
(* Timestamps matter only in comparison with commissionsComputedAt: a      *)
(* charge's "after" is updatedAt > commissionsComputedAt, and the          *)
(* shipment's "moved" is rateChainUpdatedAt > commissionsComputedAt.       *)
(***************************************************************************)
EXTENDS Integers, FiniteSets, Functions

CONSTANTS
    Handlers,      \* API requests that may be in flight at the same time
    Billables,     \* billable_expense ids
    Additionals,   \* additional_charge ids
    Payments,      \* client_payment ids
    Adjustments,   \* adjustment ids
    Users,         \* sessions that may write to a trip's money
    Accounting,    \* those of them that may approve (CAN_WRITE_SHIPMENT_MONEY)
    Clients,       \* client ids; commission rules are scoped by them
    Brokers,       \* third_party ids
    GrossRates,    \* freight rates
    Percents,      \* a broker's cut, as a percentage of the gross rate
    Flats,         \* a broker's cut, as a figure
    Amounts,       \* charges, payments and adjustments
    GasRates,      \* gas deduction rates, percent
    DefaultGas,    \* the rate a fresh SystemSetting row carries
    Workload,      \* the handlers clients call in this instance, one at a time,
    Racing,        \* or these, with requests overlapping
    Unsaid,        \* a field a PATCH does not mention
    None           \* SQL NULL, and a row that does not exist

ASSUME AmountsAreNatural ==
    /\ GrossRates \cup Percents \cup Flats \cup Amounts \cup GasRates \subseteq Nat
    /\ DefaultGas \in GasRates
ASSUME AccountingAreUsers == Accounting \subseteq Users
ASSUME MarkersAreDistinct ==
    /\ None # Unsaid
    /\ {None, Unsaid} \cap (Brokers \cup Clients \cup Users \cup Nat) = {}
    /\ Billables \cap Additionals = {}

VARIABLES
    shipment,      \* status, client, rate chain, the payment of the broker's cut, gas override
    charge,        \* billable expenses and additional charges
    payment,       \* what the client has paid
    commission,    \* the live computation, with what it was computed from
    adjustment,    \* one-off changes to somebody's pay
    gasSetting,    \* SystemSetting.gasExpenseDeductionRate
    job            \* what each running handler has checked and will write

tables == <<shipment, charge, payment, commission, adjustment, gasSetting>>
vars == <<tables, job>>

Charges == Billables \cup Additionals
-----------------------------------------------------------------------------
VerificationStatus == {"UNVERIFIED", "VERIFIED", "RETURNED"}

\* The verification columns of a row: the status, and whose stamp it carries.
Verification == [status : VerificationStatus, by : Users \cup {None}]

MayVerify(u) == u \in Accounting
Unverified == [status |-> "UNVERIFIED", by |-> None]
Verified(u) == [status |-> "VERIFIED", by |-> u]
Returned(u) == [status |-> "RETURNED", by |-> u]

\* Mutant: a dispatcher's write carries the dispatcher's name.
SignedByWriter(u) == [status |-> IF MayVerify(u) THEN "VERIFIED" ELSE "UNVERIFIED", by |-> u]

\* A write by accounting is verified on the spot, anybody else's waits.
VerificationOnWriteBy(u) == IF MayVerify(u) THEN Verified(u) ELSE Unverified

\* What is verified is closed to whoever cannot verify it.
MayAlter(v, u) == MayVerify(u) \/ v.status # "VERIFIED"
-----------------------------------------------------------------------------
TripStatus == {"DRAFT", "DISPATCHED", "DELIVERED", "COMPLETED"}

ShipmentRow == [status : TripStatus, client : Clients, broker : Brokers \cup {None},
                gross : GrossRates, percent : Percents \cup {None}, cut : Nat, net : Int,
                moved : BOOLEAN, cutPaid : Verification \cup {None},
                gas : GasRates \cup {None}]
ChargeRow == [billed : Amounts, commissionable : BOOLEAN, stamp : Verification,
              live : BOOLEAN, after : BOOLEAN]
PaymentRow == [amount : Amounts, stamp : Verification, live : BOOLEAN]
AdjustmentRow == [amount : Amounts, live : BOOLEAN, voucher : {"none", "drafted", "paid"}]

\* What a computation read: the client its rules were resolved for, the net
\* rate, what each commissionable charge is billed, and the gas rate; and
\* whether a payout run has taken it, or paid it.
Basis == [client : Clients, net : Int, charges : SUBSET (Charges \X Amounts), gas : GasRates]
CommissionRow == [basis : Basis, voucher : {"none", "drafted", "paid"}]

Exists(table) == {x \in DOMAIN table : table[x] # None}
Live(table) == {x \in Exists(table) : table[x].live}
Unused(table) == DOMAIN table \ Exists(table)
Without(table, x) == [table EXCEPT ![x].live = FALSE]

\* A PATCH writes what it names and nothing else.
Named(field, current) == IF field = Unsaid THEN current ELSE field

Computed == commission # None
\* assertNothingPaid: no commission of the trip is on a payout line.
NothingPaid == Computed => commission.voucher = "none"
-----------------------------------------------------------------------------
Idle == [do |-> "idle"]
\* A handler that nobody calls: with one left, no request ever overlaps another.
Off == [do |-> "off"]
Working == {h \in Handlers : job[h] # Off}
OneAtATime == \A g, h \in Working : g = h

Called(h, op) == job[h] = Idle /\ op \in IF OneAtATime THEN Workload ELSE Racing
At(h, op) == job[h].do = op
Accept(h, next) == job' = [job EXCEPT ![h] = next] /\ UNCHANGED tables
Done(h) == job' = [job EXCEPT ![h] = Idle]

\* The process or its connection ends: what has been written stays, the rest is
\* never written.
Crash(h) == job[h] \notin {Idle, Off} /\ Done(h) /\ UNCHANGED tables
=============================================================================

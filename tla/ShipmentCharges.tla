--------------------------- MODULE ShipmentCharges --------------------------
(***************************************************************************)
(* ShipmentChargesService: the money a trip picks up beyond its freight.   *)
(* A dispatcher may add a line; it counts when accounting approves it.     *)
(* The claim a billable expense may defer its cost to is in TripCash.      *)
(***************************************************************************)
EXTENDS MoneyTables

\* Mutant: only the status closes charges.
EditableByStatus == shipment.status # "COMPLETED"

\* assertChargesEditable: until the trip is completed, and never once paid.
ChargesEditable == shipment.status # "COMPLETED" /\ NothingPaid

\* COUNTED_CHARGE: approved lines only.
Counted == {c \in Live(charge) : charge[c].stamp.status = "VERIFIED"}
\* Mutant: additional charges are not asked about.
MovedBillables == {c \in Billables \cap Live(charge) : charge[c].stamp.status # "UNVERIFIED"}

\* CHARGE_MAY_HAVE_MOVED_BASE: a change of any line but one still waiting.
MayHaveMovedBase == {c \in Live(charge) : charge[c].stamp.status # "UNVERIFIED"}

ChargeInput == [billed : Amounts, commissionable : BOOLEAN]
ChargePatch == [billed : Amounts \cup {Unsaid}, commissionable : BOOLEAN \cup {Unsaid}]

\* The update schema is the create schema made partial, which keeps the default
\* under isCommissionable: a PATCH that does not mention it carries false.
ParsedCommissionable(put) == Named(put.commissionable, FALSE)

ChargeJob ==
    [do : {"addCharge"}, by : Users, put : ChargeInput]
    \cup [do : {"updateCharge"}, by : Users, of : Charges, put : ChargePatch]
    \cup [do : {"removeCharge"}, by : Users, of : Charges]
    \cup [do : {"decideCharge"}, by : Accounting, of : Charges, to : {"VERIFIED", "RETURNED"}]

LoadAddCharge(h, u, put) ==
    /\ Called(h, "addCharge")
    /\ ChargesEditable
    /\ Accept(h, [do |-> "addCharge", by |-> u, put |-> put])

\* assertChargesEditable, then the row is read and assertMayAlter asked.
MayAlterCharge(h, op, u, c) ==
    /\ Called(h, op)
    /\ ChargesEditable
    /\ c \in Live(charge)
    /\ MayAlter(charge[c].stamp, u)

LoadUpdateCharge(h, u, c, put) ==
    /\ MayAlterCharge(h, "updateCharge", u, c)
    /\ Accept(h, [do |-> "updateCharge", by |-> u, of |-> c, put |-> put])

LoadRemoveCharge(h, u, c) ==
    /\ MayAlterCharge(h, "removeCharge", u, c)
    /\ Accept(h, [do |-> "removeCharge", by |-> u, of |-> c])

\* Approving an approved line is refused: it would erase who approved it first.
LoadApproveCharge(h, u, c) ==
    /\ Called(h, "approveCharge")
    /\ MayVerify(u)
    /\ ChargesEditable
    /\ c \in Live(charge)
    /\ charge[c].stamp.status # "VERIFIED"
    /\ Accept(h, [do |-> "decideCharge", by |-> u, of |-> c, to |-> "VERIFIED"])

LoadReturnCharge(h, u, c) ==
    /\ Called(h, "returnCharge")
    /\ MayVerify(u)
    /\ ChargesEditable
    /\ c \in Live(charge)
    /\ Accept(h, [do |-> "decideCharge", by |-> u, of |-> c, to |-> "RETURNED"])
-----------------------------------------------------------------------------
\* Every write touches updatedAt, which is then later than any computation.
WriteCharge(h, c, row) ==
    /\ charge' = [charge EXCEPT ![c] = [row EXCEPT !.after = Computed]]
    /\ Done(h)
    /\ UNCHANGED <<shipment, payment, commission, adjustment, gasSetting>>

AddCharge(h, c) ==
    /\ At(h, "addCharge")
    /\ c \in Unused(charge)
    /\ WriteCharge(h, c, [billed |-> job[h].put.billed,
                          commissionable |-> job[h].put.commissionable,
                          stamp |-> VerificationOnWriteBy(job[h].by),
                          live |-> TRUE, after |-> FALSE])

AddBillableExpense(h) == \E c \in Billables : AddCharge(h, c)
AddAdditionalCharge(h) == \E c \in Additionals : AddCharge(h, c)

\* The row is patched and its verification decided again by whoever wrote it.
UpdateCharge(h) ==
    /\ At(h, "updateCharge")
    /\ WriteCharge(h, job[h].of,
           [charge[job[h].of] EXCEPT
                !.billed = Named(job[h].put.billed, @),
                !.commissionable = ParsedCommissionable(job[h].put),
                !.stamp = VerificationOnWriteBy(job[h].by)])

RemoveCharge(h) ==
    /\ At(h, "removeCharge")
    /\ charge' = Without(charge, job[h].of)
    /\ Done(h)
    /\ UNCHANGED <<shipment, payment, commission, adjustment, gasSetting>>

DecideCharge(h) ==
    /\ At(h, "decideCharge")
    /\ WriteCharge(h, job[h].of,
           [charge[job[h].of] EXCEPT !.stamp = [status |-> job[h].to, by |-> job[h].by]])

ChargeCalled(h) ==
    \E u \in Users :
        \/ \E put \in ChargeInput : LoadAddCharge(h, u, put)
        \/ \E c \in Charges : \E put \in ChargePatch : LoadUpdateCharge(h, u, c, put)
        \/ \E c \in Charges :
              \/ LoadRemoveCharge(h, u, c)
              \/ LoadApproveCharge(h, u, c)
              \/ LoadReturnCharge(h, u, c)

ChargeStep(h) ==
    \/ job[h] = Idle /\ ChargeCalled(h)
    \/ AddBillableExpense(h) \/ AddAdditionalCharge(h)
    \/ UpdateCharge(h) \/ RemoveCharge(h) \/ DecideCharge(h)
=============================================================================

---------------------------- MODULE CommissionPay ---------------------------
(***************************************************************************)
(* CommissionService.computeForShipment as far as it fixes what pay was    *)
(* computed from, and AdjustmentsService.  A payout run, which no service  *)
(* builds yet, may take the unpaid commissions and adjustments of a trip   *)
(* on a voucher, drop the draft, and pay it.                               *)
(***************************************************************************)
EXTENDS ShipmentCharges

\* isCommissionComputable: once delivered, until completed.
Computable == shipment.status = "DELIVERED"

\* resolveGasDeductionRate: the override on the trip, or the setting.
GasRate == IF shipment.gas # None THEN shipment.gas ELSE gasSetting

\* buildChain: the net rate and the approved charges that carry commission.
CommissionableCharges == {<<c, charge[c].billed>> : c \in {k \in Counted : charge[k].commissionable}}
BasisNow == [client |-> shipment.client, net |-> shipment.net,
             charges |-> CommissionableCharges, gas |-> GasRate]

\* isComputationStale: the rate chain, or a charge that may have counted, is
\* newer than the computation.
Stale == Computed /\ (shipment.moved \/ \E c \in MayHaveMovedBase : charge[c].after)

PayJob ==
    [do : {"compute"}, basis : Basis]
    \cup [do : {"addAdjustment"}, amount : Amounts]
    \cup [do : {"updateAdjustment"}, of : Adjustments, amount : Amounts]
    \cup [do : {"removeAdjustment"}, of : Adjustments]

LoadCompute(h) ==
    /\ Called(h, "compute")
    /\ Computable
    /\ NothingPaid
    /\ Accept(h, [do |-> "compute", basis |-> BasisNow])

\* paid_commission_no_soft_delete: a paid commission cannot be superseded.
MaySupersede == Computed => commission.voucher # "paid"

\* One transaction: the old rows are soft-deleted, commissionsComputedAt is the
\* time of this write, and the new rows carry what was read before it.
Compute(h) ==
    /\ At(h, "compute")
    /\ MaySupersede
    /\ commission' = [basis |-> job[h].basis, voucher |-> "none"]
    /\ shipment' = [shipment EXCEPT !.moved = FALSE]
    /\ charge' = [c \in Charges |-> IF charge[c] = None THEN None
                                    ELSE [charge[c] EXCEPT !.after = FALSE]]
    /\ Done(h)
    /\ UNCHANGED <<payment, adjustment, gasSetting>>

ComputeRefused(h) == At(h, "compute") /\ ~ MaySupersede /\ Done(h) /\ UNCHANGED tables
-----------------------------------------------------------------------------
PutAdjustment(h, a, row) ==
    /\ adjustment' = [adjustment EXCEPT ![a] = row]
    /\ Done(h)
    /\ UNCHANGED <<shipment, charge, payment, commission, gasSetting>>

\* Whoever it names must have worked the trip; no status closes adjustments.
LoadAddAdjustment(h, amount) ==
    /\ Called(h, "addAdjustment")
    /\ Accept(h, [do |-> "addAdjustment", amount |-> amount])

CreateAdjustment(h, a) ==
    /\ At(h, "addAdjustment")
    /\ a \in Unused(adjustment)
    /\ PutAdjustment(h, a, [amount |-> job[h].amount, live |-> TRUE, voucher |-> "none"])

\* Mutant: an adjustment is closed when its run is paid, not when it is drafted.
NotYetPaid(a) == a \in Live(adjustment) /\ adjustment[a].voucher # "paid"

\* assertUnpaid
Unpaid(a) == a \in Live(adjustment) /\ adjustment[a].voucher = "none"

LoadUpdateAdjustment(h, a, amount) ==
    /\ Called(h, "updateAdjustment")
    /\ Unpaid(a)
    /\ Accept(h, [do |-> "updateAdjustment", of |-> a, amount |-> amount])

UpdateAdjustment(h) ==
    /\ At(h, "updateAdjustment")
    /\ PutAdjustment(h, job[h].of, [adjustment[job[h].of] EXCEPT !.amount = job[h].amount])

LoadRemoveAdjustment(h, a) ==
    /\ Called(h, "removeAdjustment")
    /\ Unpaid(a)
    /\ Accept(h, [do |-> "removeAdjustment", of |-> a])

\* No trigger protects a paid adjustment, as one protects a paid commission.
RemoveAdjustment(h) ==
    /\ At(h, "removeAdjustment")
    /\ PutAdjustment(h, job[h].of, [adjustment[job[h].of] EXCEPT !.live = FALSE])
-----------------------------------------------------------------------------
Vouchered(from, to) ==
    /\ commission' = IF Computed /\ commission.voucher = from
                     THEN [commission EXCEPT !.voucher = to] ELSE commission
    /\ adjustment' = [a \in Adjustments |->
                         IF a \in Live(adjustment) /\ adjustment[a].voucher = from
                         THEN [adjustment[a] EXCEPT !.voucher = to] ELSE adjustment[a]]
    /\ UNCHANGED <<shipment, charge, payment, gasSetting, job>>

PayoutStep(h) ==
    /\ Called(h, "payout")
    /\ \/ Computed /\ commission.voucher = "none" /\ Vouchered("none", "drafted")
       \/ Computed /\ commission.voucher = "drafted"
          /\ (Vouchered("drafted", "none") \/ Vouchered("drafted", "paid"))

PayStep(h) ==
    \/ LoadCompute(h) \/ Compute(h) \/ ComputeRefused(h)
    \/ \E amount \in Amounts :
          \/ LoadAddAdjustment(h, amount)
          \/ \E a \in Adjustments : LoadUpdateAdjustment(h, a, amount)
    \/ \E a \in Adjustments : CreateAdjustment(h, a) \/ LoadRemoveAdjustment(h, a)
    \/ UpdateAdjustment(h) \/ RemoveAdjustment(h)
    \/ PayoutStep(h)
=============================================================================

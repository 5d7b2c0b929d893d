------------------------------ MODULE TripMoney -----------------------------
(***************************************************************************)
(* The money of one trip: its rates, charges, payments and crew pay, from  *)
(* booking to completion.  The cash the crew carry is TripCash, the crew   *)
(* and the accounts TripLifecycle; here the trip only moves forward and    *)
(* the completion gate asks what concerns these tables.                    *)
(***************************************************************************)
EXTENDS CommissionPay, RateChain, ClientPayments

MoveJob == [do : {"transition"}, to : TripStatus]
Job == {Idle, Off} \cup ChargeJob \cup RateJob \cup PaymentJob \cup PayJob \cup MoveJob

\* isAllowedManualTransition: one step at a time, forward.
Follows == [DRAFT |-> "DISPATCHED", DISPATCHED |-> "DELIVERED", DELIVERED |-> "COMPLETED"]
IsAllowed(from, to) == from \in DOMAIN Follows /\ Follows[from] = to

\* assertReadyToComplete, the part about commissions and charges.
Waiting == {c \in Live(charge) : charge[c].stamp.status = "UNVERIFIED"}
\* Mutant: only billable expenses are counted.
ReadyButAdditionals == Computed /\ Waiting \cap Billables = {}

ReadyToComplete == Computed /\ Waiting = {}

LoadTransition(h, to) ==
    /\ Called(h, "transition")
    /\ IsAllowed(shipment.status, to)
    /\ to = "COMPLETED" => ReadyToComplete
    /\ Accept(h, [do |-> "transition", to |-> to])

Transition(h) ==
    /\ At(h, "transition")
    /\ PutShipment(h, [shipment EXCEPT !.status = job[h].to])

FirstHandler == CHOOSE h \in Handlers : TRUE

\* ShipmentsService.create: the chain is computed from what was agreed, and a
\* cut needs a broker.
Init ==
    /\ \E client \in Clients, broker \in Brokers \cup {None}, gross \in GrossRates,
          percent \in Percents \cup {None}, flat \in Flats \cup {None} :
          LET rates == ComputeRateChain(gross, percent, flat) IN
          /\ UnambiguousTpc(percent, flat)
          /\ BrokerForTpc(broker, percent, flat)
          /\ NetRateIsSane(rates)
          /\ shipment = [status |-> "DRAFT", client |-> client, broker |-> broker,
                         gross |-> gross, percent |-> percent, cut |-> rates.cut,
                         net |-> rates.net, moved |-> FALSE, cutPaid |-> None, gas |-> None]
    /\ charge = [c \in Charges |-> None]
    /\ payment = [p \in Payments |-> None]
    /\ adjustment = [a \in Adjustments |-> None]
    /\ commission = None
    /\ gasSetting = DefaultGas
    /\ \E called \in {{FirstHandler}, Handlers} :
          job = [h \in Handlers |-> IF h \in called THEN Idle ELSE Off]

MoveStep(h) == Transition(h) \/ \E to \in TripStatus : LoadTransition(h, to)

Next ==
    \E h \in Working :
        ChargeStep(h) \/ RateStep(h) \/ PaymentStep(h) \/ PayStep(h) \/ MoveStep(h) \/ Crash(h)

Spec == Init /\ [][Next]_vars
-----------------------------------------------------------------------------
TypeOK ==
    /\ shipment \in ShipmentRow
    /\ charge \in [Charges -> ChargeRow \cup {None}]
    /\ payment \in [Payments -> PaymentRow \cup {None}]
    /\ commission \in CommissionRow \cup {None}
    /\ adjustment \in [Adjustments -> AdjustmentRow \cup {None}]
    /\ gasSetting \in GasRates
    /\ job \in [Handlers -> Job]

(* What holds however requests interleave. *)

\* The four columns of the rate chain are written together from one reading, so
\* they never drift apart: gross - cut = net, the net rate crew are paid from is
\* not negative, and a percentage deal's cut is the centavo nearest to that
\* percentage of this gross, the larger of two equally near (computeRateChain,
\* assertNetRateIsSane).
NearestCentavo(cut, hundredths) == 100 * cut - 50 <= hundredths /\ hundredths < 100 * cut + 50
RatesAddUp ==
    /\ shipment.net = shipment.gross - shipment.cut
    /\ shipment.percent # None =>
          NearestCentavo(shipment.cut, shipment.gross * shipment.percent)
    /\ shipment.net >= 0

\* A verdict on a charge, a payment or the broker's cut always carries the name
\* of somebody in accounting, and a row nobody has judged carries none
\* (verificationOnWriteBy, decide, the verification CHECKs).
Signed(stamp) == IF stamp.status = "UNVERIFIED" THEN stamp.by = None ELSE MayVerify(stamp.by)
VerdictsAreSigned ==
    /\ \A c \in Exists(charge) : Signed(charge[c].stamp)
    /\ \A p \in Exists(payment) : Signed(payment[p].stamp)
    /\ shipment.cutPaid # None => Signed(shipment.cutPaid)

\* Every row is whole, whoever writes at the same time: typed, its rates summed and
\* its verdict signed.
LedgersStand == TypeOK /\ RatesAddUp /\ VerdictsAreSigned

(* What holds while requests do not overlap. *)

\* A charge is never left waiting on a trip that is completed, where nobody
\* could approve it any more (assertReadyToComplete, assertChargesEditable).
NoChargeStranded == OneAtATime /\ shipment.status = "COMPLETED" => Waiting = {}

\* Unless the trip says its pay is stale, the crew's pay was computed from this
\* client's rules and this net rate, and with every charge that counts, at what
\* it is billed (isComputationStale).  Staleness is a comparison of timestamps, and
\* a charge that stops counting leaves none: the coverage is one way, and the pay
\* may rest on more than counts now (StaleSaysSo below).
PayCoversWhatCounts ==
    OneAtATime /\ Computed /\ ~ Stale =>
        /\ commission.basis.client = shipment.client
        /\ commission.basis.net = shipment.net
        /\ CommissionableCharges \subseteq commission.basis.charges

\* What accounting has signed off changes only by accounting's hand: a verified
\* charge, payment or payment of the cut is not edited, removed, unmarked or put
\* back to waiting by anybody else (assertMayAlter, assertMayAlterCutPayment).
SignedOff(stamp) == stamp.status = "VERIFIED"
ByAccounting == \E h \in Handlers : job[h] # job'[h] /\ job[h].by \in Accounting
LeavesSignedOff ==
    /\ \A c \in Live(charge) :
          SignedOff(charge[c].stamp)
          /\ [charge'[c] EXCEPT !.after = FALSE] # [charge[c] EXCEPT !.after = FALSE] =>
              ByAccounting
    /\ \A p \in Live(payment) :
          SignedOff(payment[p].stamp) /\ payment'[p] # payment[p] => ByAccounting
    /\ shipment.cutPaid # None /\ shipment'.cutPaid # shipment.cutPaid =>
          (SignedOff(shipment.cutPaid) => ByAccounting)
SignedOffStands == [][OneAtATime => LeavesSignedOff]_vars

\* Once a payout run has taken the crew's pay, what it was computed from does
\* not move: the client and so the rules, the net rate, the charges that count,
\* the trip's own gas rate (assertNothingPaid).
LeavesPaidBasis ==
    ~ NothingPaid =>
        /\ shipment'.client = shipment.client
        /\ shipment'.net = shipment.net
        /\ shipment'.gas = shipment.gas
        /\ CommissionableCharges' = CommissionableCharges
        /\ commission'.basis = commission.basis

\* A commission that has been paid is never superseded, not even by a computation
\* that ran beside the payout (paid_commission_no_soft_delete).
LeavesPaidPay == Computed /\ commission.voucher = "paid" => commission' = commission
PaidBasisStands == [][LeavesPaidPay /\ (OneAtATime => LeavesPaidBasis)]_vars

\* An adjustment that is on a voucher keeps its amount and is not removed
\* (assertUnpaid).
LeavesPaidAdjustments ==
    \A a \in Live(adjustment) : adjustment[a].voucher # "none" =>
        adjustment'[a].live /\ adjustment'[a].amount = adjustment[a].amount

\* While the broker's cut is marked as paid its amount does not move
\* (assertCutNotSettled).  The amount only: an edit of the booking may still put
\* another broker under the mark (PaidBrokerStands below).
LeavesPaidCut ==
    shipment.cutPaid # None /\ shipment'.cutPaid # None => shipment'.cut = shipment.cut

\* A record of money paid out, to crew or broker, keeps the amount that was paid.
PaidRecordsStand == [][OneAtATime => LeavesPaidAdjustments /\ LeavesPaidCut]_vars

(* What the code does not keep, even without overlap. *)

\* isComputationStale is "True when the stored commission chain predates the
\* figures it is supposed to be derived from", the override of the gas rate and
\* a charge that no longer counts included.  The system-wide rate is left out:
\* a change of it is documented to move no computation.
StaleSaysSo ==
    Computed =>
        \/ Stale
        \/ /\ commission.basis.client = shipment.client
           /\ commission.basis.net = shipment.net
           /\ commission.basis.charges = CommissionableCharges
           /\ shipment.gas # None => commission.basis.gas = shipment.gas

\* Changing the broker under a mark "would leave the record describing a payment
\* that no longer matches the deal" (assertCutNotSettled).
LeavesPaidBroker ==
    shipment.cutPaid # None /\ shipment'.cutPaid # None => shipment'.broker = shipment.broker
PaidBrokerStands == [][LeavesPaidBroker]_vars

\* A PATCH writes what it names and nothing else: a charge stops being
\* commissionable only because a request says so.
LeavesUnnamedFlag ==
    \A h \in Handlers, c \in Live(charge) :
        At(h, "updateCharge") /\ charge'[c] # charge[c] /\ job[h].put.commissionable = Unsaid =>
            charge'[c].commissionable = charge[c].commissionable
UnnamedFlagStands == [][LeavesUnnamedFlag]_vars
=============================================================================

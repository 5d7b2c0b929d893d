------------------------------ MODULE TripCards -----------------------------
(***************************************************************************)
(* The page of one trip: which cards it mounts for a role, which buttons   *)
(* each card shows of the trip as the page last read it, and which queries *)
(* a card has read again once its write was accepted.                      *)
(*                                                                         *)
(* The cards spell their own lists of roles and conditions: they do not    *)
(* read role-policy.ts, nor the guards of the services.                    *)
(***************************************************************************)
EXTENDS TripRoutes

Accounting(r) == r \in {"ADMINISTRATOR", "ACCOUNTING"}
Office(r) == r # "CREW"

BookingDetailsDialog(r, t) ==
    {op \in {"editDetails"} : r \in {"ADMINISTRATOR", "DISPATCH_MANAGER"} /\ ~ Closed(t)}
RemoveShipmentButton(r, t) ==
    {op \in {"removeTrip"} :
        r = "ADMINISTRATOR" \/ (r = "DISPATCH_MANAGER" /\ t.status = "DRAFT")}
\* Mutant: the list of roles the card had before the dispatch manager was added to it.
CrewCardWithoutManager(r, t) ==
    {op \in {"saveCrew", "saveTruck"} : r = "ADMINISTRATOR"}
    \cup {op \in {"dispatch"} : r = "ADMINISTRATOR" /\ t.status = "DRAFT"}
    \cup {op \in {"depart"} : r = "ADMINISTRATOR" /\ t.status = "DISPATCHED"}
    \cup {op \in {"deliver"} : r = "ADMINISTRATOR" /\ t.status = "IN_TRANSIT"}
    \cup {op \in {"complete"} : Accounting(r) /\ t.status = "DELIVERED"}
CrewAndLifecycleCard(r, t) ==
    LET canDispatch == r \in {"ADMINISTRATOR", "DISPATCH_MANAGER"} IN
    {op \in {"saveCrew", "saveTruck"} : canDispatch}
    \cup {op \in {"dispatch"} : canDispatch /\ t.status = "DRAFT"}
    \cup {op \in {"depart"} : canDispatch /\ t.status = "DISPATCHED"}
    \cup {op \in {"deliver"} : canDispatch /\ t.status = "IN_TRANSIT"}
    \cup {op \in {"complete"} : Accounting(r) /\ t.status = "DELIVERED"}
GasRateOverrideCard(r) == {op \in {"overrideGas"} : Accounting(r)}
-----------------------------------------------------------------------------
CorrectionForm(r, t) == {op \in {"correctRates"} : Accounting(r) /\ ~ Closed(t)}
\* Marking the cut as paid, and editing what was marked.
ThirdPartyPaymentForm == {"markCut"}
\* There is a payment to speak of only when a broker is owed a cut.
ThirdPartyPayment(r, t) ==
    LET mayRecord == Accounting(r) \/ r = "DISPATCH_MANAGER"
        mayAlter == mayRecord /\ (Accounting(r) \/ t.row # "VERIFIED")
    IN  IF t.row = "direct" \/ ~ mayAlter THEN {}
        ELSE ThirdPartyPaymentForm \cup {op \in {"unmarkCut"} : t.row \in VerificationStatus}
CutVerifyControls(r, t) ==
    {op \in {"verifyCut"} : Accounting(r) /\ t.row \in {"UNVERIFIED", "RETURNED"}}
    \cup {op \in {"returnCut"} : Accounting(r) /\ t.row \in VerificationStatus}
RateChainCard(k, r, t) ==
    IF k = "cut" THEN ThirdPartyPayment(r, t) \cup CutVerifyControls(r, t) ELSE CorrectionForm(r, t)
-----------------------------------------------------------------------------
\* The accounts the list route returns to the viewer.
Listed(r, t) == t.account # None /\ (r \in SeesOnlyOwnFloat => t.whose = "mine")
MayAccountFor(r, t) ==
    IF r \in ConfinedToTheirOwnFloat THEN t.whose \in {"mine", "aboard"} ELSE Accounting(r)
OpenAccountForm(r) == {op \in {"openAccount"} : Accounting(r)}
CustodianPicker(r, t) ==
    {op \in {"nameCustodian"} : Accounting(r) /\ t.whose \in {"nobodys", "aboard"} /\ AccountOpen(t)}
\* Shown while the trip has another account, which is not followed.
RemoveAccountButton(r, t) == {op \in {"removeAccount"} : Accounting(r) /\ AccountOpen(t)}
Lines(r, t) ==
    {op \in {"addLine", "removeLine"} : AccountOpen(t) /\ MayAccountFor(r, t)}
SelfSavingField(r, t) == {op \in {"describe"} : AccountOpen(t) /\ MayAccountFor(r, t)}
Actions(r, t) ==
    {op \in {"submit"} : MayAccountFor(r, t) /\ t.account = "PENDING"}
    \cup {op \in {"approve", "sendBack"} : Accounting(r) /\ t.account = "SUBMITTED"}
    \cup {op \in {"reverse"} : Accounting(r) /\ t.account = "APPROVED"}
Account(r, t) ==
    CustodianPicker(r, t) \cup RemoveAccountButton(r, t) \cup SelfSavingField(r, t)
    \cup Lines(r, t) \cup Actions(r, t)
LiquidationCard(r, t) == OpenAccountForm(r) \cup (IF Listed(r, t) THEN Account(r, t) ELSE {})
-----------------------------------------------------------------------------
RequestForm(r, t) ==
    {op \in {"ask"} : r \in {"ADMINISTRATOR", "DISPATCH_MANAGER"} /\ AccountOpen(t)}
EditDialog == {"editAsk"}
ApproveDialog == {"approveAsk"}
DeclineDialog == {"decline"}
RequestRow(r, t) ==
    IF t.row # "PENDING" THEN {}
    ELSE (IF r \in {"ADMINISTRATOR", "DISPATCH_MANAGER"} THEN EditDialog \cup {"withdraw"} ELSE {})
         \cup (IF Accounting(r) THEN ApproveDialog \cup DeclineDialog ELSE {})
AllowanceRequestsCard(r, t) == RequestForm(r, t) \cup RequestRow(r, t)
\* canIssue, which the API answers with the releases.
CanIssue(t) == AccountOpen(t) /\ ~ Closed(t)
MoveAccountDialog(r, t) ==
    {op \in {"moveRelease"} : Accounting(r) /\ CanIssue(t) /\ t.row = "released"}
IssueForm(r, t) == {op \in {"issue"} : Accounting(r) /\ CanIssue(t)}
AllowancesCard(r, t) ==
    MoveAccountDialog(r, t) \cup IssueForm(r, t)
    \cup {op \in {"removeRelease"} : Accounting(r) /\ CanIssue(t) /\ t.row = "released"}
SettleForm(t) == {"recordMovement"} \cup {op \in {"carry"} : t.row = "crewOwes"}
SettlementRow(r, t) ==
    IF Accounting(r) /\ t.row \in {"crewOwes", "companyOwes"} THEN SettleForm(t) ELSE {}
\* Nothing is shown of a trip without settlements.
SettlementCard(r, t) == IF t.row = "none" THEN {} ELSE SettlementRow(r, t)
-----------------------------------------------------------------------------
CanAdd(r) == Accounting(r) \/ r = "DISPATCHER"
MayRemove(r, t) == Accounting(r) \/ (CanAdd(r) /\ t.row # "VERIFIED")
\* A charge stands for a billable expense and for an additional charge.
BillableExpenses(r, t) ==
    {op \in {"addCharge"} : CanAdd(r)}
    \cup {op \in {"removeCharge"} : t.row # "none" /\ MayRemove(r, t)}
AdditionalCharges(r, t) == BillableExpenses(r, t)
ChargeApproval(r, t) ==
    {op \in {"approveCharge", "returnCharge"} : Accounting(r) /\ t.row = "UNVERIFIED"}
ChargesCard(r, t) ==
    BillableExpenses(r, t) \cup AdditionalCharges(r, t) \cup ChargeApproval(r, t)
CompanyExpensesCard(r, t) ==
    {op \in {"addExpense"} : Accounting(r)}
    \cup {op \in {"removeExpense"} : Accounting(r) /\ t.row = "recorded"}
\* Mutant: an approved payment stays in the hands of whoever recorded it.
PaymentFormAlways(r, t) ==
    LET canRecord == Accounting(r) \/ r = "DISPATCH_MANAGER" IN
    {op \in {"recordPayment"} : canRecord}
    \cup {op \in {"editPayment", "reversePayment"} : t.row # "none" /\ canRecord}
PaymentForm(r, t) ==
    LET canRecord == Accounting(r) \/ r = "DISPATCH_MANAGER" IN
    {op \in {"recordPayment"} : canRecord}
    \cup {op \in {"editPayment", "reversePayment"} :
            t.row # "none" /\ canRecord /\ (Accounting(r) \/ t.row # "VERIFIED")}
VerifyControls(r, t) ==
    {op \in {"verifyPayment"} : Accounting(r) /\ t.row \in {"UNVERIFIED", "RETURNED"}}
    \cup {op \in {"returnPayment"} : Accounting(r) /\ t.row # "none"}
PaymentsCard(r, t) == PaymentForm(r, t) \cup VerifyControls(r, t)
AdjustmentForm == {"adjust"}
AdjustmentRow(r, t) == {op \in {"removeAdjustment"} : Accounting(r) /\ t.row = "recorded"}
CrewPayRow(r, t) == AdjustmentRow(r, t) \cup (IF Accounting(r) THEN AdjustmentForm ELSE {})
CommissionsCard(r, t) == {op \in {"compute"} : Accounting(r) /\ ~ t.paid} \cup CrewPayRow(r, t)
-----------------------------------------------------------------------------
\* Page: what it shows of the trip it read, by the card the trip is followed on.
Offers(k, r, t) ==
    IF t = None THEN {}
    ELSE CASE k = "account" -> LiquidationCard(r, t)
           [] k = "booking" -> IF Office(r)
                               THEN BookingDetailsDialog(r, t) \cup RemoveShipmentButton(r, t)
                                    \cup CrewAndLifecycleCard(r, t) \cup RateChainCard(k, r, t)
                                    \cup (IF r = "DISPATCHER" THEN {} ELSE GasRateOverrideCard(r))
                               ELSE {}
           [] k = "cut"     -> IF Office(r) THEN RateChainCard(k, r, t) ELSE {}
           [] k = "request" -> IF r \in {"CREW", "DISPATCHER"} THEN {} ELSE AllowanceRequestsCard(r, t)
           [] k = "release" -> IF r \in {"CREW", "DISPATCHER"} THEN {} ELSE AllowancesCard(r, t)
           [] k = "settlement" -> IF r \in {"CREW", "DISPATCHER"} THEN {} ELSE SettlementCard(r, t)
           [] k = "charge"  -> IF Office(r) THEN ChargesCard(r, t) ELSE {}
           [] k = "expense" -> IF Office(r) THEN CompanyExpensesCard(r, t) ELSE {}
           [] k = "payment" -> IF Office(r) THEN PaymentsCard(r, t) ELSE {}
           [] k = "pay"     -> IF Office(r) THEN CommissionsCard(r, t) ELSE {}
-----------------------------------------------------------------------------
\* The queries each card holds.
Reads ==
    [Page |-> {"detail"},
     LiquidationCard |-> {"liquidations", "expenseCategories"},
     CommissionsCard |-> {"crewPay"},
     CrewAndLifecycleCard |-> {"staff", "trucks"},
     AllowanceRequestsCard |-> {"allowanceRequests", "liquidations"},
     AllowancesCard |-> {"allowances", "liquidations"},
     SettlementCard |-> {"settlements"},
     GasRateOverrideCard |-> {"gasRate"},
     ChargesCard |-> {"billableExpenses", "additionalCharges", "expenseCategories", "liquidations"},
     CompanyExpensesCard |-> {"companyExpenses", "expenseCategories"},
     GrossProfitCard |-> {"grossProfit"},
     PaymentsCard |-> {"payments"}]
\* Mutant: a dispatcher is shown the requests as well.
CardsWithRequests(r) ==
    {"Page", "LiquidationCard", "AllowanceRequestsCard"}
Cards(r) ==
    {"Page", "LiquidationCard"}
    \cup (IF Office(r)
          THEN {"CommissionsCard", "CrewAndLifecycleCard", "ChargesCard", "CompanyExpensesCard",
                "PaymentsCard"}
          ELSE {})
    \cup (IF Office(r) /\ r # "DISPATCHER"
          THEN {"AllowanceRequestsCard", "AllowancesCard", "SettlementCard", "GasRateOverrideCard",
                "GrossProfitCard"}
          ELSE {})
Mounted(r) == UNION {Reads[c] : c \in Cards(r)}
\* The pick lists of the form behind a button: who may hold the trip's cash is
\* picked from the staff (useTripCashHolders), and whom a cost was paid to from
\* the payees (PayeeField).
PickLists(op) ==
    {q \in {"clients", "routes"} : op = "editDetails"}
    \cup {q \in {"thirdParties"} : op = "correctRates"}
    \cup {q \in {"staff"} : op \in {"openAccount", "nameCustodian", "ask", "editAsk", "issue",
                                   "recordMovement", "carry"}}
    \cup {q \in {"payees"} : op \in {"addLine", "addCharge", "addExpense"}}

\* shipmentKeys.all and liquidationKeys.all: the first part of every key.
UnderShipments == {"detail", "crewPay", "payments", "billableExpenses", "additionalCharges",
                   "companyExpenses", "grossProfit", "gasRate"}
UnderLiquidation == {"liquidations", "allowances", "settlements", "allowanceRequests"}
CashOps == AccountOps \cup {"ask", "editAsk", "withdraw", "approveAsk", "decline",
                            "issue", "moveRelease", "removeRelease", "recordMovement", "carry"}
ByCrewCard == {"saveCrew", "saveTruck", "dispatch", "depart", "deliver", "complete"}
\* Mutant: the crew card asks for the shipment alone to be read again.
InvalidatesShipmentOnly(op) ==
    UnderShipments \cup (IF op \in CashOps THEN UnderLiquidation ELSE {})
\* Mutant: a card of the trip's cash has only the liquidations read again.
InvalidatesOwnRoot(op) ==
    IF op \in CashOps \cup ByCrewCard THEN UnderLiquidation ELSE UnderShipments
\* A query whose read failed is read once more; not when the API refused it, and
\* never where the card that reads it says so.  (The accounts are read by cards
\* of either kind, and whichever read first decides.)
RetriedOnce == Query \ {"settlements"}
\* When a read failed for good, most cards go on showing the rows they have; of
\* these an error, or nothing, takes their place.
HidesOnError == {"detail", "liquidations", "settlements"}

\* What onSuccess has read again.  Every card names the shipments; the cards
\* of the trip's cash, and the crew card, name the liquidations too.
Invalidates(op) ==
    UnderShipments \cup (IF op \in CashOps \cup ByCrewCard THEN UnderLiquidation ELSE {})

\* The writes that change the answer of each of the page's queries: those that
\* write a row, or a column, which the query reads.  Which those are is decided
\* in the services, of the query and of the write.
AltersDetail ==
    Op \ {"describe", "ask", "editAsk", "withdraw", "decline", "adjust", "removeAdjustment"}
AltersLiquidations ==
    AccountOps \cup {"saveCrew", "deliver", "approveAsk", "issue", "moveRelease", "removeRelease"}
\* With canIssue, the names of the accounts, and the route's standard allowance.
AltersAllowances ==
    {"openAccount", "nameCustodian", "removeAccount", "describe", "approve", "reverse", "saveCrew",
     "deliver", "complete", "editDetails", "approveAsk", "issue", "moveRelease", "removeRelease"}
AltersRequests ==
    {"nameCustodian", "describe", "ask", "editAsk", "withdraw", "approveAsk", "decline"}
AltersSettlements ==
    {"nameCustodian", "describe", "approve", "reverse", "recordMovement", "carry"}
AltersCrewPay == {"saveCrew", "compute", "adjust", "removeAdjustment"}
AltersGasRate == {"overrideGas", "compute"}
AltersCharges == {"addCharge", "removeCharge", "approveCharge", "returnCharge"}
\* The receivable is read with the payments.
AltersPayments ==
    AltersCharges \cup {"correctRates", "complete", "markCut", "unmarkCut", "verifyCut", "returnCut",
        "recordPayment", "editPayment", "reversePayment", "verifyPayment", "returnPayment"}
AltersExpenses == {"addExpense", "removeExpense"}
\* What the accounts say is counted before they are approved, and whether the
\* commissions are stale.
AltersGrossProfit ==
    AltersCharges \cup AltersExpenses
    \cup {"openAccount", "removeAccount", "addLine", "removeLine", "approve", "reverse", "deliver",
          "saveCrew", "overrideGas", "correctRates", "compute"}
Alters(op) ==
    {q \in {"detail"} : op \in AltersDetail}
    \cup {q \in {"liquidations"} : op \in AltersLiquidations}
    \cup {q \in {"allowances"} : op \in AltersAllowances}
    \cup {q \in {"allowanceRequests"} : op \in AltersRequests}
    \cup {q \in {"settlements"} : op \in AltersSettlements}
    \cup {q \in {"crewPay"} : op \in AltersCrewPay}
    \cup {q \in {"gasRate"} : op \in AltersGasRate}
    \cup {q \in {"payments"} : op \in AltersPayments}
    \cup {q \in {"billableExpenses", "additionalCharges"} : op \in AltersCharges}
    \cup {q \in {"companyExpenses"} : op \in AltersExpenses}
    \cup {q \in {"grossProfit"} : op \in AltersGrossProfit}
=============================================================================

---------------------------- MODULE ScreensProofs ---------------------------
(***************************************************************************)
(* What a person at a trip's page can rely on, by induction over the steps *)
(* of Screens: card by card the page offers what the API accepts, an       *)
(* accepted move was made on the status shown, and a write that was heard  *)
(* to be accepted is shown, being read, or its read has failed for good.   *)
(***************************************************************************)
EXTENDS Screens, TLAPS

(* Whom the routes admit, said the way the cards say it. *)

ByAccounting ==
    {"correctRates", "complete", "overrideGas", "compute", "verifyCut", "returnCut",
     "openAccount", "nameCustodian", "removeAccount", "approve", "sendBack", "reverse",
     "approveAsk", "decline", "issue", "moveRelease", "removeRelease", "recordMovement", "carry",
     "verifyPayment", "returnPayment", "approveCharge", "returnCharge",
     "addExpense", "removeExpense", "adjust", "removeAdjustment"}
ByDispatch ==
    {"editDetails", "saveCrew", "saveTruck", "dispatch", "depart", "deliver", "removeTrip",
     "ask", "editAsk", "withdraw"}
ByCollectors == {"markCut", "unmarkCut", "recordPayment", "editPayment", "reversePayment"}
ByChargers == {"addCharge", "removeCharge"}
ByCustodians == {"describe", "addLine", "removeLine", "submit"}

Admits(op, r) ==
    \/ op \in ByAccounting /\ Accounting(r)
    \/ op \in ByDispatch /\ r \in {"ADMINISTRATOR", "DISPATCH_MANAGER"}
    \/ op \in ByCollectors /\ (Accounting(r) \/ r = "DISPATCH_MANAGER")
    \/ op \in ByChargers /\ (Accounting(r) \/ r = "DISPATCHER")
    \/ op \in ByCustodians /\ r # "MANAGEMENT"

LEMMA Routes ==
    Op = ByAccounting \cup ByDispatch \cup ByCollectors \cup ByChargers \cup ByCustodians
  BY DEF Op, ByAccounting, ByDispatch, ByCollectors, ByChargers, ByCustodians,
         ShipmentsController, ShipmentMoneyRoutes, LiquidationController,
         AllowanceRequestsController, AllowancesController, SettlementController,
         ClientPaymentsController, ShipmentChargesController, CompanyPaidExpensesController,
         AdjustmentsController

\* A write is guarded by the controller that declares it, and by no other.
LEMMA Layers ==
    ASSUME NEW op \in Op
    PROVE  /\ op \in DOMAIN ShipmentsController => MayCall[op] = ShipmentsController[op]
           /\ op \in DOMAIN ShipmentMoneyRoutes => MayCall[op] = ShipmentMoneyRoutes[op]
           /\ op \in DOMAIN LiquidationController => MayCall[op] = LiquidationController[op]
           /\ op \in DOMAIN AllowanceRequestsController =>
                 MayCall[op] = AllowanceRequestsController[op]
           /\ op \in DOMAIN AllowancesController => MayCall[op] = AllowancesController[op]
           /\ op \in DOMAIN SettlementController => MayCall[op] = SettlementController[op]
           /\ op \in DOMAIN ClientPaymentsController => MayCall[op] = ClientPaymentsController[op]
           /\ op \in DOMAIN ShipmentChargesController =>
                 MayCall[op] = ShipmentChargesController[op]
           /\ op \in DOMAIN CompanyPaidExpensesController =>
                 MayCall[op] = CompanyPaidExpensesController[op]
           /\ op \in DOMAIN AdjustmentsController => MayCall[op] = AdjustmentsController[op]
  BY DEF MayCall, ShipmentsController, ShipmentMoneyRoutes, LiquidationController,
         AllowanceRequestsController, AllowancesController, SettlementController,
         ClientPaymentsController, ShipmentChargesController, CompanyPaidExpensesController,
         AdjustmentsController

\* The roles of every write, in the five groups the cards know.
LEMMA WhoMayCall ==
    ASSUME NEW op \in Op, NEW r \in UserRole
    PROVE  r \in MayCall[op] <=> Admits(op, r)
  <1> USE DEF Admits, ByAccounting, ByDispatch, ByCollectors, ByChargers, ByCustodians,
          Accounting, UserRole, CAN_WRITE_SHIPMENT_MONEY
  <1>1. CASE op \in DOMAIN ShipmentsController
    BY <1>1, Layers DEF ShipmentsController, CAN_WRITE_SHIPMENTS, CAN_EDIT_RATE_CHAIN,
       CAN_REMOVE_DRAFT_SHIPMENTS, CAN_REMOVE_ANY_SHIPMENT
  <1>2. CASE op \in DOMAIN ShipmentMoneyRoutes
    BY <1>2, Layers DEF ShipmentMoneyRoutes, CAN_RECORD_THIRD_PARTY_PAYMENT,
       CAN_VERIFY_THIRD_PARTY_PAYMENT, CAN_RECORD_CLIENT_PAYMENT, CAN_VERIFY_CLIENT_PAYMENT
  <1>3. CASE op \in DOMAIN LiquidationController
    BY <1>3, Layers DEF LiquidationController, CAN_SUBMIT_LIQUIDATION, CAN_DECIDE_LIQUIDATION
  <1>4. CASE op \in DOMAIN AllowanceRequestsController
    BY <1>4, Layers DEF AllowanceRequestsController, CAN_REQUEST_ALLOWANCE,
       CAN_DECIDE_ALLOWANCE_REQUEST
  <1>5. CASE op \in DOMAIN AllowancesController \cup DOMAIN SettlementController
    BY <1>5, Layers DEF AllowancesController, SettlementController, CAN_DECIDE_LIQUIDATION
  <1>6. CASE op \in DOMAIN ClientPaymentsController
    BY <1>6, Layers DEF ClientPaymentsController, CAN_RECORD_CLIENT_PAYMENT,
       CAN_VERIFY_CLIENT_PAYMENT
  <1>7. CASE op \in DOMAIN ShipmentChargesController
    BY <1>7, Layers DEF ShipmentChargesController, CAN_ADD_SHIPMENT_CHARGE,
       CAN_APPROVE_SHIPMENT_CHARGE
  <1>8. CASE op \in DOMAIN CompanyPaidExpensesController \cup DOMAIN AdjustmentsController
    BY <1>8, Layers DEF CompanyPaidExpensesController, AdjustmentsController
  <1> QED BY <1>1, <1>2, <1>3, <1>4, <1>5, <1>6, <1>7, <1>8 DEF Op

-----------------------------------------------------------------------------
(* The page and the API, card by card. *)

Agree(k, r, t) ==
    /\ \A op \in Offers(k, r, t) : op \in Accepts(k, r, t) \/ LeftToServer(op, t)
    /\ \A op \in Accepts(k, r, t) : op \in Offers(k, r, t) \/ NotOnScreen(op, r, t)

LEMMA Kinds ==
    Kind = {"booking", "account", "request", "release", "settlement", "payment", "charge", "cut",
            "expense", "pay"}
  BY DEF Kind, Rows

\* What the shape of a trip says of its columns.
LEMMA TripIs ==
    ASSUME NEW k \in Kind, NEW t \in Trip(k)
    PROVE  /\ t # None
           /\ t.status \in Status /\ t.paid \in BOOLEAN /\ t.row \in Rows[k]
           /\ k \in HasAccount => t.account \in LiquidationStatus \cup {None}
           /\ k \notin HasAccount => t.account = None
           /\ k = "account" => t.whose \in Whose
           /\ k # "account" => t.whose = "theirs"
  BY NoneIsNothing DEF Trip

LEMMA RoutesAreOps ==
    ASSUME NEW k \in Kind, NEW r, NEW t
    PROVE  KindRoutes(k, r, t) \subseteq Op
  <1> USE Routes DEF ByAccounting, ByDispatch, ByCollectors, ByChargers, ByCustodians, KindRoutes
  <1>1. CASE k = "account"
    BY <1>1 DEF AccountRoutes
  <1>2. CASE k = "booking"
    BY <1>2 DEF BookingRoutes, RemovalRoutes
  <1>3. CASE k \in {"request", "release", "settlement"}
    BY <1>3 DEF RequestRoutes, ReleaseRoutes, SettlementRoutes
  <1>4. CASE k \in {"payment", "charge", "cut"}
    BY <1>4 DEF PaymentRoutes, ChargeRoutes, CutRoutes
  <1>5. CASE k \in {"expense", "pay"}
    BY <1>5 DEF ExpenseRoutes, PayRoutes
  <1> QED BY <1>1, <1>2, <1>3, <1>4, <1>5, Kinds

LEMMA AcceptedIs ==
    ASSUME NEW k \in Kind, NEW r \in UserRole, NEW t \in Trip(k)
    PROVE  \A op : op \in Accepts(k, r, t) <=> op \in KindRoutes(k, r, t) /\ Admits(op, r)
  BY RoutesAreOps, WhoMayCall, TripIs DEF Accepts

\* The account: whoever may account for it, and in which status.
LEMMA AccountsAgree ==
    ASSUME NEW r \in UserRole, NEW t \in Trip("account"), Sound("account", t)
    PROVE  Agree("account", r, t)
  <1>1. t.account \in LiquidationStatus \cup {None} /\ t.whose \in Whose
        /\ None \notin LiquidationStatus /\ (t.account = None => t.whose = "theirs")
    BY TripIs, Kinds, NoneIsNothing DEF HasAccount, Sound
  <1>2. Offers("account", r, t) = LiquidationCard(r, t)
    BY TripIs, Kinds DEF Offers
  <1>3. \A op : op \in Accepts("account", r, t) <=> op \in AccountRoutes(r, t) /\ Admits(op, r)
    BY AcceptedIs, Kinds DEF KindRoutes
  <1> QED
    BY <1>1, <1>2, <1>3
       DEF Agree, Admits, ByAccounting, ByDispatch, ByCollectors, ByChargers, ByCustodians,
           Accounting, UserRole, LiquidationCard, OpenAccountForm, Account, CustodianPicker,
           RemoveAccountButton, SelfSavingField, Lines, Actions, MayAccountFor, AccountRoutes,
           AccountOpen, MayAccount, LeftToServer, NeedsMore, NotOnScreen, AccountOps,
           ConfinedToTheirOwnFloat, Whose, LiquidationStatus

\* The booking: its dialog, crew, rates, gas rate and removal.
LEMMA BookingsAgree ==
    ASSUME NEW r \in UserRole, NEW t \in Trip("booking"), Sound("booking", t)
    PROVE  Agree("booking", r, t)
  <1>1. t.status \in Status /\ t.paid \in BOOLEAN /\ t.row \in Rows["booking"]
        /\ t.account \in LiquidationStatus \cup {None} /\ None \notin LiquidationStatus
    BY TripIs, Kinds, NoneIsNothing DEF HasAccount
  <1>2. Offers("booking", r, t) = (IF Office(r)
               THEN BookingDetailsDialog(r, t) \cup RemoveShipmentButton(r, t)
                \cup CrewAndLifecycleCard(r, t) \cup CorrectionForm(r, t)
                \cup (IF r = "DISPATCHER" THEN {} ELSE GasRateOverrideCard(r))
               ELSE {})
    BY TripIs, Kinds DEF Offers, Office, RateChainCard
  <1>3. \A op : op \in Accepts("booking", r, t) <=>
            op \in (BookingRoutes("booking", t) \cup RemovalRoutes(r, t)) /\ Admits(op, r)
    BY AcceptedIs, Kinds DEF KindRoutes
  <1> QED
    BY <1>1, <1>2, <1>3
       DEF Agree, Admits, ByAccounting, ByDispatch, ByCollectors, ByChargers, ByCustodians,
           Accounting, LeftToServer, NeedsMore, BookingDetailsDialog, RemoveShipmentButton,
           CrewAndLifecycleCard, CorrectionForm, GasRateOverrideCard, BookingRoutes, RemovalRoutes,
           CAN_REMOVE_ANY_SHIPMENT, Correctable, Office

\* An ask: made on an open account of an open trip, decided while undecided.
LEMMA RequestsAgree ==
    ASSUME NEW r \in UserRole, NEW t \in Trip("request"), Sound("request", t)
    PROVE  Agree("request", r, t)
  <1>1. t.status \in Status /\ t.paid \in BOOLEAN /\ t.row \in Rows["request"]
        /\ t.account \in LiquidationStatus \cup {None} /\ None \notin LiquidationStatus
    BY TripIs, Kinds, NoneIsNothing DEF HasAccount
  <1>2. Offers("request", r, t) =
            (IF r \in {"CREW", "DISPATCHER"} THEN {} ELSE AllowanceRequestsCard(r, t))
    BY TripIs, Kinds DEF Offers
  <1>3. \A op : op \in Accepts("request", r, t) <=> op \in RequestRoutes(t) /\ Admits(op, r)
    BY AcceptedIs, Kinds DEF KindRoutes
  <1> QED
    BY <1>1, <1>2, <1>3
       DEF Agree, Admits, ByAccounting, ByDispatch, ByCollectors, ByChargers, ByCustodians,
           Accounting, LeftToServer, LiquidationStatus, AllowanceRequestsCard, RequestForm,
           RequestRow, EditDialog, ApproveDialog, DeclineDialog, AccountOpen, RequestRoutes,
           NothingWaits, Sound

\* A release: on an open account of an open trip.
LEMMA ReleasesAgree ==
    ASSUME NEW r \in UserRole, NEW t \in Trip("release"), Sound("release", t)
    PROVE  Agree("release", r, t)
  <1>1. t.status \in Status /\ t.paid \in BOOLEAN /\ t.row \in Rows["release"]
        /\ t.account \in LiquidationStatus \cup {None} /\ None \notin LiquidationStatus
    BY TripIs, Kinds, NoneIsNothing DEF HasAccount
  <1>2. Offers("release", r, t) =
            (IF r \in {"CREW", "DISPATCHER"} THEN {} ELSE AllowancesCard(r, t))
    BY TripIs, Kinds DEF Offers
  <1>3. \A op : op \in Accepts("release", r, t) <=> op \in ReleaseRoutes(t) /\ Admits(op, r)
    BY AcceptedIs, Kinds DEF KindRoutes
  <1> QED
    BY <1>1, <1>2, <1>3
       DEF Agree, Admits, ByAccounting, ByDispatch, ByCollectors, ByChargers, ByCustodians,
           Accounting, AllowancesCard, MoveAccountDialog, IssueForm, CanIssue, ReleaseRoutes

\* A balance: recorded or carried while outstanding.
LEMMA SettlementsAgree ==
    ASSUME NEW r \in UserRole, NEW t \in Trip("settlement"), Sound("settlement", t)
    PROVE  Agree("settlement", r, t)
  <1>1. t.status \in Status /\ t.paid \in BOOLEAN /\ t.row \in Rows["settlement"]
        /\ t.account \in LiquidationStatus \cup {None} /\ None \notin LiquidationStatus
    BY TripIs, Kinds, NoneIsNothing DEF HasAccount
  <1>2. Offers("settlement", r, t) =
            (IF r \in {"CREW", "DISPATCHER"} THEN {} ELSE SettlementCard(r, t))
    BY TripIs, Kinds DEF Offers
  <1>3. \A op : op \in Accepts("settlement", r, t) <=>
            op \in SettlementRoutes(t) /\ Admits(op, r)
    BY AcceptedIs, Kinds DEF KindRoutes
  <1> QED
    BY <1>1, <1>2, <1>3
       DEF Agree, Admits, ByAccounting, ByDispatch, ByCollectors, ByChargers, ByCustodians,
           Accounting, SettlementCard, SettlementRow, SettleForm, SettlementRoutes

\* A charge: on a correctable trip, removed by those who may alter its verdict.
LEMMA ChargesAgree ==
    ASSUME NEW r \in UserRole, NEW t \in Trip("charge"), Sound("charge", t)
    PROVE  Agree("charge", r, t)
  <1>1. t.status \in Status /\ t.paid \in BOOLEAN /\ t.row \in Rows["charge"]
        /\ t.account \in LiquidationStatus \cup {None} /\ None \notin LiquidationStatus
    BY TripIs, Kinds, NoneIsNothing DEF HasAccount
  <1>2. Offers("charge", r, t) = (IF Office(r) THEN ChargesCard(r, t) ELSE {})
    BY TripIs, Kinds DEF Offers
  <1>3. \A op : op \in Accepts("charge", r, t) <=> op \in ChargeRoutes(r, t) /\ Admits(op, r)
    BY AcceptedIs, Kinds DEF KindRoutes
  <1> QED
    BY <1>1, <1>2, <1>3
       DEF Agree, Admits, ByAccounting, ByDispatch, ByCollectors, ByChargers, ByCustodians,
           Accounting, LeftToServer, NotOnScreen, ChargesCard, BillableExpenses, AdditionalCharges,
           ChargeApproval, CanAdd, MayRemove, ChargeRoutes, NothingWaits, Correctable, MayAlter,
           CAN_VERIFY_CLIENT_PAYMENT, CAN_WRITE_SHIPMENT_MONEY, Office, Sound

\* A company-paid expense: while the trip is open.
LEMMA ExpensesAgree ==
    ASSUME NEW r \in UserRole, NEW t \in Trip("expense"), Sound("expense", t)
    PROVE  Agree("expense", r, t)
  <1>1. t.status \in Status /\ t.paid \in BOOLEAN /\ t.row \in Rows["expense"]
        /\ t.account \in LiquidationStatus \cup {None} /\ None \notin LiquidationStatus
    BY TripIs, Kinds, NoneIsNothing DEF HasAccount
  <1>2. Offers("expense", r, t) = (IF Office(r) THEN CompanyExpensesCard(r, t) ELSE {})
    BY TripIs, Kinds DEF Offers
  <1>3. \A op : op \in Accepts("expense", r, t) <=> op \in ExpenseRoutes(t) /\ Admits(op, r)
    BY AcceptedIs, Kinds DEF KindRoutes
  <1> QED
    BY <1>1, <1>2, <1>3
       DEF Agree, Admits, ByAccounting, ByDispatch, ByCollectors, ByChargers, ByCustodians,
           Accounting, LeftToServer, CompanyExpensesCard, ExpenseRoutes, Office

\* A payment: altered by those who may alter its verdict.
LEMMA PaymentsAgree ==
    ASSUME NEW r \in UserRole, NEW t \in Trip("payment"), Sound("payment", t)
    PROVE  Agree("payment", r, t)
  <1>1. t.status \in Status /\ t.paid \in BOOLEAN /\ t.row \in Rows["payment"]
        /\ t.account \in LiquidationStatus \cup {None} /\ None \notin LiquidationStatus
    BY TripIs, Kinds, NoneIsNothing DEF HasAccount
  <1>2. Offers("payment", r, t) = (IF Office(r) THEN PaymentsCard(r, t) ELSE {})
    BY TripIs, Kinds DEF Offers
  <1>3. \A op : op \in Accepts("payment", r, t) <=> op \in PaymentRoutes(r, t) /\ Admits(op, r)
    BY AcceptedIs, Kinds DEF KindRoutes
  <1> QED
    BY <1>1, <1>2, <1>3
       DEF Agree, Admits, ByAccounting, ByDispatch, ByCollectors, ByChargers, ByCustodians,
           Accounting, PaymentsCard, PaymentForm, VerifyControls, PaymentRoutes, MayAlter,
           CAN_VERIFY_CLIENT_PAYMENT, CAN_WRITE_SHIPMENT_MONEY, Office

\* Adjustments to pay, and the computation of pay.
LEMMA PaysAgree ==
    ASSUME NEW r \in UserRole, NEW t \in Trip("pay"), Sound("pay", t)
    PROVE  Agree("pay", r, t)
  <1>1. t.status \in Status /\ t.paid \in BOOLEAN /\ t.row \in Rows["pay"]
        /\ t.account \in LiquidationStatus \cup {None} /\ None \notin LiquidationStatus
    BY TripIs, Kinds, NoneIsNothing DEF HasAccount
  <1>2. Offers("pay", r, t) = (IF Office(r) THEN CommissionsCard(r, t) ELSE {})
    BY TripIs, Kinds DEF Offers
  <1>3. \A op : op \in Accepts("pay", r, t) <=> op \in PayRoutes(t) /\ Admits(op, r)
    BY AcceptedIs, Kinds DEF KindRoutes
  <1> QED
    BY <1>1, <1>2, <1>3
       DEF Agree, Admits, ByAccounting, ByDispatch, ByCollectors, ByChargers, ByCustodians,
           Accounting, LeftToServer, CommissionsCard, CrewPayRow, AdjustmentRow, AdjustmentForm,
           PayRoutes, Office

\* The cut of the broker: marked by those who may alter its verdict.
LEMMA CutsAgree ==
    ASSUME NEW r \in UserRole, NEW t \in Trip("cut"), Sound("cut", t)
    PROVE  Agree("cut", r, t)
  <1>1. t.status \in Status /\ t.paid \in BOOLEAN /\ t.row \in Rows["cut"]
        /\ t.account \in LiquidationStatus \cup {None} /\ None \notin LiquidationStatus
    BY TripIs, Kinds, NoneIsNothing DEF HasAccount
  <1>2. Offers("cut", r, t) = (IF Office(r) THEN RateChainCard("cut", r, t) ELSE {})
    BY TripIs, Kinds DEF Offers
  <1>3. \A op : op \in Accepts("cut", r, t) <=> op \in CutRoutes(r, t) /\ Admits(op, r)
    BY AcceptedIs, Kinds DEF KindRoutes
  <1> QED
    BY <1>1, <1>2, <1>3
       DEF Agree, Admits, ByAccounting, ByDispatch, ByCollectors, ByChargers, ByCustodians,
           Accounting, NotOnScreen, VerificationStatus, RateChainCard, ThirdPartyPayment,
           ThirdPartyPaymentForm, CutVerifyControls, CutRoutes, MayAlter, CAN_VERIFY_CLIENT_PAYMENT,
           CAN_WRITE_SHIPMENT_MONEY, Office

\* Card by card, the page offers what the API accepts.
LEMMA CardsAgree ==
    ASSUME NEW k \in Kind, NEW r \in UserRole, NEW t \in Trip(k), Sound(k, t)
    PROVE  Agree(k, r, t)
  BY Kinds, AccountsAgree, BookingsAgree, RequestsAgree, ReleasesAgree, SettlementsAgree,
     ChargesAgree, ExpensesAgree, PaymentsAgree, PaysAgree, CutsAgree

\* Every role is served what its page reads.
LEMMA PagesLoad ==
    ASSUME NEW r \in UserRole, NEW q \in Mounted(r)
    PROVE  q \in Query /\ r \in MayRead[q]
  <1>1. PICK c \in Cards(r) : q \in Reads[c]
    BY DEF Mounted
  <1>2. CASE c \in {"Page", "LiquidationCard"}
    BY <1>1, <1>2 DEF Reads, Query, MayRead, CAN_READ_SHIPMENTS, TripLists, CAN_SUBMIT_LIQUIDATION,
                      CAN_READ_TRIP_CASH, CAN_READ_LIQUIDATION_REFERENCE_DATA, CAN_READ_MASTER_DATA
  <1>3. CASE Office(r) /\ c \in {"CommissionsCard", "CrewAndLifecycleCard", "ChargesCard",
                                 "CompanyExpensesCard", "PaymentsCard"}
    BY <1>1, <1>3 DEF Reads, Query, MayRead, CAN_READ_SHIPMENTS, TripLists, Office,
                      CAN_SUBMIT_LIQUIDATION, CAN_READ_TRIP_CASH,
                      CAN_READ_LIQUIDATION_REFERENCE_DATA, CAN_READ_MASTER_DATA
  <1>4. CASE Office(r) /\ r # "DISPATCHER"
             /\ c \in {"AllowanceRequestsCard", "AllowancesCard", "SettlementCard",
                       "GasRateOverrideCard", "GrossProfitCard"}
    BY <1>1, <1>4 DEF Reads, Query, MayRead, UserRole, TripLists, CAN_READ_TRIP_MARGIN, Office,
                      CAN_READ_TRIP_CASH
  <1> QED BY <1>1, <1>2, <1>3, <1>4 DEF Cards

\* Every form the page offers is served its pick lists: the one role that the
\* master data are refused is offered nothing but lines, and their payees.
LEMMA FormsLoad ==
    ASSUME NEW k \in Kind, NEW r \in UserRole, NEW t, NEW op \in Offers(k, r, t),
           NEW q \in PickLists(op)
    PROVE  r \in MayRead[q]
  <1>1. q \in {"clients", "routes", "thirdParties", "staff"} => r # "CREW"
    <2> SUFFICES ASSUME r = "CREW" PROVE op \in {"describe", "addLine", "removeLine", "submit"}
      BY DEF PickLists
    <2>1. k = "account" /\ op \in LiquidationCard(r, t)
      BY Kinds DEF Offers, Office
    <2> QED
      BY <2>1 DEF LiquidationCard, OpenAccountForm, Account, CustodianPicker,
         RemoveAccountButton, SelfSavingField, Lines, Actions, Accounting
  <1>2. q \in {"clients", "routes", "thirdParties", "staff", "payees"}
    BY DEF PickLists
  <1> QED
    BY <1>1, <1>2 DEF MayRead, CAN_READ_MASTER_DATA, CAN_READ_LIQUIDATION_REFERENCE_DATA

-----------------------------------------------------------------------------
(* What an accepted write leaves is a trip there can be. *)

MayBe(k, t) == t \in Trip(k) /\ Sound(k, t)

LEMMA BookingsLeave ==
    ASSUME NEW k \in Kind, NEW r \in UserRole, NEW t, MayBe(k, t),
           NEW op \in BookingRoutes(k, t) \cup RemovalRoutes(r, t),
           NEW u \in After(k, r, op, t), u # None
    PROVE  MayBe(k, u)
  <1>1. op \in BookingOps
    BY DEF BookingRoutes, RemovalRoutes, BookingOps
  <1>2. u \in AfterBooking(k, op, t)
    BY <1>1 DEF After, BookingOps, AccountOps
  <1> USE DEF MayBe, Trip, Sound, Closed, NothingWaits, Status
  <1>3. CASE op \in {"dispatch", "depart"}
    BY <1>2, <1>3 DEF AfterBooking, BookingRoutes, RemovalRoutes
  <1>4. CASE op = "complete"
    BY <1>2, <1>4 DEF AfterBooking, BookingRoutes, RemovalRoutes, ReadyToComplete
  <1>5. CASE op = "deliver"
    <2>1. PICK w \in {"nobodys", "aboard"} :
             u = [t EXCEPT !.status = "DELIVERED",
                           !.account = IF @ = None /\ k \in HasAccount THEN "PENDING" ELSE @,
                           !.whose = IF t.account = None /\ k = "account" THEN w ELSE @]
      BY <1>2, <1>5 DEF AfterBooking
    <2>2. /\ u.status = "DELIVERED" /\ u.paid = t.paid /\ u.row = t.row
          /\ u.account = IF t.account = None /\ k \in HasAccount THEN "PENDING" ELSE t.account
          /\ u.whose = IF t.account = None /\ k = "account" THEN w ELSE t.whose
      BY <2>1
    <2>3. u \in Trip(k)
      BY <2>1 DEF HasAccount, Whose, LiquidationStatus
    <2>4. Sound(k, u)
      BY <2>2, NoneIsNothing DEF HasAccount, LiquidationStatus
    <2> QED BY <2>3, <2>4
  <1>6. CASE op = "removeTrip"
    BY <1>2, <1>6 DEF AfterBooking
  <1>7. CASE op = "correctRates"
    BY <1>2, <1>7, Kinds DEF AfterBooking, Rows
  <1>8. CASE op = "saveCrew"
    BY <1>2, <1>8 DEF AfterBooking, Whose
  <1>9. CASE op \in {"editDetails", "saveTruck", "overrideGas"}
    BY <1>2, <1>9 DEF AfterBooking
  <1> QED BY <1>1, <1>3, <1>4, <1>5, <1>6, <1>7, <1>8, <1>9 DEF BookingOps

LEMMA AccountsLeave ==
    ASSUME NEW k \in HasAccount, NEW r \in UserRole, NEW t, MayBe(k, t),
           NEW op \in AccountRoutes(r, t),
           NEW u \in After(k, r, op, t)
    PROVE  MayBe(k, u)
  <1>1. op \in AccountOps
    BY DEF AccountRoutes, AccountOps
  <1>2. u \in AfterAccount(k, op, t)
    BY <1>1 DEF After, BookingOps, AccountOps
  <1>3. /\ t.account \in LiquidationStatus \cup {None} /\ None \notin LiquidationStatus
        /\ k \in Kind /\ t \in Trip(k) /\ Sound(k, t)
        /\ k = "settlement" => t.row \in Rows["settlement"]
    BY NoneIsNothing, Kinds DEF MayBe, Trip, HasAccount
  <1> USE DEF MayBe, Trip, Sound, Closed, NothingWaits, HasAccount, LiquidationStatus
  <1> DEFINE Same(w) == u.status = t.status /\ u.paid = t.paid /\ u.whose = w
  <1>4. CASE op = "submit"
    <2>1. u \in Trip(k) /\ Same(t.whose) /\ u.row = t.row /\ u.account = "SUBMITTED"
      BY <1>2, <1>3, <1>4 DEF AfterAccount
    <2> QED BY <1>3, <1>4, <2>1 DEF AccountRoutes
  <1>5. CASE op = "sendBack"
    <2>1. u \in Trip(k) /\ Same(t.whose) /\ u.row = t.row /\ u.account = "PENDING"
      BY <1>2, <1>3, <1>5 DEF AfterAccount
    <2> QED BY <1>3, <1>5, <2>1 DEF AccountRoutes
  <1>6. CASE op = "approve"
    <2>1. PICK row \in Rows["settlement"] \ {"none"} :
             u = [t EXCEPT !.account = "APPROVED", !.row = IF k = "settlement" THEN row ELSE @]
      BY <1>2, <1>6 DEF AfterAccount
    <2>2. /\ Same(t.whose) /\ u.account = "APPROVED"
          /\ u.row = IF k = "settlement" THEN row ELSE t.row
      BY <1>3, <2>1
    <2>3. u \in Trip(k)
      BY <1>3, <2>1
    <2>4. Sound(k, u)
      BY <1>3, <1>6, <2>2 DEF AccountRoutes, Rows
    <2> QED BY <2>3, <2>4
  <1>7. CASE op = "reverse"
    <2>1. u = [t EXCEPT !.account = "SUBMITTED", !.row = IF k = "settlement" THEN "none" ELSE @]
      BY <1>2, <1>7 DEF AfterAccount
    <2>2. /\ Same(t.whose) /\ u.account = "SUBMITTED"
          /\ u.row = IF k = "settlement" THEN "none" ELSE t.row
      BY <1>3, <2>1
    <2>3. u \in Trip(k)
      <3>1. "none" \in Rows["settlement"]
        BY DEF Rows
      <3> QED BY <1>3, <2>1, <3>1
    <2>4. Sound(k, u)
      BY <1>3, <1>7, <2>2 DEF AccountRoutes
    <2> QED BY <2>3, <2>4
  <1>8. CASE op = "removeAccount"
    <2>1. CASE k \in {"request", "release"} /\ t.row # "none"
      BY <1>2, <1>3, <1>8, <2>1 DEF AfterAccount
    <2>2. CASE ~ (k \in {"request", "release"} /\ t.row # "none")
      <3>1. u = [t EXCEPT !.account = None, !.whose = "theirs"]
        BY <1>2, <1>8, <2>2 DEF AfterAccount
      <3>2. Same("theirs") /\ u.account = None /\ u.row = t.row
        BY <1>3, <3>1
      <3>3. u \in Trip(k)
        BY <1>3, <3>1 DEF Whose
      <3>4. t.row \notin {"PENDING", "released"}
        BY <1>3, <2>2 DEF Rows
      <3>5. Sound(k, u)
        BY <1>3, <1>8, <3>2, <3>4 DEF AccountRoutes, AccountOpen
      <3> QED BY <3>3, <3>5
    <2> QED BY <2>1, <2>2
  <1>9. CASE op = "openAccount"
    <2>1. CASE t.account # None
      BY <1>2, <1>3, <1>9, <2>1 DEF AfterAccount
    <2>2. CASE t.account = None
      <3>1. PICK w \in {"mine", "theirs"} :
               u = [t EXCEPT !.account = "PENDING", !.whose = IF k = "account" THEN w ELSE @]
        BY <1>2, <1>9, <2>2 DEF AfterAccount
      <3>2. Same(IF k = "account" THEN w ELSE t.whose) /\ u.account = "PENDING" /\ u.row = t.row
        BY <1>3, <3>1
      <3>3. u \in Trip(k)
        BY <1>3, <3>1 DEF Whose
      <3>4. Sound(k, u)
        BY <1>3, <2>2, <3>2
      <3> QED BY <3>3, <3>4
    <2> QED BY <2>1, <2>2
  <1>10. CASE op = "nameCustodian"
    BY <1>2, <1>3, <1>10 DEF AfterAccount, AccountRoutes, AccountOpen, Whose
  <1>11. CASE op \in {"addLine", "removeLine", "describe"}
    BY <1>2, <1>3, <1>11 DEF AfterAccount
  <1> QED BY <1>1, <1>4, <1>5, <1>6, <1>7, <1>8, <1>9, <1>10, <1>11 DEF AccountOps

\* The services of one card's row.
RowRoutes(k, r, t) == IF k \in {"account", "booking"} THEN {} ELSE KindRoutes(k, r, t)

LEMMA RowsLeave ==
    ASSUME NEW k \in Kind, NEW r \in UserRole, NEW t, MayBe(k, t),
           NEW op \in RowRoutes(k, r, t),
           NEW u \in After(k, r, op, t)
    PROVE  MayBe(k, u)
  <1> USE DEF RowRoutes, KindRoutes
  <1>1. op \notin BookingOps \cup AccountOps
    BY Kinds DEF BookingOps, AccountOps, RequestRoutes, ReleaseRoutes, SettlementRoutes,
       PaymentRoutes, ChargeRoutes, CutRoutes, ExpenseRoutes, PayRoutes
  <1>2. u \in AfterRow(r, op, t)
    BY <1>1 DEF After
  <1>3. /\ None \notin LiquidationStatus /\ t \in Trip(k) /\ Sound(k, t)
        /\ t.row \in Rows[k] /\ SignedBy(r) \in VerificationStatus
    BY NoneIsNothing DEF MayBe, Trip, SignedBy, VerificationStatus
  <1> USE DEF MayBe, Trip, Sound, Closed, NothingWaits, AccountOpen, Rows, Added
  <1>4. CASE k = "request"
    BY <1>2, <1>3, <1>4 DEF AfterRow, RequestRoutes, LiquidationStatus
  <1>5. CASE k = "release"
    BY <1>2, <1>3, <1>5 DEF AfterRow, ReleaseRoutes, LiquidationStatus
  <1>6. CASE k = "settlement"
    BY <1>2, <1>3, <1>6 DEF AfterRow, SettlementRoutes
  <1>7. CASE k = "payment"
    BY <1>2, <1>3, <1>7 DEF AfterRow, PaymentRoutes, VerificationStatus
  <1>8. CASE k = "charge"
    BY <1>2, <1>3, <1>8 DEF AfterRow, ChargeRoutes, Correctable, VerificationStatus
  <1>9. CASE k = "cut"
    BY <1>2, <1>3, <1>9 DEF AfterRow, CutRoutes, VerificationStatus
  <1>10. CASE k = "expense"
    BY <1>2, <1>3, <1>10 DEF AfterRow, ExpenseRoutes
  <1>11. CASE k = "pay"
    BY <1>2, <1>3, <1>11 DEF AfterRow, PayRoutes
  <1> QED BY <1>4, <1>5, <1>6, <1>7, <1>8, <1>9, <1>10, <1>11, Kinds

LEMMA PaidOutLeaves ==
    ASSUME NEW t, MayBe(kind, t), kind \in Kind, t.status \in {"DELIVERED", "COMPLETED"}
    PROVE  MayBe(kind, PaidOut(t))
  <1>1. PICK u : u = PaidOut(t)
    OBVIOUS
  <1>2. /\ u.status = t.status /\ u.paid = TRUE /\ u.account = t.account /\ u.whose = t.whose
        /\ u.row = IF kind = "pay" /\ t.row = "recorded" THEN "paidOut" ELSE t.row
    BY <1>1 DEF PaidOut, MayBe, Trip
  <1>3. u \in Trip(kind)
    <2>1. "paidOut" \in Rows["pay"]
      BY DEF Rows
    <2> QED BY <1>1, <2>1 DEF PaidOut, MayBe, Trip
  <1>4. Sound(kind, u)
    BY <1>2 DEF MayBe, Sound, Closed, NothingWaits
  <1> QED BY <1>1, <1>3, <1>4 DEF MayBe

\* Whatever the API takes of a trip leaves one there can be, or removes it.
LEMMA AcceptedLeave ==
    ASSUME NEW k \in Kind, NEW r \in UserRole, NEW t, MayBe(k, t),
           NEW op \in Accepts(k, r, t),
           NEW u \in After(k, r, op, t), u # None
    PROVE  MayBe(k, u)
  <1>1. op \in KindRoutes(k, r, t)
    BY DEF Accepts
  <1>2. CASE k = "account"
    BY <1>1, <1>2, AccountsLeave DEF KindRoutes, HasAccount
  <1>3. CASE k = "booking"
    BY <1>1, <1>3, BookingsLeave DEF KindRoutes
  <1>4. CASE k \notin {"account", "booking"}
    BY <1>1, <1>4, RowsLeave DEF RowRoutes
  <1> QED BY <1>2, <1>3, <1>4

LEMMA OthersLeave ==
    ASSUME TypeOK, OthersWrite
    PROVE  trip' = None \/ MayBe(kind, trip')
  <1>1. MayBe(kind, trip) /\ kind \in Kind
    BY DEF OthersWrite, TypeOK, MayBe
  <1>2. ASSUME NEW r \in UserRole,
               NEW op \in BookingRoutes(kind, trip) \cup RemovalRoutes(r, trip)
                          \cup Accepts(kind, r, trip),
               trip' \in After(kind, r, op, trip)
        PROVE  trip' = None \/ MayBe(kind, trip')
    BY <1>1, <1>2, AcceptedLeave, BookingsLeave
  <1>3. ASSUME NEW r \in UserRole, NEW op \in AccountRoutes(r, trip), kind \in HasAccount,
               trip' \in After(kind, r, op, trip)
        PROVE  MayBe(kind, trip')
    BY <1>1, <1>3, AccountsLeave
  <1>4. CASE trip.status \in {"DELIVERED", "COMPLETED"} /\ trip' = PaidOut(trip)
    BY <1>1, <1>4, PaidOutLeaves
  <1> QED BY <1>2, <1>3, <1>4 DEF OthersWrite

-----------------------------------------------------------------------------
(* The invariant. *)

\* What was sent is what the page, still open on the same reading, offered.
SentAsOffered == At("sent") => page # None /\ click.op \in Offers(kind, role, page)

\* The page is behind only on what its own accepted write changed; once that
\* was heard, the query is being read again, unless reading it has failed for good.
Following ==
    shown = "behind" =>
        /\ click.at \in {"accepted", "unheard", "heard"}
        /\ watched \in Alters(click.op)
        /\ At("heard") => fetch \in {"asked", "new"} \/ OldAllowance \/ GivenUp

Inv == TypeOK /\ SentAsOffered /\ Following

\* Every query a write changes is read again, but for the suggested allowance.
LEMMA ReadAgain ==
    ASSUME NEW op \in Op, NEW q \in Alters(op), q \notin Invalidates(op)
    PROVE  op = "editDetails" /\ q = "allowances"
  BY DEF Alters, Invalidates, UnderShipments, UnderLiquidation, CashOps, ByCrewCard, AccountOps,
         AltersLiquidations, AltersAllowances, AltersRequests, AltersSettlements

LEMMA InvInit == Init => Inv
  BY NoneIsNothing DEF Init, Inv, TypeOK, SentAsOffered, Following, NoClick, At

LEMMA ClickIs ==
    ASSUME TypeOK, click.at # "none"
    PROVE  click \in [op : Op, at : {"sent", "accepted", "refused", "heard", "unheard"}]
  BY DEF TypeOK, NoClick

LEMMA InvNext == Inv /\ [Next]_vars => Inv'
  <1> SUFFICES ASSUME Inv, [Next]_vars PROVE Inv'
    OBVIOUS
  <1> USE DEF At
  <1>1. CASE UNCHANGED vars
    BY <1>1 DEF Inv, TypeOK, SentAsOffered, Following, OldAllowance, GivenUp, vars, reading
  <1>2. CASE OthersWrite
    BY <1>2, OthersLeave
       DEF OthersWrite, MayBe, Inv, TypeOK, SentAsOffered, Following, reading
  <1>3. CASE Reload
    BY <1>3 DEF Reload, Inv, TypeOK, SentAsOffered, Following, reading
  <1>4. ASSUME NEW op \in Op, Click(op) PROVE Inv'
    BY <1>4 DEF Click, Offers, Inv, TypeOK, SentAsOffered, Following, reading
  <1>5. CASE Answer
    <2>1. click \in [op : Op, at : {"sent", "accepted", "refused", "heard", "unheard"}]
      BY <1>5, ClickIs DEF Answer, Inv
    <2>2. PICK verdict \in {"accepted", "refused"} :
             /\ click' = [click EXCEPT !.at = verdict]
             /\ shown' = IF verdict = "accepted" /\ watched' \in Alters(click.op)
                         THEN "behind" ELSE "current"
      BY <1>5 DEF Answer
    <2>3. click'.at = verdict /\ click'.op = click.op
      BY <2>1, <2>2
    <2>4. watched' \in Query
      BY <1>5, PagesLoad DEF Answer, Inv, TypeOK
    <2>5. TypeOK'
      BY <1>5, <2>1, <2>2, <2>4 DEF Answer, Inv, TypeOK
    <2>6. SentAsOffered' /\ Following'
      BY <2>2, <2>3 DEF SentAsOffered, Following
    <2> QED BY <2>5, <2>6 DEF Inv
  <1>6. CASE HearAccepted
    <2>1. click \in [op : Op, at : {"sent", "accepted", "refused", "heard", "unheard"}]
      BY <1>6, ClickIs DEF HearAccepted, Inv
    <2>2. click'.at = "heard" /\ click'.op = click.op
      BY <1>6, <2>1 DEF HearAccepted
    <2>3. TypeOK'
      BY <1>6, <2>1 DEF HearAccepted, Inv, TypeOK, reading
    <2>4. SentAsOffered'
      BY <2>2 DEF SentAsOffered
    <2>5. Following'
      BY <1>6, <2>1, <2>2, ReadAgain DEF HearAccepted, Inv, Following, OldAllowance, reading
    <2> QED BY <2>3, <2>4, <2>5 DEF Inv
  <1>7. CASE HearRefused \/ LoseAnswer
    <2>1. click \in [op : Op, at : {"sent", "accepted", "refused", "heard", "unheard"}]
      BY <1>7, ClickIs DEF HearRefused, LoseAnswer, Inv
    <2>2. click'.at \in {"heard", "unheard"} /\ click'.op = click.op
      BY <1>7, <2>1 DEF HearRefused, LoseAnswer
    <2>3. TypeOK'
      BY <1>7, <2>1 DEF HearRefused, LoseAnswer, Inv, TypeOK, reading
    <2>4. SentAsOffered'
      BY <2>2 DEF SentAsOffered
    <2>5. Following'
      BY <1>7, <2>1, <2>2 DEF HearRefused, LoseAnswer, Inv, Following, reading
    <2> QED BY <2>3, <2>4, <2>5 DEF Inv
  <1>8. CASE ReadRows \/ ShowRows
    BY <1>8 DEF ReadRows, ShowRows, Inv, TypeOK, SentAsOffered, Following, OldAllowance, GivenUp
  <1>9. CASE FailRead
    <2>1. TypeOK'
      BY <1>9 DEF FailRead, Inv, TypeOK
    <2>2. Following'
      BY <1>9 DEF FailRead, Inv, Following, OldAllowance, GivenUp
    <2> QED BY <1>9, <2>1, <2>2 DEF FailRead, Inv, SentAsOffered
  <1>10. CASE Recompute
    BY <1>10 DEF Recompute, Inv, TypeOK, SentAsOffered, Following
  <1> QED BY <1>1, <1>2, <1>3, <1>4, <1>5, <1>6, <1>7, <1>8, <1>9, <1>10 DEF Next

LEMMA InvAlways == Spec => []Inv
  BY InvInit, InvNext, PTL DEF Spec

-----------------------------------------------------------------------------
(* What follows. *)

\* The page of every role loads; on an up-to-date page nobody is offered what
\* the API refuses, but for what the cards leave to it, and whoever may do
\* something finds the button for it.
THEOREM PageAlwaysAgrees == Spec => []PageAgreesWithApi
  <1>1. Inv => PageAgreesWithApi
    <2> SUFFICES ASSUME Inv PROVE PageAgreesWithApi
      OBVIOUS
    <2>1. TypeOK /\ role \in UserRole /\ kind \in Kind
      BY DEF Inv, TypeOK
    <2>2. PageLoads
      BY <2>1, PagesLoad, FormsLoad DEF PageLoads
    <2>3. ASSUME page = trip
          PROVE  OfferedIsAccepted /\ AcceptedIsOffered
      <3>1. CASE trip = None
        BY <2>3, <3>1 DEF OfferedIsAccepted, AcceptedIsOffered, Offers, Accepts
      <3>2. CASE trip # None
        <4>1. trip \in Trip(kind) /\ Sound(kind, trip)
          BY <2>1, <3>2 DEF TypeOK
        <4>2. Agree(kind, role, trip)
          BY <2>1, <4>1, CardsAgree
        <4> QED BY <2>3, <4>2 DEF OfferedIsAccepted, AcceptedIsOffered, Agree
      <3> QED BY <3>1, <3>2
    <2> QED BY <2>1, <2>2, <2>3 DEF PageAgreesWithApi, OfferedIsAccepted, AcceptedIsOffered
  <1> QED BY <1>1, InvAlways, PTL

\* Once a write was heard to be accepted, the page shows what it changed, or is
\* reading it again, or says that it could not be read; or the read failed, and
\* failed again or is not tried again, and a card that reads no isError keeps
\* the rows from before (providers.tsx: retry).
THEOREM ChangesAlwaysShow == Spec => []OwnChangesShow
  <1>1. Inv => OwnChangesShow
    BY DEF Inv, Following, OwnChangesShow, At
  <1> QED BY <1>1, InvAlways, PTL

\* What a move of each card asks of the row it is made on, the card asks of the
\* row it shows.
LEMMA MovesNeed ==
    ASSUME NEW k \in Kind, NEW r \in UserRole, NEW t \in Trip(k), NEW p \in Trip(k),
           NEW op \in Moves, op \in Accepts(k, r, t), op \in Offers(k, r, p)
    PROVE  IF k = "account" THEN t.account = p.account ELSE t.row = p.row
  <1>1. op \in KindRoutes(k, r, t) /\ p # None
    BY TripIs DEF Accepts
  <1>2. CASE k = "account"
    BY <1>1, <1>2 DEF Moves, KindRoutes, AccountRoutes, Offers, LiquidationCard, OpenAccountForm,
       Account, CustodianPicker, RemoveAccountButton, SelfSavingField, Lines, Actions
  <1>3. CASE k = "request"
    BY <1>1, <1>3 DEF Moves, KindRoutes, RequestRoutes, Offers, AllowanceRequestsCard,
       RequestForm, RequestRow
  <1>4. CASE k = "settlement"
    BY <1>1, <1>4 DEF Moves, KindRoutes, SettlementRoutes, Offers, SettlementCard,
       SettlementRow, SettleForm
  <1>5. CASE k = "booking"
    BY <1>1, <1>5 DEF Moves, KindRoutes, BookingRoutes, RemovalRoutes
  <1>6. CASE k \notin {"account", "request", "settlement", "booking"}
    BY <1>1, <1>6, Kinds DEF Moves, KindRoutes, ReleaseRoutes, PaymentRoutes, ChargeRoutes,
       CutRoutes, ExpenseRoutes, PayRoutes
  <1> QED BY <1>2, <1>3, <1>4, <1>5, <1>6

\* However long the page has been open, a decision on an account, a request or
\* a balance that the API accepts was made on the status the page showed.
THEOREM MovesAreAsShown == Spec => MovedAsShown
  <1> DEFINE AsShown ==
        \A op \in Moves :
            At("sent") /\ click.op = op /\ click'.at = "accepted"
                => IF kind = "account" THEN trip.account = page.account ELSE trip.row = page.row
  <1>1. Inv /\ [Next]_vars => [AsShown]_vars
    <2> SUFFICES ASSUME Inv, Next, NEW op \in Moves,
                        At("sent"), click.op = op, click'.at = "accepted"
                 PROVE  IF kind = "account" THEN trip.account = page.account
                                            ELSE trip.row = page.row
      OBVIOUS
    <2>1. Answer
      BY DEF Next, At, OthersWrite, Reload, Click, HearAccepted, HearRefused, LoseAnswer,
         Recompute, ReadRows, ShowRows, FailRead
    <2>2. op \in Accepts(kind, role, trip)
      BY <2>1, ClickIs DEF Answer, At, Inv
    <2>3. page # None /\ op \in Offers(kind, role, page)
      BY DEF Inv, SentAsOffered
    <2>4. /\ trip \in Trip(kind) /\ page \in Trip(kind)
          /\ kind \in Kind /\ role \in UserRole
      BY <2>2, <2>3 DEF Accepts, Inv, TypeOK
    <2> QED BY <2>2, <2>3, <2>4, MovesNeed
  <1> QED BY <1>1, InvAlways, PTL DEF Spec, MovedAsShown
=============================================================================

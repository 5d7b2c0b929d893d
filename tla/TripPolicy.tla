----------------------------- MODULE TripPolicy -----------------------------
(***************************************************************************)
(* Who may do and read what on one trip: the roles the controllers name on *)
(* every route, in the terms of role-policy.ts.                            *)
(***************************************************************************)

UserRole == {"ADMINISTRATOR", "ACCOUNTING", "MANAGEMENT", "CREW", "DISPATCH_MANAGER", "DISPATCHER"}

CAN_READ_MASTER_DATA == UserRole \ {"CREW"}
CAN_READ_LIQUIDATION_REFERENCE_DATA == CAN_READ_MASTER_DATA \cup {"CREW"}
CAN_READ_SHIPMENTS == UserRole \ {"CREW"}
CAN_READ_TRIP_CASH == {"ADMINISTRATOR", "ACCOUNTING", "MANAGEMENT", "DISPATCH_MANAGER"}
CAN_READ_TRIP_MARGIN == {"ADMINISTRATOR", "ACCOUNTING", "MANAGEMENT", "DISPATCH_MANAGER"}
CAN_WRITE_SHIPMENTS == {"ADMINISTRATOR", "DISPATCH_MANAGER"}
CAN_REMOVE_DRAFT_SHIPMENTS == CAN_WRITE_SHIPMENTS
CAN_REMOVE_ANY_SHIPMENT == {"ADMINISTRATOR"}
CAN_WRITE_SHIPMENT_MONEY == {"ADMINISTRATOR", "ACCOUNTING"}
CAN_RECORD_CLIENT_PAYMENT == CAN_WRITE_SHIPMENT_MONEY \cup {"DISPATCH_MANAGER"}
CAN_VERIFY_CLIENT_PAYMENT == CAN_WRITE_SHIPMENT_MONEY
CAN_RECORD_THIRD_PARTY_PAYMENT == CAN_RECORD_CLIENT_PAYMENT
CAN_VERIFY_THIRD_PARTY_PAYMENT == CAN_VERIFY_CLIENT_PAYMENT
CAN_REQUEST_ALLOWANCE == {"ADMINISTRATOR", "DISPATCH_MANAGER"}
CAN_DECIDE_ALLOWANCE_REQUEST == CAN_WRITE_SHIPMENT_MONEY
CAN_EDIT_RATE_CHAIN == {"ADMINISTRATOR", "ACCOUNTING"}
CAN_SUBMIT_LIQUIDATION == UserRole \ {"MANAGEMENT"}
CAN_ADD_SHIPMENT_CHARGE == CAN_WRITE_SHIPMENT_MONEY \cup {"DISPATCHER"}
CAN_APPROVE_SHIPMENT_CHARGE == CAN_WRITE_SHIPMENT_MONEY
CAN_DECIDE_LIQUIDATION == CAN_WRITE_SHIPMENT_MONEY

\* May account only for cash they hold themselves.
ConfinedToTheirOwnFloat == {"CREW", "DISPATCH_MANAGER", "DISPATCHER"}
\* May not even see anybody else's.
SeesOnlyOwnFloat == {"CREW", "DISPATCHER"}
-----------------------------------------------------------------------------
\* The writes a trip's page makes, and the roles their routes admit, by
\* controller.  Moving on is one route for every role that may move a trip
\* anywhere; transition asks ROLES_BY_TRANSITION as well.
ShipmentsController ==
    [editDetails |-> CAN_WRITE_SHIPMENTS, correctRates |-> CAN_EDIT_RATE_CHAIN,
     saveCrew |-> CAN_WRITE_SHIPMENTS, saveTruck |-> CAN_WRITE_SHIPMENTS,
     dispatch |-> CAN_WRITE_SHIPMENTS, depart |-> CAN_WRITE_SHIPMENTS,
     deliver |-> CAN_WRITE_SHIPMENTS, complete |-> CAN_WRITE_SHIPMENT_MONEY,
     removeTrip |-> CAN_REMOVE_DRAFT_SHIPMENTS \cup CAN_REMOVE_ANY_SHIPMENT]
ShipmentMoneyRoutes ==
    [overrideGas |-> CAN_WRITE_SHIPMENT_MONEY, compute |-> CAN_WRITE_SHIPMENT_MONEY,
     markCut |-> CAN_RECORD_THIRD_PARTY_PAYMENT, unmarkCut |-> CAN_RECORD_THIRD_PARTY_PAYMENT,
     verifyCut |-> CAN_VERIFY_THIRD_PARTY_PAYMENT, returnCut |-> CAN_VERIFY_THIRD_PARTY_PAYMENT]
LiquidationController ==
    [openAccount |-> CAN_WRITE_SHIPMENT_MONEY, nameCustodian |-> CAN_WRITE_SHIPMENT_MONEY,
     removeAccount |-> CAN_WRITE_SHIPMENT_MONEY, describe |-> CAN_SUBMIT_LIQUIDATION,
     addLine |-> CAN_SUBMIT_LIQUIDATION, removeLine |-> CAN_SUBMIT_LIQUIDATION,
     submit |-> CAN_SUBMIT_LIQUIDATION, approve |-> CAN_DECIDE_LIQUIDATION,
     sendBack |-> CAN_DECIDE_LIQUIDATION, reverse |-> CAN_DECIDE_LIQUIDATION]
AllowanceRequestsController ==
    [ask |-> CAN_REQUEST_ALLOWANCE, editAsk |-> CAN_REQUEST_ALLOWANCE,
     withdraw |-> CAN_REQUEST_ALLOWANCE,
     approveAsk |-> CAN_DECIDE_ALLOWANCE_REQUEST, decline |-> CAN_DECIDE_ALLOWANCE_REQUEST]
AllowancesController ==
    [issue |-> CAN_WRITE_SHIPMENT_MONEY, moveRelease |-> CAN_WRITE_SHIPMENT_MONEY,
     removeRelease |-> CAN_WRITE_SHIPMENT_MONEY]
SettlementController ==
    [recordMovement |-> CAN_DECIDE_LIQUIDATION, carry |-> CAN_DECIDE_LIQUIDATION]
ClientPaymentsController ==
    [recordPayment |-> CAN_RECORD_CLIENT_PAYMENT, editPayment |-> CAN_RECORD_CLIENT_PAYMENT,
     reversePayment |-> CAN_RECORD_CLIENT_PAYMENT,
     verifyPayment |-> CAN_VERIFY_CLIENT_PAYMENT, returnPayment |-> CAN_VERIFY_CLIENT_PAYMENT]
ShipmentChargesController ==
    [addCharge |-> CAN_ADD_SHIPMENT_CHARGE, removeCharge |-> CAN_ADD_SHIPMENT_CHARGE,
     approveCharge |-> CAN_APPROVE_SHIPMENT_CHARGE, returnCharge |-> CAN_APPROVE_SHIPMENT_CHARGE]
CompanyPaidExpensesController ==
    [addExpense |-> CAN_WRITE_SHIPMENT_MONEY, removeExpense |-> CAN_WRITE_SHIPMENT_MONEY]
AdjustmentsController ==
    [adjust |-> CAN_WRITE_SHIPMENT_MONEY, removeAdjustment |-> CAN_WRITE_SHIPMENT_MONEY]
Op ==
    DOMAIN ShipmentsController \cup DOMAIN ShipmentMoneyRoutes \cup DOMAIN LiquidationController
    \cup DOMAIN AllowanceRequestsController \cup DOMAIN AllowancesController
    \cup DOMAIN SettlementController \cup DOMAIN ClientPaymentsController
    \cup DOMAIN ShipmentChargesController \cup DOMAIN CompanyPaidExpensesController
    \cup DOMAIN AdjustmentsController
MayCall ==
    [op \in Op |->
        CASE op \in DOMAIN ShipmentsController -> ShipmentsController[op]
          [] op \in DOMAIN ShipmentMoneyRoutes -> ShipmentMoneyRoutes[op]
          [] op \in DOMAIN LiquidationController -> LiquidationController[op]
          [] op \in DOMAIN AllowanceRequestsController -> AllowanceRequestsController[op]
          [] op \in DOMAIN AllowancesController -> AllowancesController[op]
          [] op \in DOMAIN SettlementController -> SettlementController[op]
          [] op \in DOMAIN ClientPaymentsController -> ClientPaymentsController[op]
          [] op \in DOMAIN ShipmentChargesController -> ShipmentChargesController[op]
          [] op \in DOMAIN CompanyPaidExpensesController -> CompanyPaidExpensesController[op]
          [] op \in DOMAIN AdjustmentsController -> AdjustmentsController[op]]

\* The queries of a trip's page, and the roles their routes admit.
TripLists == CAN_READ_TRIP_CASH \cup CAN_SUBMIT_LIQUIDATION
MayRead ==
    [detail |-> CAN_READ_SHIPMENTS \cup {"CREW"},
     crewPay |-> CAN_READ_SHIPMENTS, payments |-> CAN_READ_SHIPMENTS,
     billableExpenses |-> CAN_READ_SHIPMENTS, additionalCharges |-> CAN_READ_SHIPMENTS,
     companyExpenses |-> CAN_READ_SHIPMENTS,
     grossProfit |-> CAN_READ_TRIP_MARGIN, gasRate |-> CAN_READ_TRIP_MARGIN,
     liquidations |-> TripLists, allowances |-> TripLists, settlements |-> TripLists,
     allowanceRequests |-> CAN_READ_TRIP_CASH,
     staff |-> CAN_READ_MASTER_DATA, trucks |-> CAN_READ_MASTER_DATA,
     clients |-> CAN_READ_MASTER_DATA, routes |-> CAN_READ_MASTER_DATA,
     thirdParties |-> CAN_READ_MASTER_DATA, payees |-> CAN_READ_LIQUIDATION_REFERENCE_DATA,
     expenseCategories |-> CAN_READ_LIQUIDATION_REFERENCE_DATA]
Query == DOMAIN MayRead
=============================================================================

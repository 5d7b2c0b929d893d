----------------------------- MODULE TripRoutes -----------------------------
(***************************************************************************)
(* One trip as a person at a screen and the services behind it both see    *)
(* it, which writes the services accept of it, and what each one leaves.   *)
(*                                                                         *)
(* A trip is followed through one of its cards at a time: kind says which, *)
(* and row is where the one row followed on that card stands.              *)
(***************************************************************************)
EXTENDS TripPolicy

CONSTANT None  \* a trip, or an account, that is not there

Status == {"DRAFT", "DISPATCHED", "IN_TRANSIT", "DELIVERED", "COMPLETED"}
LiquidationStatus == {"PENDING", "SUBMITTED", "APPROVED"}
VerificationStatus == {"UNVERIFIED", "VERIFIED", "RETURNED"}

\* Where the row followed may stand.  A settlement that is OUTSTANDING says
\* which way it is owed; a cut is direct when there is no broker or no rate.
Rows ==
    [booking |-> {"standing"}, account |-> {"standing"},
     request |-> {"none", "PENDING", "decided"}, release |-> {"none", "released"},
     settlement |-> {"none", "crewOwes", "companyOwes", "closed"},
     payment |-> {"none"} \cup VerificationStatus, charge |-> {"none"} \cup VerificationStatus,
     cut |-> {"direct", "none"} \cup VerificationStatus,
     expense |-> {"none", "recorded"}, pay |-> {"none", "recorded", "paidOut"}]
Kind == DOMAIN Rows

\* account is the status of the account followed, on the cards that read one;
\* whose tells it from the viewer's: "aboard" is nobody's, on a trip the viewer works.
HasAccount == {"account", "request", "release", "settlement"}
Whose == {"mine", "theirs", "nobodys", "aboard"}
Trip(k) ==
    [status : Status, paid : BOOLEAN, row : Rows[k],
     account : IF k \in HasAccount THEN LiquidationStatus \cup {None} ELSE {None},
     whose : IF k = "account" THEN Whose ELSE {"theirs"}]

ASSUME NoneIsNothing ==
    /\ \A k \in Kind : None \notin Trip(k)
    /\ None \notin Op \cup Query \cup LiquidationStatus
-----------------------------------------------------------------------------
Closed(t) == t.status = "COMPLETED"
\* assertChargesEditable, assertNothingPaid.
Correctable(t) == ~ Closed(t) /\ ~ t.paid
AccountOpen(t) == t.account \in {"PENDING", "SUBMITTED"}

\* assertMayAccountForThisFloat.
MayAccount(r, t) == r \in ConfinedToTheirOwnFloat => t.whose \in {"mine", "aboard"}
\* assertMayAlter: an approved figure is accounting's to touch.
MayAlter(r, t) == t.row = "VERIFIED" => r \in CAN_VERIFY_CLIENT_PAYMENT

\* assertReadyToComplete, of the row and the account followed.
NothingWaits(k, t) ==
    /\ k = "request" => t.row # "PENDING"
    /\ k = "charge" => t.row # "UNVERIFIED"
\* Mutant: what waits on accounting is not counted.
AccountsApproved(k, t) == t.account \in {None, "APPROVED"}
ReadyToComplete(k, t) == t.account \in {None, "APPROVED"} /\ NothingWaits(k, t)

\* The writes each service accepts of a trip, whoever may call them.
BookingRoutes(k, t) ==
    {op \in {"editDetails", "saveTruck"} : ~ Closed(t)}
    \cup {op \in {"correctRates", "saveCrew"} : Correctable(t)}
    \cup {op \in {"overrideGas"} : ~ t.paid}
    \cup {op \in {"dispatch"} : t.status = "DRAFT"}
    \cup {op \in {"depart"} : t.status = "DISPATCHED"}
    \cup {op \in {"deliver"} : t.status = "IN_TRANSIT"}
    \cup {op \in {"complete"} : t.status = "DELIVERED" /\ ReadyToComplete(k, t)}
RemovalRoutes(r, t) ==
    {op \in {"removeTrip"} : r \in CAN_REMOVE_ANY_SHIPMENT \/ t.status = "DRAFT"}
\* Mutant: a claim is sent back wherever it stands.
AccountRoutesAnyStatus(r, t) ==
    {op \in {"nameCustodian", "removeAccount"} : AccountOpen(t)}
    \cup {op \in {"addLine", "removeLine", "describe"} : AccountOpen(t) /\ MayAccount(r, t)}
    \cup {op \in {"submit"} : t.account = "PENDING" /\ MayAccount(r, t)}
    \cup {"openAccount", "approve", "sendBack"}
    \cup {op \in {"reverse"} : t.account = "APPROVED" /\ ~ Closed(t)}
AccountRoutes(r, t) ==
    {op \in {"openAccount"} : TRUE}
    \cup {op \in {"nameCustodian", "removeAccount"} : AccountOpen(t)}
    \cup {op \in {"addLine", "removeLine", "describe"} : AccountOpen(t) /\ MayAccount(r, t)}
    \cup {op \in {"submit"} : t.account = "PENDING" /\ MayAccount(r, t)}
    \cup {op \in {"approve", "sendBack"} : t.account = "SUBMITTED"}
    \cup {op \in {"reverse"} : t.account = "APPROVED" /\ ~ Closed(t)}
RequestRoutes(t) ==
    {op \in {"withdraw", "decline"} : t.row = "PENDING"}
    \cup {op \in {"editAsk", "approveAsk"} : t.row = "PENDING" /\ ~ Closed(t) /\ AccountOpen(t)}
    \cup {op \in {"ask"} : ~ Closed(t) /\ AccountOpen(t)}
ReleaseRoutes(t) ==
    {op \in {"issue"} : ~ Closed(t) /\ AccountOpen(t)}
    \cup {op \in {"moveRelease", "removeRelease"} :
            t.row = "released" /\ ~ Closed(t) /\ AccountOpen(t)}
SettlementRoutes(t) ==
    {op \in {"recordMovement"} : t.row \in {"crewOwes", "companyOwes"}}
    \cup {op \in {"carry"} : t.row = "crewOwes"}
PaymentRoutes(r, t) ==
    {op \in {"recordPayment"} : TRUE}
    \cup {op \in {"editPayment", "reversePayment"} : t.row # "none" /\ MayAlter(r, t)}
    \cup {op \in {"verifyPayment"} : t.row \in {"UNVERIFIED", "RETURNED"}}
    \cup {op \in {"returnPayment"} : t.row # "none"}
ChargeRoutes(r, t) ==
    {op \in {"addCharge"} : Correctable(t)}
    \cup {op \in {"removeCharge"} : t.row # "none" /\ Correctable(t) /\ MayAlter(r, t)}
    \cup {op \in {"approveCharge"} : t.row \in {"UNVERIFIED", "RETURNED"} /\ Correctable(t)}
    \cup {op \in {"returnCharge"} : t.row # "none" /\ Correctable(t)}
CutRoutes(r, t) ==
    {op \in {"markCut"} : t.row # "direct" /\ MayAlter(r, t)}
    \cup {op \in {"unmarkCut"} : MayAlter(r, t)}
    \cup {op \in {"verifyCut"} : t.row \in {"UNVERIFIED", "RETURNED"}}
    \cup {op \in {"returnCut"} : t.row \in VerificationStatus}
ExpenseRoutes(t) ==
    {op \in {"addExpense"} : ~ Closed(t)}
    \cup {op \in {"removeExpense"} : t.row = "recorded" /\ ~ Closed(t)}
PayRoutes(t) ==
    {op \in {"compute"} : t.status = "DELIVERED" /\ ~ t.paid}
    \cup {op \in {"adjust"} : TRUE}
    \cup {op \in {"removeAdjustment"} : t.row = "recorded"}

KindRoutes(k, r, t) ==
    CASE k = "account"    -> AccountRoutes(r, t)
      [] k = "booking"    -> BookingRoutes(k, t) \cup RemovalRoutes(r, t)
      [] k = "request"    -> RequestRoutes(t)
      [] k = "release"    -> ReleaseRoutes(t)
      [] k = "settlement" -> SettlementRoutes(t)
      [] k = "payment"    -> PaymentRoutes(r, t)
      [] k = "charge"     -> ChargeRoutes(r, t)
      [] k = "cut"        -> CutRoutes(r, t)
      [] k = "expense"    -> ExpenseRoutes(t)
      [] k = "pay"        -> PayRoutes(t)
\* What a caller gets done on the card followed: the route admits the role and
\* the service the trip.  Nothing is accepted of a trip that was removed.
Accepts(k, r, t) ==
    IF t = None THEN {} ELSE {op \in KindRoutes(k, r, t) : r \in MayCall[op]}
-----------------------------------------------------------------------------
\* A figure is signed by whoever writes it: an accountant's is verified at once.
SignedBy(r) == IF r \in CAN_VERIFY_CLIENT_PAYMENT THEN "VERIFIED" ELSE "UNVERIFIED"
\* What an accepted write may leave of the trip: the rest of it it leaves alone.
AfterBooking(k, op, t) ==
    CASE op = "dispatch" -> {[t EXCEPT !.status = "DISPATCHED"]}
      [] op = "depart"   -> {[t EXCEPT !.status = "IN_TRANSIT"]}
      [] op = "complete" -> {[t EXCEPT !.status = "COMPLETED"]}
      \* ensurePendingLiquidation
      [] op = "deliver"  ->
            {[t EXCEPT !.status = "DELIVERED",
                       !.account = IF @ = None /\ k \in HasAccount THEN "PENDING" ELSE @,
                       !.whose = IF t.account = None /\ k = "account" THEN w ELSE @] :
                w \in {"nobodys", "aboard"}}
      [] op = "removeTrip" -> {None}
      [] op = "correctRates" /\ k = "cut" /\ t.row \in {"direct", "none"} ->
            {[t EXCEPT !.row = row] : row \in {"direct", "none"}}
      [] op = "saveCrew" /\ t.whose \in {"nobodys", "aboard"} ->
            {[t EXCEPT !.whose = w] : w \in {"nobodys", "aboard"}}
      [] OTHER -> {t}
AfterAccount(k, op, t) ==
    CASE op = "submit"   -> {[t EXCEPT !.account = "SUBMITTED"]}
      [] op = "sendBack" -> {[t EXCEPT !.account = "PENDING"]}
      [] op = "approve"  ->
            {[t EXCEPT !.account = "APPROVED", !.row = IF k = "settlement" THEN row ELSE @] :
                row \in Rows["settlement"] \ {"none"}}
      [] op = "reverse"  ->
            {[t EXCEPT !.account = "SUBMITTED", !.row = IF k = "settlement" THEN "none" ELSE @]}
      [] op = "removeAccount" ->
            IF k \in {"request", "release"} /\ t.row # "none" THEN {t}
            ELSE {[t EXCEPT !.account = None, !.whose = "theirs"]}
      [] op = "openAccount" /\ t.account = None /\ k \in HasAccount ->
            {[t EXCEPT !.account = "PENDING", !.whose = IF k = "account" THEN w ELSE @] :
                w \in {"mine", "theirs"}}
      [] op = "nameCustodian" /\ k = "account" ->
            {[t EXCEPT !.whose = w] : w \in {"mine", "theirs"}}
      [] OTHER -> {t}
\* Of several rows the first one added is followed.
Added(t, row) == IF t.row = "none" THEN {[t EXCEPT !.row = row]} ELSE {t}
AfterRow(r, op, t) ==
    CASE op = "ask" -> Added(t, "PENDING")
      [] op = "issue" -> Added(t, "released")
      [] op \in {"recordPayment", "addCharge"} -> Added(t, SignedBy(r))
      [] op \in {"addExpense", "adjust"} -> Added(t, "recorded")
      [] op \in {"editPayment", "markCut"} -> {[t EXCEPT !.row = SignedBy(r)]}
      [] op \in {"approveAsk", "decline"} -> {[t EXCEPT !.row = "decided"]}
      [] op \in {"recordMovement", "carry"} -> {[t EXCEPT !.row = "closed"]}
      [] op \in {"verifyPayment", "approveCharge", "verifyCut"} -> {[t EXCEPT !.row = "VERIFIED"]}
      [] op \in {"returnPayment", "returnCharge", "returnCut"} -> {[t EXCEPT !.row = "RETURNED"]}
      [] op \in {"withdraw", "removeRelease", "reversePayment", "removeCharge", "removeExpense",
                 "removeAdjustment"} -> {[t EXCEPT !.row = "none"]}
      [] op = "unmarkCut" -> {[t EXCEPT !.row = IF @ = "direct" THEN @ ELSE "none"]}
      [] OTHER -> {t}
BookingOps == {"editDetails", "correctRates", "saveCrew", "saveTruck", "overrideGas",
               "dispatch", "depart", "deliver", "complete", "removeTrip"}
AccountOps == {"openAccount", "nameCustodian", "removeAccount", "addLine", "removeLine", "describe",
               "submit", "approve", "sendBack", "reverse"}
After(k, r, op, t) ==
    CASE op \in BookingOps -> AfterBooking(k, op, t)
      [] op \in AccountOps -> AfterAccount(k, op, t)
      [] OTHER -> AfterRow(r, op, t)
=============================================================================

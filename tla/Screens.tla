------------------------------- MODULE Screens ------------------------------
(***************************************************************************)
(* A person at a trip's page.                                              *)
(*                                                                         *)
(* The page shows the trip as it was read; meanwhile everybody else writes *)
(* to it.  A click sends what the page offered to the API, which answers   *)
(* for the trip as it stands, and the answer may be lost on its way back.  *)
(* From the moment the API has answered, one query of the page is watched  *)
(* until it shows what the click changed: a write that was heard to be     *)
(* accepted has its queries read again.  A read may fail, and then nothing *)
(* reads again by itself: the client refetches neither on focus nor, with  *)
(* networkMode "always", when the connection comes back.                   *)
(*                                                                         *)
(* TanStack Query is external: an invalidated query that is on the screen  *)
(* is fetched at once, and a fetch already running is cancelled for it.    *)
(* One query is watched at a time: that the page itself goes when the read *)
(* of the trip fails is not crossed with the queries of its cards.         *)
(***************************************************************************)
EXTENDS TripCards, Integers

VARIABLES
    role,     \* the viewer's
    kind,     \* the card the trip is followed on
    trip,     \* the trip in the database
    page,     \* the trip as the page shows it
    click,    \* the write under way: what it is and how far it got
    watched,  \* the query watched since the API answered
    shown,    \* whether the page shows what the click changed of it, or an error instead
    fetch,    \* the request under way for it, and what its answer holds, or that it failed
    failureCount  \* how often that request has failed

reading == <<watched, shown, fetch, failureCount>>
vars == <<role, kind, trip, page, click, reading>>

NoClick == [op |-> None, at |-> "none"]
At(stage) == click.at = stage

\* A payout includes the trip: the payout itself is outside the repository's services.
PaidOut(t) ==
    [t EXCEPT !.paid = TRUE, !.row = IF kind = "pay" /\ @ = "recorded" THEN "paidOut" ELSE @]

\* Trips there are: nobody is paid for one before it is delivered, nothing
\* waits on a completed one (though an account may be opened on it), and a
\* settlement stands against an approved account.
Sound(k, t) ==
    /\ t.paid => t.status \in {"DELIVERED", "COMPLETED"}
    /\ t.row = "paidOut" => t.paid
    /\ t.row \in {"PENDING", "released"} => t.account # None
    /\ Closed(t) => NothingWaits(k, t)
    /\ k = "settlement" => (t.row # "none") = (t.account = "APPROVED")
    /\ t.account = None => t.whose = "theirs"

Init ==
    /\ role \in UserRole
    /\ kind \in Kind
    /\ trip \in {t \in Trip(kind) : Sound(kind, t)}
    /\ page = trip
    /\ click = NoClick
    /\ watched = None
    /\ shown = "current"
    /\ fetch = "none"
    /\ failureCount = 0
-----------------------------------------------------------------------------
\* Somebody else, with a page of their own.
OthersWrite ==
    /\ trip # None /\ click.at \in {"none", "sent"}
    /\ \/ \E r \in UserRole :
            \E op \in {o \in BookingRoutes(kind, trip) \cup RemovalRoutes(r, trip) : r \in MayCall[o]}
                      \cup Accepts(kind, r, trip) :
                trip' \in After(kind, r, op, trip)
       \/ /\ kind \in HasAccount
          /\ \E r \in UserRole :
                \E op \in {o \in AccountRoutes(r, trip) : r \in MayCall[o]} :
                    trip' \in After(kind, r, op, trip)
       \/ trip.status \in {"DELIVERED", "COMPLETED"} /\ trip' = PaidOut(trip)
    /\ UNCHANGED <<role, kind, page, click, reading>>

\* The page is opened again, or its queries are read again of themselves.
Reload ==
    /\ At("none")
    /\ page' = trip
    /\ UNCHANGED <<role, kind, trip, click, reading>>

Click(op) ==
    /\ At("none")
    /\ op \in Offers(kind, role, page)
    /\ click' = [op |-> op, at |-> "sent"]
    /\ UNCHANGED <<role, kind, trip, page, reading>>
-----------------------------------------------------------------------------
\* What a service refuses because of rows no page has read: whether a trip is
\* crewed, computed and free of waiting rows; what an account holds; what has
\* been paid out of a settlement; who was paid under the old client or route.
NeedsMore == {"dispatch", "complete", "removeTrip", "removeAccount", "removeLine", "reverse",
              "editDetails"}
\* The API answers for the trip as it stands, in one step: what the services let
\* happen between their own check and their write is the other modules' subject.
\* What is followed from here is whether the page comes to show it.
Answer ==
    /\ At("sent")
    /\ \E verdict \in {"accepted", "refused"} :
          /\ verdict = "accepted" => click.op \in Accepts(kind, role, trip)
          /\ verdict = "refused" => \/ click.op \notin Accepts(kind, role, trip)
                                    \/ click.op \in NeedsMore
          /\ click' = [click EXCEPT !.at = verdict]
          /\ watched' \in Mounted(role)
          /\ shown' = IF verdict = "accepted" /\ watched' \in Alters(click.op)
                      THEN "behind" ELSE "current"
    /\ fetch' \in {"none", "asked", "old"}
    /\ failureCount' \in IF fetch' # "none" /\ watched' \in RetriedOnce THEN 0..1 ELSE {0}
    /\ trip' = None /\ page' = None
    /\ UNCHANGED <<role, kind>>
\* onSuccess, of every card: the form closes and its queries are read again; a
\* trip that was removed takes its page with it.
HearAccepted ==
    /\ At("accepted")
    /\ click' = [click EXCEPT !.at = "heard"]
    /\ IF click.op = "removeTrip"
       THEN watched' = None /\ shown' = "current" /\ fetch' = "none" /\ failureCount' = 0
       ELSE IF watched \in Invalidates(click.op)
            THEN fetch' = "asked" /\ failureCount' = 0 /\ UNCHANGED <<watched, shown>>
            ELSE UNCHANGED reading
    /\ UNCHANGED <<role, kind, trip, page>>
\* onError: a toast, and nothing is read again.
HearRefused ==
    /\ At("refused")
    /\ click' = [click EXCEPT !.at = "heard"]
    /\ UNCHANGED <<role, kind, trip, page, reading>>
\* The connection breaks before the answer arrives: onError, as for a refusal.
LoseAnswer ==
    /\ click.at \in {"accepted", "refused"}
    /\ click' = [click EXCEPT !.at = "unheard"]
    /\ UNCHANGED <<role, kind, trip, page, reading>>
\* The Recompute button has everything under the shipment read again.  While
\* such a read is under way it would only be begun again, and is left out.
Recompute ==
    /\ "GrossProfitCard" \in Cards(role)
    /\ click.at \in {"accepted", "refused", "heard", "unheard"}
    /\ watched \in UnderShipments
    /\ shown # "error" /\ fetch \notin {"asked", "new"}
    /\ fetch' = "asked" /\ failureCount' = 0
    /\ UNCHANGED <<role, kind, trip, page, click, watched, shown>>
\* A trip that was removed is not found any more.
Gone(query) ==
    query = "detail" /\ click.op = "removeTrip" /\ click.at \in {"accepted", "unheard"}
\* The API reads the rows for the query watched; the answer arrives.
ReadRows ==
    /\ fetch = "asked" /\ ~ Gone(watched)
    /\ fetch' = "new"
    /\ UNCHANGED <<role, kind, trip, page, click, watched, shown, failureCount>>
ShowRows ==
    /\ fetch \in {"old", "new"}
    /\ shown' = IF fetch = "new" THEN "current" ELSE shown
    /\ fetch' = "none" /\ failureCount' = 0
    /\ UNCHANGED <<role, kind, trip, page, click, watched>>
\* The request, or its answer, does not get through, or the API refuses it.
FailRead ==
    /\ fetch \in {"asked", "old", "new"}
    /\ \/ /\ watched \in RetriedOnce /\ failureCount < 1
          /\ fetch' = "asked" /\ failureCount' = failureCount + 1
          /\ UNCHANGED shown
       \/ /\ fetch' = "failed" /\ failureCount' = 0
          /\ shown' = IF watched \in HidesOnError THEN "error" ELSE shown
    /\ UNCHANGED <<role, kind, trip, page, click, watched>>

Next ==
    \/ OthersWrite \/ Reload \/ \E op \in Op : Click(op)
    \/ Answer \/ HearAccepted \/ HearRefused \/ LoseAnswer
    \/ Recompute \/ ReadRows \/ ShowRows \/ FailRead

\* A request that was sent is answered, or its connection breaks; a read that
\* was begun succeeds or fails.
Fairness ==
    /\ WF_vars(HearAccepted \/ HearRefused \/ LoseAnswer)
    /\ WF_vars(ReadRows \/ ShowRows \/ FailRead)
Spec == Init /\ [][Next]_vars /\ Fairness
-----------------------------------------------------------------------------
\* Every variable ranges over what its query, route or card can hold.
TypeOK ==
    /\ role \in UserRole /\ kind \in Kind
    /\ trip \in Trip(kind) \cup {None} /\ page \in Trip(kind) \cup {None}
    /\ trip # None => Sound(kind, trip)
    /\ click = NoClick \/ click \in [op : Op, at : {"sent", "accepted", "refused", "heard", "unheard"}]
    /\ watched \in Query \cup {None}
    /\ shown \in {"current", "behind", "error"}
    /\ fetch \in {"none", "asked", "old", "new", "failed"} /\ failureCount \in 0..1

\* Where a card shows a button that an up-to-date page does not keep the API
\* from refusing: the card leaves the question to the API.
LeftToServer(op, t) ==
    \/ op \in NeedsMore
    \/ Closed(t) /\ op \in {"saveCrew", "saveTruck", "addCharge", "removeCharge", "approveCharge",
                            "addExpense", "removeExpense", "ask", "compute"}
    \/ t.paid /\ op \in {"correctRates", "saveCrew", "overrideGas", "addCharge", "removeCharge",
                         "approveCharge", "returnCharge"}
    \/ t.account = "APPROVED" /\ op \in {"editAsk", "approveAsk"}
    \/ t.status # "DELIVERED" /\ op = "compute"

\* What the API takes and no card offers: an account left unnamed is not listed
\* to the crew, a custodian is named once, and accounting goes back on neither
\* an approved nor a returned charge.
NotOnScreen(op, r, t) ==
    \/ op \in AccountOps /\ t.account # None /\ ~ Listed(r, t)
    \/ op = "nameCustodian" /\ t.whose \in {"mine", "theirs"}
    \/ op \in {"approveCharge", "returnCharge"} /\ t.row # "UNVERIFIED"
    \/ op = "unmarkCut" /\ t.row \notin VerificationStatus

\* No role is shown a card, nor a form, whose query the API refuses it: the
\* page of every role loads, and its forms have what is picked from.
PageLoads ==
    /\ \A q \in Mounted(role) : role \in MayRead[q]
    /\ \A op \in Offers(kind, role, page) : \A q \in PickLists(op) : role \in MayRead[q]

\* Whoever clicks on an up-to-date page is not refused, but for what the cards
\* leave to the API: their own lists of roles, statuses and rows agree with
\* the routes' and the services'.
OfferedIsAccepted ==
    page = trip =>
        \A op \in Offers(kind, role, page) : op \in Accepts(kind, role, trip) \/ LeftToServer(op, trip)

\* Whoever may do something finds the button for it.
AcceptedIsOffered ==
    page = trip =>
        \A op \in Accepts(kind, role, trip) :
            op \in Offers(kind, role, page) \/ NotOnScreen(op, role, trip)

\* Page and API agree, role by role and state by state, on what may be read and done.
PageAgreesWithApi == TypeOK /\ PageLoads /\ OfferedIsAccepted /\ AcceptedIsOffered

\* What was decided about an account, a request or a balance from an out-of-date
\* page is refused: an accepted move was made on the status the page showed.
\* (Recording a balance as paid is not of these: the approval may have been
\* reversed and given again since, and the balance now be owed the other way.)
Moves == {"submit", "approve", "sendBack", "reverse", "withdraw", "decline", "approveAsk", "editAsk",
          "carry"}
MovedAsShown ==
    [][\A op \in Moves :
         At("sent") /\ click.op = op /\ click'.at = "accepted"
            => IF kind = "account" THEN trip.account = page.account ELSE trip.row = page.row]_vars

\* The amount a first release is suggested at comes from the route, and a
\* change of route does not have it read again.
OldAllowance == click.op = "editDetails" /\ watched = "allowances"

\* The read that was to show it failed and was given up, and the card shows the
\* rows it had: it reads no isError.
GivenUp == fetch = "failed" /\ watched \notin HidesOnError

\* After a write that was heard to be accepted, the page shows it, or says that
\* it could not read it, or is reading it; or its read was given up, and the
\* rows from before the write stay.
OwnChangesShow ==
    shown = "behind" =>
        \/ click.at \in {"accepted", "unheard"}
        \/ fetch \in {"asked", "new"}
        \/ OldAllowance \/ GivenUp

\* What a write changed is shown in the end, or the page says that it could not
\* be read, unless nobody heard that it was accepted or its read was given up.
EndsUpShown ==
    shown = "behind" ~>
        (shown \in {"current", "error"} \/ At("unheard") \/ OldAllowance \/ GivenUp)
=============================================================================

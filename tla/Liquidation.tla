----------------------------- MODULE Liquidation ----------------------------
(***************************************************************************)
(* LiquidationService: accounting for one pile of a trip's cash.           *)
(*                                                                         *)
(*    PENDING --submit--> SUBMITTED --approve--> APPROVED                  *)
(*       ^----return---------+  ^-----reverse-------+                      *)
(*                                                                         *)
(* Approval freezes the totals and inserts the settlement of the variance. *)
(***************************************************************************)
EXTENDS TripTables

\* Mutant: approval does not close the account.
EditableWhenApproved(a) == liquidation[a].row = "live"

Editable(a) == liquidation[a].row = "live" /\ liquidation[a].status # "APPROVED"

\* liquidation_approved_at_matches_status: approvedAt is set exactly when the
\* status is APPROVED, so an UPDATE that changes the status and leaves
\* approvedAt alone is refused unless both statuses agree on being APPROVED.
ApprovedAtMatches(a, status) ==
    (status = "APPROVED") = (liquidation[a].status = "APPROVED")

TotalLiquidated(a) == Total(liquidationLine, LiveOn(liquidationLine, a))

\* Mutant: the column gets what is left of the allowance.
AllowanceLeft(a) == Total(allowance, LiveOn(allowance, a)) - TotalLiquidated(a)

TotalAllowance(a) == Total(allowance, LiveOn(allowance, a))

\* computeTotals for the account of j, ahead of the statement that writes them.
Totalled(j, op) ==
    [op |-> op, acct |-> j.acct, then |-> j.then, row |-> None, debt |-> None,
     amt |-> TotalAllowance(j.acct), spent |-> TotalLiquidated(j.acct)]

LiveSettlement(a) == LiveOn(settlement, a)

-----------------------------------------------------------------------------
(* refreshTotals, the tail of every handler that writes a release or a     *)
(* claim: read the status, sum the rows, write the sums by id.             *)

Refreshing(a, next) == Running("refresh", a, next, None, None, 0)

\* A release moved between two accounts refreshes the second one as well.
Refreshed(h) ==
    IF job[h].then = None THEN Return(h) ELSE GoOn(h, Refreshing(job[h].then, None))

RefreshStatus(h) ==
    /\ At(h, "refresh")
    /\ IF Editable(job[h].acct)
       THEN GoOn(h, Running("refresh.compute", job[h].acct, job[h].then, None, None, 0))
       ELSE Refreshed(h)
    /\ UNCHANGED tables

RefreshCompute(h) ==
    /\ At(h, "refresh.compute")
    /\ GoOn(h, Totalled(job[h], "refresh.write"))
    /\ UNCHANGED tables

RefreshWrite(h) ==
    /\ At(h, "refresh.write")
    /\ liquidation' = [liquidation EXCEPT ![job[h].acct].totalAllowance = job[h].amt,
                                          ![job[h].acct].totalLiquidated = job[h].spent]
    /\ Refreshed(h)
    /\ UNCHANGED <<shipment, liquidationLine, allowance, allowanceRequest, rebilled,
                   settlement, crewDeduction>>

-----------------------------------------------------------------------------
(* Claimed expenses. *)

AddLine(h, a, amount) ==
    /\ Called(h, "addLine")
    /\ Editable(a)
    /\ GoOn(h, Doing("addLine", a, None, amount))
    /\ UNCHANGED tables

InsertLine(h) ==
    /\ At(h, "addLine")
    /\ \E l \in Unused(liquidationLine) :
          liquidationLine' = [liquidationLine EXCEPT ![l] =
              [liquidationId |-> job[h].acct, amount |-> job[h].amt, live |-> TRUE]]
    /\ GoOn(h, Refreshing(job[h].acct, None))
    /\ UNCHANGED <<shipment, liquidation, allowance, allowanceRequest, rebilled,
                   settlement, crewDeduction>>

UpdateLine(h, l, amount) ==
    /\ Called(h, "updateLine")
    /\ IsLive(liquidationLine, l)
    /\ Editable(liquidationLine[l].liquidationId)
    /\ GoOn(h, Doing("updateLine", liquidationLine[l].liquidationId, l, amount))
    /\ UNCHANGED tables

PatchLine(h) ==
    /\ At(h, "updateLine")
    /\ liquidationLine' = [liquidationLine EXCEPT ![job[h].row] = Patched(@, None, job[h].amt)]
    /\ GoOn(h, Refreshing(job[h].acct, None))
    /\ UNCHANGED <<shipment, liquidation, allowance, allowanceRequest, rebilled,
                   settlement, crewDeduction>>

\* Mutant: a rebilled claim can be removed.
RemoveRebilledLine(h, l) ==
    /\ Called(h, "removeLine")
    /\ IsLive(liquidationLine, l)
    /\ Editable(liquidationLine[l].liquidationId)
    /\ GoOn(h, Doing("removeLine", liquidationLine[l].liquidationId, l, 0))
    /\ UNCHANGED tables

\* Refused while a rebill has deferred its cost to the claim.
RemoveLine(h, l) ==
    /\ Called(h, "removeLine")
    /\ IsLive(liquidationLine, l)
    /\ Editable(liquidationLine[l].liquidationId)
    /\ l \notin rebilled
    /\ GoOn(h, Doing("removeLine", liquidationLine[l].liquidationId, l, 0))
    /\ UNCHANGED tables

DropLine(h) ==
    /\ At(h, "removeLine")
    /\ liquidationLine' = SoftDelete(liquidationLine, job[h].row)
    /\ GoOn(h, Refreshing(job[h].acct, None))
    /\ UNCHANGED <<shipment, liquidation, allowance, allowanceRequest, rebilled,
                   settlement, crewDeduction>>

-----------------------------------------------------------------------------
(* submit, returnToCrew, approve. *)

Load(h, a, op, from, next) ==
    /\ Called(h, op)
    /\ liquidation[a].row = "live"
    /\ liquidation[a].status = from
    /\ GoOn(h, Doing(next, a, None, 0))
    /\ UNCHANGED tables

Compute(h, op, next) ==
    /\ At(h, op)
    /\ GoOn(h, Totalled(job[h], next))
    /\ UNCHANGED tables

LoadSubmit(h, a) == Load(h, a, "submit", "PENDING", "submit.compute")
ComputeSubmit(h) == Compute(h, "submit.compute", "submit")

Submit(h) ==
    LET a == job[h].acct IN
    /\ At(h, "submit")
    /\ liquidation' =
          IF ApprovedAtMatches(a, "SUBMITTED")
          THEN [liquidation EXCEPT ![a].status = "SUBMITTED",
                                   ![a].totalAllowance = job[h].amt,
                                   ![a].totalLiquidated = job[h].spent]
          ELSE liquidation
    /\ Return(h)
    /\ UNCHANGED <<shipment, liquidationLine, allowance, allowanceRequest, rebilled,
                   settlement, crewDeduction>>

LoadReturn(h, a) == Load(h, a, "return", "SUBMITTED", "return")

ReturnToCrew(h) ==
    LET a == job[h].acct IN
    /\ At(h, "return")
    /\ liquidation' = IF ApprovedAtMatches(a, "PENDING")
                      THEN [liquidation EXCEPT ![a].status = "PENDING"]
                      ELSE liquidation
    /\ Return(h)
    /\ UNCHANGED <<shipment, liquidationLine, allowance, allowanceRequest, rebilled,
                   settlement, crewDeduction>>

LoadApprove(h, a) == Load(h, a, "approve", "SUBMITTED", "approve.compute")
ComputeApprove(h) == Compute(h, "approve.compute", "approve")

\* Mutant: the index on live settlements is missing.
NoSettlementKey(a) == TRUE

\* settlement_liquidation_live_key: one live settlement per account.
MaySettle(a) == LiveSettlement(a) = {}

\* One transaction: refused the settlement, the status is rolled back with it.
Approve(h) ==
    LET a == job[h].acct
        variance == job[h].amt - job[h].spent
    IN
    /\ At(h, "approve")
    /\ MaySettle(a)
    /\ liquidation' = [liquidation EXCEPT ![a].status = "APPROVED",
                                          ![a].totalAllowance = job[h].amt,
                                          ![a].totalLiquidated = job[h].spent]
    /\ \E s \in Unused(settlement) :
          settlement' = [settlement EXCEPT ![s] =
              [liquidationId |-> a, amount |-> variance, live |-> TRUE,
               status |-> IF variance = 0 THEN "SETTLED" ELSE "OUTSTANDING",
               disbursed |-> FALSE, crewDeductionId |-> None]]
    /\ Return(h)
    /\ UNCHANGED <<shipment, liquidationLine, allowance, allowanceRequest, rebilled,
                   crewDeduction>>

ApproveRolledBack(h) ==
    /\ At(h, "approve")
    /\ ~ MaySettle(job[h].acct)
    /\ Return(h)
    /\ UNCHANGED tables

-----------------------------------------------------------------------------
(* reverse: undoing an approval while nothing has moved. *)

\* Mutants: the slices taken of a carried debt, or the cash handed over, do
\* not keep the approval in place.
IgnoresSlices(s) == ~ (settlement[s].status = "SETTLED" /\ settlement[s].amount # 0)

IgnoresCash(s) ==
    settlement[s].crewDeductionId # None =>
        LET d == crewDeduction[settlement[s].crewDeductionId]
        IN  d.due = 0 /\ d.paid = 0

\* settlementToUnwind: cash handed over stays, and so does a carried debt of
\* which a payout has taken a slice.
MayUnwind(s) ==
    /\ ~ (settlement[s].status = "SETTLED" /\ settlement[s].amount # 0)
    /\ settlement[s].crewDeductionId # None =>
          LET d == crewDeduction[settlement[s].crewDeductionId]
          IN  d.due = 0 /\ d.paid = 0

\* Without a live settlement there is nothing to unwind but the status.
LoadReverse(h, a) ==
    /\ Called(h, "reverse")
    /\ liquidation[a].row = "live"
    /\ liquidation[a].status = "APPROVED"
    /\ shipment # "COMPLETED"
    /\ \/ /\ LiveSettlement(a) = {}
          /\ GoOn(h, Doing("reverse", a, None, 0))
       \/ \E s \in LiveSettlement(a) :
             /\ MayUnwind(s)
             /\ GoOn(h, Running("reverse", a, None, s, settlement[s].crewDeductionId, 0))
    /\ UNCHANGED tables

Gone(table, id) == IF id = None THEN table ELSE SoftDelete(table, id)

\* Mutants: the settlement, or the debt it was carried into, outlives the
\* approval.
ReverseKeepsSettlement(h) ==
    /\ At(h, "reverse")
    /\ liquidation' = [liquidation EXCEPT ![job[h].acct].status = "SUBMITTED"]
    /\ Return(h)
    /\ UNCHANGED <<shipment, liquidationLine, allowance, allowanceRequest, rebilled,
                   settlement, crewDeduction>>

ReverseKeepsDebt(h) ==
    /\ At(h, "reverse")
    /\ liquidation' = [liquidation EXCEPT ![job[h].acct].status = "SUBMITTED"]
    /\ settlement' = Gone(settlement, job[h].row)
    /\ Return(h)
    /\ UNCHANGED <<shipment, liquidationLine, allowance, allowanceRequest, rebilled,
                   crewDeduction>>

\* One transaction.
Reverse(h) ==
    /\ At(h, "reverse")
    /\ liquidation' = [liquidation EXCEPT ![job[h].acct].status = "SUBMITTED"]
    /\ settlement' = Gone(settlement, job[h].row)
    /\ crewDeduction' = Gone(crewDeduction, job[h].debt)
    /\ Return(h)
    /\ UNCHANGED <<shipment, liquidationLine, allowance, allowanceRequest, rebilled>>

-----------------------------------------------------------------------------
(* Opening and removing an account. *)

\* createForShipment.  Numbering and custodians are TripAccounts' subject.
OpenAccount(h, a) ==
    /\ Called(h, "openAccount")
    /\ liquidation[a].row = "absent"
    /\ liquidation' = [liquidation EXCEPT ![a].row = "live"]
    /\ Return(h)
    /\ UNCHANGED <<shipment, liquidationLine, allowance, allowanceRequest, rebilled,
                   settlement, crewDeduction>>

\* Mutant: the asks waiting on the account are not counted.
IgnoresAsks(a) ==
    /\ LiveOn(allowance, a) = {}
    /\ LiveOn(liquidationLine, a) = {}
    /\ \A l \in rebilled : liquidationLine[l].liquidationId # a

\* No releases, claims, asks still waiting, or rebills (counted through the
\* claim each of them names, which need not be live).
Empty(a) ==
    /\ LiveOn(allowance, a) = {}
    /\ LiveOn(liquidationLine, a) = {}
    /\ \A r \in LiveOn(allowanceRequest, a) : allowanceRequest[r].status # "PENDING"
    /\ \A l \in rebilled : liquidationLine[l].liquidationId # a

LoadRemove(h, a) ==
    /\ Called(h, "removeAccount")
    /\ Editable(a)
    /\ Empty(a)
    /\ GoOn(h, Doing("removeAccount", a, None, 0))
    /\ UNCHANGED tables

Remove(h) ==
    /\ At(h, "removeAccount")
    /\ liquidation' = [liquidation EXCEPT ![job[h].acct].row = "deleted"]
    /\ Return(h)
    /\ UNCHANGED <<shipment, liquidationLine, allowance, allowanceRequest, rebilled,
                   settlement, crewDeduction>>
=============================================================================

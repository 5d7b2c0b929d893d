------------------------------- MODULE TripCash -----------------------------
(***************************************************************************)
(* One trip's cash, end to end: accounts, releases, asks, claims, rebills, *)
(* settlements, carried debts and the completion gate, under any number of *)
(* API requests in flight.                                                 *)
(***************************************************************************)
EXTENDS AllowanceRequests, Settlement

ASSUME TablesAreDistinct ==
    /\ Lines \cap (Allowances \cup Requests \cup Settlements) = {}
    /\ Allowances \cap (Requests \cup Settlements) = {}
    /\ Requests \cap Settlements = {}

-----------------------------------------------------------------------------
(* ShipmentChargesService, as far as it touches claims: a billable expense *)
(* may defer its cost to a claim (resolveClaim), one live rebill per claim *)
(* (billable_expense_liquidationLineId_key).                               *)

LoadRebill(h, l) ==
    /\ Called(h, "rebill")
    /\ ShipmentOpen
    /\ IsLive(liquidationLine, l)
    /\ l \notin rebilled
    /\ GoOn(h, Doing("rebill", None, l, 0))
    /\ UNCHANGED tables

\* When the unique index refuses, the set already holds the claim.
Rebill(h) ==
    /\ At(h, "rebill")
    /\ rebilled' = rebilled \cup {job[h].row}
    /\ Return(h)
    /\ UNCHANGED <<shipment, liquidation, liquidationLine, allowance, allowanceRequest,
                   settlement, crewDeduction>>

LoadUnrebill(h, l) ==
    /\ Called(h, "unrebill")
    /\ ShipmentOpen
    /\ l \in rebilled
    /\ GoOn(h, Doing("unrebill", None, l, 0))
    /\ UNCHANGED tables

Unrebill(h) ==
    /\ At(h, "unrebill")
    /\ rebilled' = rebilled \ {job[h].row}
    /\ Return(h)
    /\ UNCHANGED <<shipment, liquidation, liquidationLine, allowance, allowanceRequest,
                   settlement, crewDeduction>>

-----------------------------------------------------------------------------
(* ShipmentsService.transition to COMPLETED, and assertReadyToComplete as  *)
(* far as it reads these tables.                                           *)

\* Mutants: asks are not counted; accounts are waived when no cash was advanced.
IgnoresWaitingAsks ==
    \A a \in Liquidations :
        liquidation[a].row = "live" => liquidation[a].status = "APPROVED"

WaivedWithoutAdvances ==
    /\ \A r \in Requests : ~ Undecided(r)
    /\ \A a \in Liquidations :
          liquidation[a].row = "live" /\ LiveOn(allowance, a) # {} =>
              liquidation[a].status = "APPROVED"

ReadyToComplete ==
    /\ \A r \in Requests : ~ Undecided(r)
    /\ \A a \in Liquidations :
          liquidation[a].row = "live" => liquidation[a].status = "APPROVED"

LoadComplete(h) ==
    /\ Called(h, "complete")
    /\ ShipmentOpen
    /\ ReadyToComplete
    /\ GoOn(h, Doing("complete", None, None, 0))
    /\ UNCHANGED tables

Complete(h) ==
    /\ At(h, "complete")
    /\ shipment' = "COMPLETED"
    /\ Return(h)
    /\ UNCHANGED <<liquidation, liquidationLine, allowance, allowanceRequest, rebilled,
                   settlement, crewDeduction>>

-----------------------------------------------------------------------------
NoAccount == [row |-> "absent", status |-> "PENDING",
              totalAllowance |-> 0, totalLiquidated |-> 0]

\* Some accounts are open already; the rest may be opened.
Init ==
    /\ shipment = "OPEN"
    /\ \E open \in SUBSET Liquidations :
          /\ open # {}
          /\ liquidation = [a \in Liquidations |->
                IF a \in open THEN [NoAccount EXCEPT !.row = "live"] ELSE NoAccount]
    /\ liquidationLine = [l \in Lines |-> None]
    /\ allowance = [x \in Allowances |-> None]
    /\ allowanceRequest = [r \in Requests |-> None]
    /\ rebilled = {}
    /\ settlement = [s \in Settlements |-> None]
    /\ crewDeduction = [d \in Deductions |-> None]
    /\ job = [h \in Handlers |-> Idle]

RefreshStep(h) == RefreshStatus(h) \/ RefreshCompute(h) \/ RefreshWrite(h)

LineStep(h) ==
    \/ \E a \in Liquidations, n \in Amounts : AddLine(h, a, n)
    \/ \E l \in Lines, n \in Amounts \cup {Unchanged} : UpdateLine(h, l, n)
    \/ \E l \in Lines : RemoveLine(h, l)
    \/ InsertLine(h) \/ PatchLine(h) \/ DropLine(h)

StatusStep(h) ==
    \/ \E a \in Liquidations : LoadSubmit(h, a) \/ LoadReturn(h, a)
    \/ \E a \in Liquidations : LoadApprove(h, a) \/ LoadReverse(h, a)
    \/ ComputeSubmit(h) \/ Submit(h) \/ ReturnToCrew(h)
    \/ ComputeApprove(h) \/ Approve(h) \/ ApproveRolledBack(h)
    \/ Reverse(h)

AccountStep(h) ==
    \/ \E a \in Liquidations : OpenAccount(h, a) \/ LoadRemove(h, a)
    \/ Remove(h)

AllowanceStep(h) ==
    \/ \E a \in Liquidations, n \in Amounts : Issue(h, a, n)
    \/ \E x \in Allowances, to \in Liquidations \cup {None}, n \in Amounts \cup {Unchanged} :
          UpdateAllowance(h, x, to, n)
    \/ \E x \in Allowances : RemoveAllowance(h, x)
    \/ InsertAllowance(h) \/ PatchAllowance(h) \/ DropAllowance(h)

RequestStep(h) ==
    \/ \E a \in Liquidations, n \in Amounts : CreateRequest(h, a, n)
    \/ \E r \in Requests, to \in Liquidations \cup {None}, n \in Amounts \cup {Unchanged} :
          UpdateRequest(h, r, to, n)
    \/ \E r \in Requests : LoadApproveRequest(h, r) \/ LoadDecline(h, r) \/ LoadWithdraw(h, r)
    \/ InsertRequest(h) \/ PatchRequest(h) \/ ApproveRequest(h)
    \/ ApproveRequestRolledBack(h) \/ Decline(h) \/ Withdraw(h)

SettlementStep(h) ==
    \/ \E a \in Liquidations : LoadRecord(h, a) \/ LoadCarry(h, a)
    \/ LoadClear(h) \/ Record(h) \/ CarryToPayout(h) \/ CarryRolledBack(h) \/ Clear(h)

ShipmentStep(h) ==
    \/ \E l \in Lines : LoadRebill(h, l) \/ LoadUnrebill(h, l)
    \/ Rebill(h) \/ Unrebill(h) \/ LoadComplete(h) \/ Complete(h)

PayoutStep(h) ==
    \/ \E d \in Deductions : PaySlices(h, d) \/ DropSlices(h, d)
    \/ \E d \in Deductions, n \in Amounts : TakeSlice(h, d, n)
    \/ CommitSlice(h)

Next ==
    \E h \in Handlers :
        \/ RefreshStep(h) \/ LineStep(h) \/ StatusStep(h) \/ AccountStep(h)
        \/ AllowanceStep(h) \/ RequestStep(h) \/ SettlementStep(h) \/ PayoutStep(h)
        \/ ShipmentStep(h) \/ Crash(h)

Spec == Init /\ [][Next]_vars

-----------------------------------------------------------------------------
(* What the database and the services together keep true however requests  *)
(* interleave and wherever they die.                                       *)

\* An account is never APPROVED without a record of what is owed: exactly one
\* settlement of it is live, whatever approvals, returns and reversals race.
ApprovedIsOnRecord ==
    \A a \in Liquidations :
        liquidation[a].status = "APPROVED" => \E s \in Settlements : LiveSettlement(a) = {s}

\* Cash that answers a request always answers an APPROVED one: a request that
\* was declined, or is still waiting, has released nothing, even when the
\* decline and the approval raced.
ReleaseAnswersApproval ==
    \A x \in Allowances :
        allowance[x] # None /\ allowance[x].ask # None =>
            /\ allowanceRequest[allowance[x].ask] # None
            /\ allowanceRequest[allowance[x].ask].status = "APPROVED"

\* No balance is cleared twice over: one that was handed over in cash is not
\* also carried into a debt the payout recovers, in whatever order record,
\* carryToPayout and the clearing job write.
NeverBothWays ==
    \A s \in Settlements :
        settlement[s] # None => ~ (settlement[s].disbursed /\ settlement[s].crewDeductionId # None)

\* Nothing decided in a race goes unrecorded or is recorded twice: an approved account
\* has its one settlement, a release its approved request, a balance one way out.
RacesStayOnRecord == ApprovedIsOnRecord /\ ReleaseAnswersApproval /\ NeverBothWays

\* A settlement that is SETTLED stays SETTLED, with the same amount and the
\* same debt: record, carry and clear that read it earlier cannot move it.
SettledIsFinal ==
    [][\A s \in Settlements :
          settlement[s] # None /\ settlement[s].status = "SETTLED" =>
              /\ settlement'[s].status = "SETTLED"
              /\ settlement'[s].amount = settlement[s].amount
              /\ settlement'[s].crewDeductionId = settlement[s].crewDeductionId]_vars

-----------------------------------------------------------------------------
(* What additionally holds while requests do not overlap, crashes and all. *)

\* The figure approval froze is the account's: the stored totals are the sums
\* of the live releases and claims on it, and the settlement is their variance.
FrozenFigureStands ==
    \A a \in Liquidations :
        liquidation[a].row = "live" /\ liquidation[a].status = "APPROVED" =>
            /\ liquidation[a].totalAllowance = TotalAllowance(a)
            /\ liquidation[a].totalLiquidated = TotalLiquidated(a)
            /\ \A s \in LiveSettlement(a) :
                  settlement[s].amount = TotalAllowance(a) - TotalLiquidated(a)

\* A reversal takes the settlement with it, so an account that is back with
\* the crew or with accounting owes nothing and can be approved again.
OnlyApprovedIsOwed ==
    \A a \in Liquidations :
        LiveSettlement(a) # {} => liquidation[a].status = "APPROVED"

\* Every live debt is explained: exactly one live settlement was carried into
\* it, for the same amount.
EveryDebtExplained ==
    \A d \in Deductions :
        IsLive(crewDeduction, d) =>
            \E s \in Settlements :
                /\ {t \in Settlements : IsLive(settlement, t)
                                         /\ settlement[t].crewDeductionId = d} = {s}
                /\ settlement[s].amount = crewDeduction[d].amount

\* A payout never recovers more of a debt than is owed.
NeverOverRecovered ==
    \A d \in Deductions :
        crewDeduction[d] # None => crewDeduction[d].due + crewDeduction[d].paid
                                      <= crewDeduction[d].amount

\* Money that moved is never unwound: a settlement under which cash changed
\* hands, or pay was recovered, is still live.
MovedMoneyStands ==
    \A s \in Settlements :
        /\ settlement[s] # None
        /\ \/ settlement[s].disbursed
           \/ /\ settlement[s].crewDeductionId # None
              /\ crewDeduction[settlement[s].crewDeductionId].paid > 0
        => settlement[s].live

\* A settlement cleared out of pay was cleared by money that really left: the
\* PAID runs recovered the whole of it.
ClearedByPay ==
    \A s \in Settlements :
        settlement[s] # None /\ settlement[s].status = "SETTLED"
                             /\ settlement[s].crewDeductionId # None =>
            crewDeduction[settlement[s].crewDeductionId].paid = settlement[s].amount

\* What the crew owe out of pay adds up from the account to the voucher.
DebtsAddUp == EveryDebtExplained /\ NeverOverRecovered /\ ClearedByPay

\* One ask, at most one release: the crew are not handed the money twice.
OneReleasePerRequest ==
    \A r \in Requests :
        Cardinality({x \in Allowances : allowance[x] # None /\ allowance[x].ask = r}) <= 1

\* What an approval releases is what was asked for: the figure and the account
\* of the request as it stands when it becomes APPROVED.
ReleasesWhatWasAsked ==
    [][\A x \in Allowances :
          allowance[x] = None /\ allowance'[x] # None =>
              LET r == allowance'[x].ask IN
              r # None =>
                  /\ allowance'[x].amount = allowanceRequest'[r].amount
                  /\ allowance'[x].liquidationId = allowanceRequest'[r].liquidationId]_vars

\* A decision is the record of what was asked and answered: once decided, a
\* request's figure, account and outcome never change.
DecisionStands ==
    [][\A r \in Requests :
          allowanceRequest[r] # None /\ allowanceRequest[r].status # "PENDING" =>
              allowanceRequest'[r] = allowanceRequest[r]]_vars

\* A rebill defers its cost to a claim that still counts: no live rebill names
\* a removed claim, whose cost would then be counted nowhere.
RebillNamesLiveClaim == \A l \in rebilled : IsLive(liquidationLine, l)

\* Nothing still undecided is stranded on an account that was removed: no
\* live release, claim or pending ask names a deleted account.
NothingStranded ==
    \A a \in Liquidations :
        liquidation[a].row = "deleted" =>
            /\ LiveOn(allowance, a) = {}
            /\ LiveOn(liquidationLine, a) = {}
            /\ \A r \in Requests : Undecided(r) => allowanceRequest[r].liquidationId # a

\* No trip is completed over an account nobody approved: its costs would be
\* off the books for good, since nothing reopens a completed trip.
CompletedSquare ==
    [][shipment' # shipment =>
          \A a \in Liquidations :
              liquidation[a].row = "live" => liquidation[a].status = "APPROVED"]_vars

\* No ask is left waiting on a completed trip, where nothing could answer it.
NoAskStranded == shipment = "COMPLETED" => \A r \in Requests : ~ Undecided(r)

\* No removal and no completion leaves behind a row that still counts on what is gone:
\* an account's releases, claims and asks, a claim's rebill, a trip's asks.
NothingLeftHanging == NothingStranded /\ RebillNamesLiveClaim /\ NoAskStranded

-----------------------------------------------------------------------------
(* The tables as the book accounting reads from them. *)

Standing(a) ==
    CASE liquidation[a].row = "absent" -> "none"
      [] liquidation[a].row = "live" -> liquidation[a].status
      [] liquidation[a].row = "deleted" -> "removed"

ProgressOf(s) ==
    CASE settlement[s].status = "SETTLED" -> "cleared"
      [] settlement[s].status = "OUTSTANDING" -> "open"
      [] settlement[s].status = "CARRIED_TO_PAYOUT" ->
            LET d == crewDeduction[settlement[s].crewDeductionId]
            IN  IF d.paid > 0 THEN "recovering" ELSE IF d.due > 0 THEN "sliced" ELSE "carried"

BalanceOf(a) ==
    IF LiveSettlement(a) = {} THEN None
    ELSE LET s == CHOOSE s \in Settlements : s \in LiveSettlement(a)
         IN  [amount |-> settlement[s].amount, progress |-> ProgressOf(s)]

Sums(ids) ==
    UNION {{SumFunctionOnSet(f, S) : f \in [S -> Amounts]} : S \in SUBSET ids}
Variances == {n - m : n \in Sums(Allowances), m \in Sums(Lines)}

Book == INSTANCE AccountBook WITH
            Accounts <- Liquidations,
            standing <- [a \in Liquidations |-> Standing(a)],
            balance <- [a \in Liquidations |-> BalanceOf(a)]

\* The null that stands for no balance is none of the balances.
ASSUME NoneIsNoEntry == None \notin [amount : Int, progress : Book!Progress]

\* The tables keep accounting's book: every step of every handler is a step of
\* AccountBook or changes nothing in it.
KeepsTheBook == Book!Spec
=============================================================================

-------------------------- MODULE AllowanceRequests -------------------------
(***************************************************************************)
(* AllowanceRequestsService: dispatch asks for cash, accounting decides.   *)
(* Approving releases the cash; a decided request is final.                *)
(***************************************************************************)
EXTENDS Allowances

\* Mutant: a decided request can be decided again.
Loaded(r) == IsLive(allowanceRequest, r)

Undecided(r) == IsLive(allowanceRequest, r) /\ allowanceRequest[r].status = "PENDING"

\* Mutant: the database does not check the decision.
NoDecisionCheck(r, status) == TRUE

\* allowance_request_decision_matches_status, for an UPDATE that sets the
\* status and leaves the columns of the other decision as they are.
MayBecome(r, status) ==
    CASE status = "APPROVED" -> allowanceRequest[r].status # "DECLINED"
      [] status = "DECLINED" -> allowanceRequest[r].allowanceId = None

CreateRequest(h, a, amount) ==
    /\ Called(h, "request")
    /\ MayRelease(a)
    /\ GoOn(h, Doing("request", a, None, amount))
    /\ UNCHANGED tables

InsertRequest(h) ==
    /\ At(h, "request")
    /\ \E r \in Unused(allowanceRequest) :
          allowanceRequest' = [allowanceRequest EXCEPT ![r] =
              [liquidationId |-> job[h].acct, amount |-> job[h].amt, live |-> TRUE,
               status |-> "PENDING", allowanceId |-> None]]
    /\ Return(h)
    /\ UNCHANGED <<shipment, liquidation, liquidationLine, allowance, rebilled,
                   settlement, crewDeduction>>

UpdateRequest(h, r, to, amount) ==
    /\ Called(h, "updateRequest")
    /\ Undecided(r)
    /\ MayRelease(IF to = None THEN allowanceRequest[r].liquidationId ELSE to)
    /\ GoOn(h, Doing("updateRequest", to, r, amount))
    /\ UNCHANGED tables

PatchRequest(h) ==
    /\ At(h, "updateRequest")
    /\ allowanceRequest' = [allowanceRequest EXCEPT ![job[h].row] =
          Patched(@, job[h].acct, job[h].amt)]
    /\ Return(h)
    /\ UNCHANGED <<shipment, liquidation, liquidationLine, allowance, rebilled,
                   settlement, crewDeduction>>

\* Mutant: the approver names the figure.
LoadApproveRequestAtAnyFigure(h, r) ==
    /\ Called(h, "approveRequest")
    /\ Undecided(r)
    /\ MayRelease(allowanceRequest[r].liquidationId)
    /\ \E n \in Amounts :
          GoOn(h, Doing("approveRequest", allowanceRequest[r].liquidationId, r, n))
    /\ UNCHANGED tables

\* The amount and the account are the request's, as they stood when loaded.
LoadApproveRequest(h, r) ==
    /\ Called(h, "approveRequest")
    /\ Undecided(r)
    /\ MayRelease(allowanceRequest[r].liquidationId)
    /\ GoOn(h, Doing("approveRequest", allowanceRequest[r].liquidationId, r,
                     allowanceRequest[r].amount))
    /\ UNCHANGED tables

\* One transaction: the release and the decision, or neither.
ApproveRequest(h) ==
    LET r == job[h].row IN
    /\ At(h, "approveRequest")
    /\ MayBecome(r, "APPROVED")
    /\ \E x \in Unused(allowance) :
          /\ allowance' = [allowance EXCEPT ![x] = Release(job[h].acct, job[h].amt, r)]
          /\ allowanceRequest' = [allowanceRequest EXCEPT ![r].status = "APPROVED",
                                                          ![r].allowanceId = x]
    /\ GoOn(h, Refreshing(job[h].acct, None))
    /\ UNCHANGED <<shipment, liquidation, liquidationLine, rebilled, settlement,
                   crewDeduction>>

ApproveRequestRolledBack(h) ==
    /\ At(h, "approveRequest")
    /\ ~ MayBecome(job[h].row, "APPROVED")
    /\ Return(h)
    /\ UNCHANGED tables

LoadDecline(h, r) ==
    /\ Called(h, "decline")
    /\ Undecided(r)
    /\ GoOn(h, Doing("decline", None, r, 0))
    /\ UNCHANGED tables

Decline(h) ==
    LET r == job[h].row IN
    /\ At(h, "decline")
    /\ allowanceRequest' = IF MayBecome(r, "DECLINED")
                           THEN [allowanceRequest EXCEPT ![r].status = "DECLINED"]
                           ELSE allowanceRequest
    /\ Return(h)
    /\ UNCHANGED <<shipment, liquidation, liquidationLine, allowance, rebilled,
                   settlement, crewDeduction>>

\* Mutant: a decided request can be withdrawn.
LoadWithdrawDecided(h, r) ==
    /\ Called(h, "withdraw")
    /\ IsLive(allowanceRequest, r)
    /\ GoOn(h, Doing("withdraw", None, r, 0))
    /\ UNCHANGED tables

LoadWithdraw(h, r) ==
    /\ Called(h, "withdraw")
    /\ Undecided(r)
    /\ GoOn(h, Doing("withdraw", None, r, 0))
    /\ UNCHANGED tables

Withdraw(h) ==
    /\ At(h, "withdraw")
    /\ allowanceRequest' = SoftDelete(allowanceRequest, job[h].row)
    /\ Return(h)
    /\ UNCHANGED <<shipment, liquidation, liquidationLine, allowance, rebilled,
                   settlement, crewDeduction>>
=============================================================================

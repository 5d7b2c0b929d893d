------------------------------ MODULE Allowances ----------------------------
(***************************************************************************)
(* AllowancesService: cash released to the crew, booked on one account.    *)
(***************************************************************************)
EXTENDS Liquidation

\* assertAccountAccepts: a live account of this trip that is not APPROVED.
AccountAccepts(a) == Editable(a)
ShipmentOpen == shipment # "COMPLETED"
MayRelease(a) == ShipmentOpen /\ AccountAccepts(a)

Release(a, amount, ask) ==
    [liquidationId |-> a, amount |-> amount, live |-> TRUE, ask |-> ask]

Issue(h, a, amount) ==
    /\ Called(h, "issue")
    /\ MayRelease(a)
    /\ GoOn(h, Doing("issue", a, None, amount))
    /\ UNCHANGED tables

InsertAllowance(h) ==
    /\ At(h, "issue")
    /\ \E x \in Unused(allowance) :
          allowance' = [allowance EXCEPT ![x] = Release(job[h].acct, job[h].amt, None)]
    /\ GoOn(h, Refreshing(job[h].acct, None))
    /\ UNCHANGED <<shipment, liquidation, liquidationLine, allowanceRequest, rebilled,
                   settlement, crewDeduction>>

UpdateAllowance(h, x, to, amount) ==
    /\ Called(h, "updateAllowance")
    /\ ShipmentOpen
    /\ IsLive(allowance, x)
    /\ AccountAccepts(allowance[x].liquidationId)
    /\ to # None => AccountAccepts(to)
    /\ GoOn(h, Running("updateAllowance", allowance[x].liquidationId, to, x, None, amount))
    /\ UNCHANGED tables

PatchAllowance(h) ==
    LET to == job[h].then IN
    /\ At(h, "updateAllowance")
    /\ allowance' = [allowance EXCEPT ![job[h].row] = Patched(@, to, job[h].amt)]
    /\ GoOn(h, Refreshing(job[h].acct, IF to = job[h].acct THEN None ELSE to))
    /\ UNCHANGED <<shipment, liquidation, liquidationLine, allowanceRequest, rebilled,
                   settlement, crewDeduction>>

RemoveAllowance(h, x) ==
    /\ Called(h, "removeAllowance")
    /\ ShipmentOpen
    /\ IsLive(allowance, x)
    /\ AccountAccepts(allowance[x].liquidationId)
    /\ GoOn(h, Doing("removeAllowance", allowance[x].liquidationId, x, 0))
    /\ UNCHANGED tables

DropAllowance(h) ==
    /\ At(h, "removeAllowance")
    /\ allowance' = SoftDelete(allowance, job[h].row)
    /\ GoOn(h, Refreshing(job[h].acct, None))
    /\ UNCHANGED <<shipment, liquidation, liquidationLine, allowanceRequest, rebilled,
                   settlement, crewDeduction>>
=============================================================================

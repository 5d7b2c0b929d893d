------------------------------ MODULE Settlement ----------------------------
(***************************************************************************)
(* SettlementService: clearing the variance an approval froze, in cash or  *)
(* out of the crew's pay, and the triggers that guard what a payout run    *)
(* takes.  No payout service exists yet; the triggers, the tests of them   *)
(* and clearRecoveredCarryovers say what it may do to a debt.              *)
(***************************************************************************)
EXTENDS Liquidation

\* Mutants: no CHECK on what a movement, or a carry, may be written over.
MayRecordCarried(s) == settlement[s].amount # 0
MayCarrySettled(s) == TRUE

\* settlement_movement_matches_status and settlement_settled_at_matches_status
\* for record's UPDATE, and for carryToPayout's, which leaves settledAt alone.
MayRecord(s) == settlement[s].amount # 0 /\ settlement[s].crewDeductionId = None
MayCarry(s) == settlement[s].status # "SETTLED"

LoadRecord(h, a) ==
    /\ Called(h, "record")
    /\ \E s \in LiveSettlement(a) :
          /\ settlement[s].status = "OUTSTANDING"
          /\ GoOn(h, Doing("record", None, s, 0))
    /\ UNCHANGED tables

Record(h) ==
    LET s == job[h].row IN
    /\ At(h, "record")
    /\ settlement' = IF MayRecord(s)
                     THEN [settlement EXCEPT ![s].status = "SETTLED", ![s].disbursed = TRUE]
                     ELSE settlement
    /\ Return(h)
    /\ UNCHANGED <<shipment, liquidation, liquidationLine, allowance, allowanceRequest,
                   rebilled, crewDeduction>>

LoadCarry(h, a) ==
    /\ Called(h, "carry")
    /\ \E s \in LiveSettlement(a) :
          /\ settlement[s].status = "OUTSTANDING"
          /\ settlement[s].amount > 0
          /\ GoOn(h, Doing("carry", None, s, settlement[s].amount))
    /\ UNCHANGED tables

\* One transaction: the debt and the settlement that names it.
CarryToPayout(h) ==
    LET s == job[h].row IN
    /\ At(h, "carry")
    /\ MayCarry(s)
    /\ \E d \in Unused(crewDeduction) :
          /\ crewDeduction' = [crewDeduction EXCEPT ![d] =
                [amount |-> job[h].amt, live |-> TRUE, due |-> 0, paid |-> 0]]
          /\ settlement' = [settlement EXCEPT ![s].status = "CARRIED_TO_PAYOUT",
                                              ![s].crewDeductionId = d]
    /\ Return(h)
    /\ UNCHANGED <<shipment, liquidation, liquidationLine, allowance, allowanceRequest,
                   rebilled>>

CarryRolledBack(h) ==
    /\ At(h, "carry")
    /\ ~ MayCarry(job[h].row)
    /\ Return(h)
    /\ UNCHANGED tables

-----------------------------------------------------------------------------
(* clearRecoveredCarryovers: a carried settlement whose debt PAID runs     *)
(* have recovered in full.  Its loop updates one settlement per statement, *)
(* so each of them is a read and a write of its own.                       *)

\* Mutant: slices on runs nobody has paid yet count as recovered.
Charged(s) ==
    IF settlement[s].crewDeductionId = None THEN 0
    ELSE LET d == crewDeduction[settlement[s].crewDeductionId] IN d.due + d.paid

Recovered(s) ==
    IF settlement[s].crewDeductionId = None THEN 0
    ELSE crewDeduction[settlement[s].crewDeductionId].paid

LoadClear(h) ==
    /\ Called(h, "clear")
    /\ \E s \in Settlements :
          /\ IsLive(settlement, s)
          /\ settlement[s].status = "CARRIED_TO_PAYOUT"
          /\ Recovered(s) >= settlement[s].amount
          /\ GoOn(h, Doing("clear", None, s, 0))
    /\ UNCHANGED tables

Clear(h) ==
    /\ At(h, "clear")
    /\ settlement' = [settlement EXCEPT ![job[h].row].status = "SETTLED"]
    /\ Return(h)
    /\ UNCHANGED <<shipment, liquidation, liquidationLine, allowance, allowanceRequest,
                   rebilled, crewDeduction>>

-----------------------------------------------------------------------------
(* A payout run.  Each slice it takes of a debt is inserted by a statement *)
(* whose trigger adds up the slices it can see, and is committed later.    *)
(* The client hides deleted debts from the run; the trigger itself would   *)
(* take one.                                                               *)

\* Mutant: only slices on PAID runs are added up.
NotYetPaid(d) == crewDeduction[d].amount - crewDeduction[d].paid

Remaining(d) == crewDeduction[d].amount - crewDeduction[d].due - crewDeduction[d].paid

\* eztruckr_crew_deduction_not_over_recovered: under READ COMMITTED the sum is
\* over the slices committed so far and the statement's own.
TakeSlice(h, d, amount) ==
    /\ Called(h, "payout")
    /\ IsLive(crewDeduction, d)
    /\ amount <= Remaining(d)
    /\ GoOn(h, Running("payout", None, None, None, d, amount))
    /\ UNCHANGED tables

CommitSlice(h) ==
    /\ At(h, "payout")
    /\ crewDeduction' = [crewDeduction EXCEPT ![job[h].debt].due = @ + job[h].amt]
    /\ Return(h)
    /\ UNCHANGED <<shipment, liquidation, liquidationLine, allowance, allowanceRequest,
                   rebilled, settlement>>

\* The run is marked PAID, which is terminal and freezes its slices.
PaySlices(h, d) ==
    /\ Called(h, "payout")
    /\ crewDeduction[d] # None
    /\ crewDeduction[d].due > 0
    /\ crewDeduction' = [crewDeduction EXCEPT ![d].paid = @ + crewDeduction[d].due,
                                              ![d].due = 0]
    /\ Return(h)
    /\ UNCHANGED <<shipment, liquidation, liquidationLine, allowance, allowanceRequest,
                   rebilled, settlement>>

\* Until then the slices may be taken out again: the run is voided or redone.
DropSlices(h, d) ==
    /\ Called(h, "payout")
    /\ crewDeduction[d] # None
    /\ crewDeduction[d].due > 0
    /\ crewDeduction' = [crewDeduction EXCEPT ![d].due = 0]
    /\ Return(h)
    /\ UNCHANGED <<shipment, liquidation, liquidationLine, allowance, allowanceRequest,
                   rebilled, settlement>>
=============================================================================

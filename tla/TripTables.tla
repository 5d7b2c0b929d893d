----------------------------- MODULE TripTables -----------------------------
(***************************************************************************)
(* The Postgres tables one trip's cash lives in, and the requests of the   *)
(* API that are running against them.                                      *)
(*                                                                         *)
(* A row is None until it is inserted and is never removed: "soft delete"  *)
(* sets live to FALSE, reads skip such rows, and an UPDATE by id still     *)
(* reaches them, exactly as the soft-delete extension leaves it.           *)
(*                                                                         *)
(* A handler of the NestJS services is a chain of awaited statements with  *)
(* no lock and no surrounding transaction.  job[h] says which statement    *)
(* the running handler h executes next and carries the values it has read  *)
(* so far; between two of its steps any other handler may run.  The reads  *)
(* a handler uses only to refuse are taken together in its first step.     *)
(***************************************************************************)
EXTENDS Integers, FiniteSets, Functions

CONSTANTS
    Handlers,       \* API requests that may be in flight at the same time
    Liquidations,   \* accounts of the trip (liquidation ids)
    Lines,          \* liquidation_line ids
    Allowances,     \* allowance ids
    Requests,       \* allowance_request ids
    Settlements,    \* settlement ids
    Deductions,     \* crew_deduction ids
    Amounts,        \* money amounts, in the smallest unit
    Workload,       \* the handlers clients call in this instance
    None            \* SQL NULL, and a row that does not exist

ASSUME AmountsArePositive == Amounts \subseteq Nat \ {0}

ASSUME NoneIsNoId ==
    None \notin Liquidations \cup Lines \cup Allowances \cup Requests
                \cup Settlements \cup Deductions

\* An id is a UUID, of which there are finitely many.
ASSUME TablesAreFinite == IsFiniteSet(Allowances) /\ IsFiniteSet(Lines)

VARIABLES
    shipment,          \* "OPEN" (any status before COMPLETED) or "COMPLETED"
    liquidation,       \* accounts: presence, status and the stored totals
    liquidationLine,   \* what the crew claims to have spent
    allowance,         \* cash released to the crew
    allowanceRequest,  \* asks for cash, decided by accounting
    rebilled,          \* claims a live billable_expense defers its cost to
    settlement,        \* what is owed once an account is approved
    crewDeduction,     \* debts a payout run recovers from crew pay
    job                \* the statement each running handler executes next

tables == <<shipment, liquidation, liquidationLine, allowance,
            allowanceRequest, rebilled, settlement, crewDeduction>>
vars == <<tables, job>>

-----------------------------------------------------------------------------
LiquidationStatus == {"PENDING", "SUBMITTED", "APPROVED"}
RequestStatus == {"PENDING", "APPROVED", "DECLINED"}
SettlementStatus == {"OUTSTANDING", "SETTLED", "CARRIED_TO_PAYOUT"}

LiquidationRow == [row : {"absent", "live", "deleted"}, status : LiquidationStatus,
                   totalAllowance : Nat, totalLiquidated : Nat]
LineRow == [liquidationId : Liquidations, amount : Amounts, live : BOOLEAN]

\* "ask" is not a column: it records which request's approval inserted the
\* row, so that properties can count the releases a request led to.
AllowanceRow == [liquidationId : Liquidations, amount : Amounts, live : BOOLEAN,
                 ask : Requests \cup {None}]
RequestRow == [liquidationId : Liquidations, amount : Amounts, live : BOOLEAN,
               status : RequestStatus, allowanceId : Allowances \cup {None}]

\* "disbursed" is disbursementMode IS NOT NULL: cash changed hands for it.
SettlementRow == [liquidationId : Liquidations, amount : Int, live : BOOLEAN,
                  status : SettlementStatus, disbursed : BOOLEAN,
                  crewDeductionId : Deductions \cup {None}]

\* "due" and "paid" add up the live crew_deduction_recovery slices on payout
\* runs that are not yet PAID, and on runs that are.
DeductionRow == [amount : Int, live : BOOLEAN, due : Nat, paid : Nat]

ASSUME NoneIsNoRow ==
    /\ None \notin LineRow
    /\ None \notin AllowanceRow
    /\ None \notin RequestRow
    /\ None \notin SettlementRow
    /\ None \notin DeductionRow

\* The statement a handler executes next, named for the handler.
Op == {"idle", "refresh", "refresh.compute", "refresh.write", "addLine", "updateLine",
       "removeLine", "submit.compute", "submit", "return", "approve.compute", "approve",
       "reverse", "removeAccount", "issue", "updateAllowance", "removeAllowance", "request",
       "updateRequest", "approveRequest", "decline", "withdraw", "record", "carry", "clear",
       "payout", "rebill", "unrebill", "complete"}

Job == [op : Op, acct : Liquidations \cup {None}, then : Liquidations \cup {None},
        row : Lines \cup Allowances \cup Requests \cup Settlements \cup {None},
        debt : Deductions \cup {None}, amt : Int, spent : Int]

TypeOK ==
    /\ shipment \in {"OPEN", "COMPLETED"}
    /\ liquidation \in [Liquidations -> LiquidationRow]
    /\ liquidationLine \in [Lines -> LineRow \cup {None}]
    /\ allowance \in [Allowances -> AllowanceRow \cup {None}]
    /\ allowanceRequest \in [Requests -> RequestRow \cup {None}]
    /\ rebilled \in SUBSET Lines
    /\ settlement \in [Settlements -> SettlementRow \cup {None}]
    /\ crewDeduction \in [Deductions -> DeductionRow \cup {None}]
    /\ job \in [Handlers -> Job]

-----------------------------------------------------------------------------
(* Reads.  A table is a function from ids to rows. *)

IsLive(table, id) == table[id] # None /\ table[id].live
LiveOn(table, a) == {id \in DOMAIN table : IsLive(table, id) /\ table[id].liquidationId = a}
Unused(table) == {id \in DOMAIN table : table[id] = None}
Total(table, ids) == SumFunctionOnSet([id \in ids |-> table[id].amount], ids)

\* A patch of a claim, a release or an ask: it writes what it names and leaves
\* the rest of the row as the UPDATE finds it.
Unchanged == 0
Patched(row, to, n) ==
    [row EXCEPT !.amount = IF n = Unchanged THEN row.amount ELSE n,
                !.liquidationId = IF to = None THEN row.liquidationId ELSE to]

SoftDelete(table, id) ==
    IF IsLive(table, id) THEN [table EXCEPT ![id].live = FALSE] ELSE table

-----------------------------------------------------------------------------
(* Handlers. *)

\* What a handler does next: for account a (and then for b), to row id, with
\* debt d and figure n.
Running(op, a, b, id, d, n) == [op |-> op, acct |-> a, then |-> b, row |-> id,
                                debt |-> d, amt |-> n, spent |-> 0]
Doing(op, a, id, n) == Running(op, a, None, id, None, n)
Idle == Doing("idle", None, None, 0)

\* A client calls handler "op", which h will run.
Called(h, op) == job[h] = Idle /\ op \in Workload
At(h, op) == job[h].op = op

GoOn(h, next) == job' = [job EXCEPT ![h] = next]
Return(h) == GoOn(h, Idle)

(***************************************************************************)
(* The process serving a request dies, or its connection does: what the    *)
(* handler has written stays and the rest of it never runs.  Prisma's      *)
(* $transaction is one step below, so a transaction is never cut in half.  *)
(***************************************************************************)
Crash(h) ==
    /\ job[h] # Idle
    /\ Return(h)
    /\ UNCHANGED tables
=============================================================================

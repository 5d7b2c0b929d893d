---------------------------- MODULE TripCashProofs --------------------------
(***************************************************************************)
(* What TripCash keeps true for any number of requests in flight, accounts *)
(* and rows, proved by induction over its steps.                           *)
(*                                                                         *)
(* Part 1, type correctness.  A suspended handler writes later, to a row   *)
(* it found earlier, so the types of the tables rest on what each handler  *)
(* carries: Sound says it of one handler, RowsStay says that no step takes *)
(* from under it the rows it has found, and Takes(h) says that a step of h *)
(* keeps the tables typed and leaves h with something sound to do next.    *)
(***************************************************************************)
EXTENDS TripCash, FiniteSums

TablesOK ==
    /\ shipment \in {"OPEN", "COMPLETED"}
    /\ liquidation \in [Liquidations -> LiquidationRow]
    /\ liquidationLine \in [Lines -> LineRow \cup {None}]
    /\ allowance \in [Allowances -> AllowanceRow \cup {None}]
    /\ allowanceRequest \in [Requests -> RequestRow \cup {None}]
    /\ rebilled \in SUBSET Lines
    /\ settlement \in [Settlements -> SettlementRow \cup {None}]
    /\ crewDeduction \in [Deductions -> DeductionRow \cup {None}]

\* The account, the figures and the row a statement needs are there.
OnAccount(j) ==
    j.op \in {"refresh", "refresh.compute", "refresh.write", "addLine", "updateLine",
              "removeLine", "issue", "updateAllowance", "removeAllowance", "request",
              "approveRequest", "submit.compute", "submit", "return", "approve.compute",
              "approve", "reverse", "removeAccount"} => j.acct \in Liquidations

WithAmount(j) ==
    /\ j.op \in {"addLine", "issue", "request", "approveRequest", "payout"} =>
          j.amt \in Amounts
    /\ j.op \in {"updateLine", "updateAllowance", "updateRequest"} =>
          j.amt \in Amounts \cup {Unchanged}

WithTotals(j) ==
    j.op \in {"refresh.write", "submit", "approve"} => j.amt \in Nat /\ j.spent \in Nat

OnRow(j) ==
    /\ j.op \in {"removeLine", "rebill", "unrebill"} => j.row \in Lines
    /\ j.op = "removeAllowance" => j.row \in Allowances
    /\ j.op = "withdraw" => j.row \in Requests
    /\ j.op = "updateLine" => j.row \in Lines /\ liquidationLine[j.row] # None
    /\ j.op = "updateAllowance" => j.row \in Allowances /\ allowance[j.row] # None
    /\ j.op \in {"updateRequest", "approveRequest", "decline"} =>
          j.row \in Requests /\ allowanceRequest[j.row] # None
    /\ j.op \in {"record", "carry", "clear"} =>
          j.row \in Settlements /\ settlement[j.row] # None
    /\ j.op = "reverse" /\ j.row # None =>
          j.row \in Settlements /\ settlement[j.row] # None
    /\ j.op = "payout" => j.debt \in Deductions /\ crewDeduction[j.debt] # None

Sound(j) == j \in Job /\ OnAccount(j) /\ WithAmount(j) /\ WithTotals(j) /\ OnRow(j)

RowsStay ==
    /\ \A l \in Lines : liquidationLine[l] # None => liquidationLine'[l] # None
    /\ \A x \in Allowances : allowance[x] # None => allowance'[x] # None
    /\ \A r \in Requests : allowanceRequest[r] # None => allowanceRequest'[r] # None
    /\ \A s \in Settlements : settlement[s] # None => settlement'[s] # None
    /\ \A d \in Deductions : crewDeduction[d] # None => crewDeduction'[d] # None

Takes(h) == TablesOK' /\ RowsStay /\ \E j : Sound(j) /\ GoOn(h, j)

LEMMA IdleIsSound == Sound(Idle)
  BY DEF Sound, Idle, Doing, Running, Op, Job, OnAccount, WithAmount, WithTotals, OnRow

LEMMA RefreshingIsSound ==
    ASSUME NEW a \in Liquidations, NEW b \in Liquidations \cup {None}
    PROVE  Sound(Refreshing(a, b))
  BY DEF Sound, Refreshing, Running, Op, Job, OnAccount, WithAmount, WithTotals, OnRow

LEMMA SoundStays ==
    ASSUME NEW j, Sound(j), RowsStay
    PROVE  Sound(j)'
  BY DEF Sound, RowsStay, Job, OnAccount, WithAmount, WithTotals, OnRow

\* money.ts sums integers of the smallest unit.
LEMMA SumsAreNaturals ==
    /\ \A S \in SUBSET Allowances : \A f \in [S -> Amounts] : SumFunctionOnSet(f, S) \in Nat
    /\ \A S \in SUBSET Lines : \A f \in [S -> Amounts] : SumFunctionOnSet(f, S) \in Nat
  <1>1. ASSUME NEW S, IsFiniteSet(S), NEW f \in [S -> Amounts]
        PROVE  SumFunctionOnSet(f, S) \in Nat
    <2>1. f \in [S -> Nat]
      BY <1>1, AmountsArePositive
    <2> QED BY <1>1, <2>1, SumIsNatural
  <1>2. /\ \A S \in SUBSET Allowances : IsFiniteSet(S)
        /\ \A S \in SUBSET Lines : IsFiniteSet(S)
    BY TablesAreFinite, FS_Subset
  <1> QED BY <1>1, <1>2

\* A sum of live rows is a natural number.
LEMMA TotalsAreNaturals ==
    ASSUME TablesOK, NEW a \in Liquidations
    PROVE  TotalAllowance(a) \in Nat /\ TotalLiquidated(a) \in Nat
  <1>1. [id \in LiveOn(allowance, a) |-> allowance[id].amount]
            \in [LiveOn(allowance, a) -> Amounts]
    BY DEF TablesOK, LiveOn, IsLive, AllowanceRow
  <1>2. [id \in LiveOn(liquidationLine, a) |-> liquidationLine[id].amount]
            \in [LiveOn(liquidationLine, a) -> Amounts]
    BY DEF TablesOK, LiveOn, IsLive, LineRow
  <1>3. LiveOn(allowance, a) \subseteq Allowances /\ LiveOn(liquidationLine, a) \subseteq Lines
    BY DEF TablesOK, LiveOn
  <1> QED
    BY <1>1, <1>2, <1>3, SumsAreNaturals DEF TotalAllowance, TotalLiquidated, Total

LEMMA TotalledIsSound ==
    ASSUME TablesOK, NEW j, Sound(j), j.acct \in Liquidations,
           NEW op \in {"refresh.write", "submit", "approve"}
    PROVE  Sound(Totalled(j, op))
  <1>1. TotalAllowance(j.acct) \in Nat /\ TotalLiquidated(j.acct) \in Nat
    BY TotalsAreNaturals
  <1> QED
    BY <1>1 DEF Totalled, Sound, Op, Job, OnAccount, WithAmount, WithTotals, OnRow

\* Deleting a row leaves every row of its table in place.
LEMMA LineDeleting ==
    ASSUME NEW t \in [Lines -> LineRow \cup {None}], NEW id \in Lines
    PROVE  /\ SoftDelete(t, id) \in [Lines -> LineRow \cup {None}]
           /\ \A x \in Lines : t[x] # None => SoftDelete(t, id)[x] # None
  <1>1. \A r \in LineRow : [r EXCEPT !.live = FALSE] \in LineRow
    BY DEF LineRow
  <1>2. CASE IsLive(t, id)
    <2>1. SoftDelete(t, id) = [t EXCEPT ![id] = [t[id] EXCEPT !.live = FALSE]]
      BY <1>2 DEF SoftDelete
    <2>2. t[id] \in LineRow
      BY <1>2 DEF IsLive
    <2> QED BY <1>1, <2>1, <2>2, NoneIsNoRow
  <1>3. CASE ~ IsLive(t, id)
    BY <1>3 DEF SoftDelete
  <1> QED BY <1>2, <1>3

LEMMA AllowanceDeleting ==
    ASSUME NEW t \in [Allowances -> AllowanceRow \cup {None}], NEW id \in Allowances
    PROVE  /\ SoftDelete(t, id) \in [Allowances -> AllowanceRow \cup {None}]
           /\ \A x \in Allowances : t[x] # None => SoftDelete(t, id)[x] # None
  <1>1. \A r \in AllowanceRow : [r EXCEPT !.live = FALSE] \in AllowanceRow
    BY DEF AllowanceRow
  <1>2. CASE IsLive(t, id)
    <2>1. SoftDelete(t, id) = [t EXCEPT ![id] = [t[id] EXCEPT !.live = FALSE]]
      BY <1>2 DEF SoftDelete
    <2>2. t[id] \in AllowanceRow
      BY <1>2 DEF IsLive
    <2> QED BY <1>1, <2>1, <2>2, NoneIsNoRow
  <1>3. CASE ~ IsLive(t, id)
    BY <1>3 DEF SoftDelete
  <1> QED BY <1>2, <1>3

LEMMA RequestDeleting ==
    ASSUME NEW t \in [Requests -> RequestRow \cup {None}], NEW id \in Requests
    PROVE  /\ SoftDelete(t, id) \in [Requests -> RequestRow \cup {None}]
           /\ \A x \in Requests : t[x] # None => SoftDelete(t, id)[x] # None
  <1>1. \A r \in RequestRow : [r EXCEPT !.live = FALSE] \in RequestRow
    BY DEF RequestRow
  <1>2. CASE IsLive(t, id)
    <2>1. SoftDelete(t, id) = [t EXCEPT ![id] = [t[id] EXCEPT !.live = FALSE]]
      BY <1>2 DEF SoftDelete
    <2>2. t[id] \in RequestRow
      BY <1>2 DEF IsLive
    <2> QED BY <1>1, <2>1, <2>2, NoneIsNoRow
  <1>3. CASE ~ IsLive(t, id)
    BY <1>3 DEF SoftDelete
  <1> QED BY <1>2, <1>3

LEMMA SettlementDeleting ==
    ASSUME NEW t \in [Settlements -> SettlementRow \cup {None}], NEW id \in Settlements
    PROVE  /\ SoftDelete(t, id) \in [Settlements -> SettlementRow \cup {None}]
           /\ \A x \in Settlements : t[x] # None => SoftDelete(t, id)[x] # None
  <1>1. \A r \in SettlementRow : [r EXCEPT !.live = FALSE] \in SettlementRow
    BY DEF SettlementRow
  <1>2. CASE IsLive(t, id)
    <2>1. SoftDelete(t, id) = [t EXCEPT ![id] = [t[id] EXCEPT !.live = FALSE]]
      BY <1>2 DEF SoftDelete
    <2>2. t[id] \in SettlementRow
      BY <1>2 DEF IsLive
    <2> QED BY <1>1, <2>1, <2>2, NoneIsNoRow
  <1>3. CASE ~ IsLive(t, id)
    BY <1>3 DEF SoftDelete
  <1> QED BY <1>2, <1>3

LEMMA DebtDeleting ==
    ASSUME NEW t \in [Deductions -> DeductionRow \cup {None}], NEW id \in Deductions
    PROVE  /\ SoftDelete(t, id) \in [Deductions -> DeductionRow \cup {None}]
           /\ \A x \in Deductions : t[x] # None => SoftDelete(t, id)[x] # None
  <1>1. \A r \in DeductionRow : [r EXCEPT !.live = FALSE] \in DeductionRow
    BY DEF DeductionRow
  <1>2. CASE IsLive(t, id)
    <2>1. SoftDelete(t, id) = [t EXCEPT ![id] = [t[id] EXCEPT !.live = FALSE]]
      BY <1>2 DEF SoftDelete
    <2>2. t[id] \in DeductionRow
      BY <1>2 DEF IsLive
    <2> QED BY <1>1, <2>1, <2>2, NoneIsNoRow
  <1>3. CASE ~ IsLive(t, id)
    BY <1>3 DEF SoftDelete
  <1> QED BY <1>2, <1>3

\* A step that only reads.
LEMMA ReadingTakes ==
    ASSUME NEW h \in Handlers, TablesOK, UNCHANGED tables,
           NEW j, Sound(j), GoOn(h, j)
    PROVE  Takes(h)
  BY DEF Takes, TablesOK, RowsStay, tables

-----------------------------------------------------------------------------
LEMMA RefreshTakes ==
    ASSUME NEW h \in Handlers, TablesOK, Sound(job[h]), RefreshStep(h)
    PROVE  Takes(h)
  <1>1. /\ job[h].acct \in Liquidations
        /\ job[h].then \in Liquidations \cup {None}
    BY DEF RefreshStep, RefreshStatus, RefreshCompute, RefreshWrite, At, Sound, OnAccount, Job
  <1>2. ASSUME Refreshed(h)
        PROVE  \E j : Sound(j) /\ GoOn(h, j)
    BY <1>1, <1>2, IdleIsSound, RefreshingIsSound DEF Refreshed, Return
  <1>3. CASE RefreshStatus(h)
    <2>1. Sound(Running("refresh.compute", job[h].acct, job[h].then, None, None, 0))
      BY <1>1 DEF Sound, Running, Op, Job, OnAccount, WithAmount, WithTotals, OnRow
    <2> QED BY <1>2, <1>3, <2>1, ReadingTakes DEF RefreshStatus
  <1>4. CASE RefreshCompute(h)
    BY <1>1, <1>4, TotalledIsSound, ReadingTakes DEF RefreshCompute
  <1>5. CASE RefreshWrite(h)
    <2>1. job[h].amt \in Nat /\ job[h].spent \in Nat
      BY <1>5 DEF RefreshWrite, At, Sound, WithTotals
    <2>2. TablesOK'
      BY <1>1, <1>5, <2>1 DEF RefreshWrite, TablesOK, LiquidationRow
    <2>3. RowsStay
      BY <1>5 DEF RefreshWrite, RowsStay
    <2> QED BY <1>2, <1>5, <2>2, <2>3 DEF Takes, RefreshWrite
  <1> QED BY <1>3, <1>4, <1>5 DEF RefreshStep

\* A patch leaves a well-typed row, whichever columns it names.
LEMMA PatchingKeepsTypes ==
    ASSUME NEW to \in Liquidations \cup {None}, NEW n \in Amounts \cup {Unchanged}
    PROVE  /\ \A r \in LineRow : Patched(r, to, n) \in LineRow
           /\ \A r \in AllowanceRow : Patched(r, to, n) \in AllowanceRow
           /\ \A r \in RequestRow : Patched(r, to, n) \in RequestRow
  <1>1. CASE n = Unchanged
    BY <1>1 DEF Patched, LineRow, AllowanceRow, RequestRow
  <1>2. CASE n # Unchanged
    <2>1. n \in Amounts
      BY <1>2
    <2> QED BY <1>2, <2>1 DEF Patched, LineRow, AllowanceRow, RequestRow
  <1> QED BY <1>1, <1>2

LEMMA LineTakes ==
    ASSUME NEW h \in Handlers, TablesOK, Sound(job[h]), LineStep(h)
    PROVE  Takes(h)
  <1>1. ASSUME NEW a \in Liquidations, NEW n \in Amounts, AddLine(h, a, n)
        PROVE  Takes(h)
    <2>1. Sound(Doing("addLine", a, None, n))
      BY AmountsArePositive
         DEF Sound, Doing, Running, Op, Job, OnAccount, WithAmount, WithTotals, OnRow
    <2> QED BY <1>1, <2>1, ReadingTakes DEF AddLine
  <1>2. ASSUME NEW l \in Lines, NEW n \in Amounts \cup {Unchanged}, UpdateLine(h, l, n)
        PROVE  Takes(h)
    <2>1. liquidationLine[l] # None /\ liquidationLine[l].liquidationId \in Liquidations
      BY <1>2 DEF UpdateLine, IsLive, TablesOK, LineRow
    <2>2. Sound(Doing("updateLine", liquidationLine[l].liquidationId, l, n))
      BY <2>1, AmountsArePositive
         DEF Unchanged, Sound, Doing, Running, Op, Job, OnAccount, WithAmount, WithTotals, OnRow
    <2> QED BY <1>2, <2>2, ReadingTakes DEF UpdateLine
  <1>3. ASSUME NEW l \in Lines, RemoveLine(h, l)
        PROVE  Takes(h)
    <2>1. liquidationLine[l].liquidationId \in Liquidations
      BY <1>3 DEF RemoveLine, IsLive, TablesOK, LineRow
    <2>2. Sound(Doing("removeLine", liquidationLine[l].liquidationId, l, 0))
      BY <2>1 DEF Sound, Doing, Running, Op, Job, OnAccount, WithAmount, WithTotals, OnRow
    <2> QED BY <1>3, <2>2, ReadingTakes DEF RemoveLine
  <1>4. CASE InsertLine(h)
    <2>1. job[h].acct \in Liquidations /\ job[h].amt \in Amounts
      BY <1>4 DEF InsertLine, At, Sound, OnAccount, WithAmount
    <2>2. TablesOK'
      BY <1>4, <2>1 DEF InsertLine, TablesOK, LineRow, Unused
    <2>3. RowsStay
      BY <1>4 DEF InsertLine, RowsStay, TablesOK, Unused
    <2> QED BY <1>4, <2>1, <2>2, <2>3, RefreshingIsSound DEF Takes, InsertLine
  <1>5. CASE PatchLine(h)
    <2>1. /\ job[h].acct \in Liquidations /\ job[h].amt \in Amounts \cup {Unchanged}
          /\ job[h].row \in Lines /\ liquidationLine[job[h].row] # None
      BY <1>5 DEF PatchLine, At, Sound, OnRow, OnAccount, WithAmount
    <2> DEFINE new == Patched(liquidationLine[job[h].row], None, job[h].amt)
    <2>2. liquidationLine' = [liquidationLine EXCEPT ![job[h].row] = new]
      BY <1>5 DEF PatchLine
    <2>3. new \in LineRow
      BY <2>1, PatchingKeepsTypes DEF TablesOK
    <2> HIDE DEF new
    <2>4. TablesOK'
      BY <1>5, <2>1, <2>2, <2>3 DEF PatchLine, TablesOK
    <2>5. RowsStay
      BY <1>5, <2>1, <2>2, <2>3, NoneIsNoRow DEF PatchLine, RowsStay, TablesOK
    <2> QED BY <1>5, <2>1, <2>4, <2>5, RefreshingIsSound DEF Takes, PatchLine
  <1>6. CASE DropLine(h)
    <2>1. job[h].acct \in Liquidations /\ job[h].row \in Lines
      BY <1>6 DEF DropLine, At, Sound, OnRow, OnAccount
    <2>2. /\ liquidationLine' \in [Lines -> LineRow \cup {None}]
          /\ \A l \in Lines : liquidationLine[l] # None => liquidationLine'[l] # None
      BY <1>6, <2>1, LineDeleting DEF DropLine, TablesOK
    <2>3. TablesOK' /\ RowsStay
      BY <1>6, <2>2 DEF DropLine, TablesOK, RowsStay
    <2> QED BY <1>6, <2>1, <2>3, RefreshingIsSound DEF Takes, DropLine
  <1> QED BY <1>1, <1>2, <1>3, <1>4, <1>5, <1>6 DEF LineStep

LEMMA StatusTakes ==
    ASSUME NEW h \in Handlers, TablesOK, Sound(job[h]), StatusStep(h)
    PROVE  Takes(h)
  <1>1. ASSUME NEW a \in Liquidations,
               LoadSubmit(h, a) \/ LoadReturn(h, a) \/ LoadApprove(h, a)
        PROVE  Takes(h)
    <2>1. \A op \in {"submit.compute", "return", "approve.compute"} :
              Sound(Doing(op, a, None, 0))
      BY DEF Sound, Doing, Running, Op, Job, OnAccount, WithAmount, WithTotals, OnRow
    <2> QED BY <1>1, <2>1, ReadingTakes DEF LoadSubmit, LoadReturn, LoadApprove, Load
  <1>2. ASSUME NEW a \in Liquidations, LoadReverse(h, a)
        PROVE  Takes(h)
    <2>1. Sound(Doing("reverse", a, None, 0))
      BY DEF Sound, Doing, Running, Op, Job, OnAccount, WithAmount, WithTotals, OnRow
    <2>2. ASSUME NEW s \in LiveSettlement(a)
          PROVE  Sound(Running("reverse", a, None, s, settlement[s].crewDeductionId, 0))
      <3>1. /\ s \in Settlements /\ settlement[s] # None
            /\ settlement[s].crewDeductionId \in Deductions \cup {None}
        BY <2>2 DEF LiveSettlement, LiveOn, IsLive, TablesOK, SettlementRow
      <3> QED BY <3>1 DEF Sound, Doing, Running, Op, Job, OnAccount, WithAmount, WithTotals, OnRow
    <2> QED BY <1>2, <2>1, <2>2, ReadingTakes DEF LoadReverse
  <1>3. CASE ComputeSubmit(h) \/ ComputeApprove(h)
    <2>1. job[h].acct \in Liquidations
      BY <1>3 DEF ComputeSubmit, ComputeApprove, Compute, At, Sound, OnAccount
    <2> QED
      BY <1>3, <2>1, TotalledIsSound, ReadingTakes DEF ComputeSubmit, ComputeApprove, Compute
  <1>4. CASE Submit(h)
    <2>1. job[h].acct \in Liquidations /\ job[h].amt \in Nat /\ job[h].spent \in Nat
      BY <1>4 DEF Submit, At, Sound, OnAccount, WithTotals
    <2>2. liquidation' \in [Liquidations -> LiquidationRow]
      BY <1>4, <2>1 DEF Submit, TablesOK, LiquidationRow, LiquidationStatus
    <2>3. TablesOK' /\ RowsStay
      BY <1>4, <2>2 DEF Submit, TablesOK, RowsStay
    <2> QED BY <1>4, <2>3, IdleIsSound DEF Takes, Submit, Return
  <1>5. CASE ReturnToCrew(h)
    <2>1. \A r \in LiquidationRow : [r EXCEPT !.status = "PENDING"] \in LiquidationRow
      BY DEF LiquidationRow, LiquidationStatus
    <2>2. liquidation' \in [Liquidations -> LiquidationRow]
      BY <1>5, <2>1 DEF ReturnToCrew, TablesOK
    <2>3. TablesOK' /\ RowsStay
      BY <1>5, <2>2 DEF ReturnToCrew, TablesOK, RowsStay
    <2> QED BY <1>5, <2>3, IdleIsSound DEF Takes, ReturnToCrew, Return
  <1>6. CASE Approve(h)
    <2>1. job[h].acct \in Liquidations /\ job[h].amt \in Nat /\ job[h].spent \in Nat
      BY <1>6 DEF Approve, At, Sound, OnAccount, WithTotals
    <2>2. TablesOK'
      BY <1>6, <2>1 DEF Approve, TablesOK, LiquidationRow, LiquidationStatus,
                        SettlementRow, SettlementStatus, Unused
    <2>3. RowsStay
      BY <1>6 DEF Approve, RowsStay, TablesOK, Unused
    <2> QED BY <1>6, <2>2, <2>3, IdleIsSound DEF Takes, Approve, Return
  <1>7. CASE ApproveRolledBack(h)
    BY <1>7, IdleIsSound, ReadingTakes DEF ApproveRolledBack, Return
  <1>8. CASE Reverse(h)
    <2>1. /\ job[h].acct \in Liquidations
          /\ job[h].row # None => job[h].row \in Settlements
          /\ job[h].debt # None => job[h].debt \in Deductions
      BY <1>8 DEF Reverse, At, Sound, OnAccount, OnRow, Job
    <2>2. liquidation' = [liquidation EXCEPT ![job[h].acct].status = "SUBMITTED"]
      BY <1>8 DEF Reverse
    <2>3. \A r \in LiquidationRow : [r EXCEPT !.status = "SUBMITTED"] \in LiquidationRow
      BY DEF LiquidationRow, LiquidationStatus
    <2>4. liquidation' \in [Liquidations -> LiquidationRow]
      BY <2>2, <2>3 DEF TablesOK
    <2>5. /\ settlement' \in [Settlements -> SettlementRow \cup {None}]
          /\ \A s \in Settlements : settlement[s] # None => settlement'[s] # None
      BY <1>8, <2>1, SettlementDeleting DEF Reverse, TablesOK, Gone
    <2>6. /\ crewDeduction' \in [Deductions -> DeductionRow \cup {None}]
          /\ \A d \in Deductions : crewDeduction[d] # None => crewDeduction'[d] # None
      BY <1>8, <2>1, DebtDeleting DEF Reverse, TablesOK, Gone
    <2>7. TablesOK' /\ RowsStay
      BY <1>8, <2>4, <2>5, <2>6 DEF Reverse, TablesOK, RowsStay
    <2> QED BY <1>8, <2>7, IdleIsSound DEF Takes, Reverse, Return
  <1> QED BY <1>1, <1>2, <1>3, <1>4, <1>5, <1>6, <1>7, <1>8 DEF StatusStep

LEMMA AccountTakes ==
    ASSUME NEW h \in Handlers, TablesOK, Sound(job[h]), AccountStep(h)
    PROVE  Takes(h)
  <1>1. ASSUME NEW a \in Liquidations, OpenAccount(h, a)
        PROVE  Takes(h)
    <2>1. liquidation' \in [Liquidations -> LiquidationRow]
      BY <1>1 DEF OpenAccount, TablesOK, LiquidationRow
    <2>2. TablesOK' /\ RowsStay
      BY <1>1, <2>1 DEF OpenAccount, TablesOK, RowsStay
    <2> QED BY <1>1, <2>2, IdleIsSound DEF Takes, OpenAccount, Return
  <1>2. ASSUME NEW a \in Liquidations, LoadRemove(h, a)
        PROVE  Takes(h)
    <2>1. Sound(Doing("removeAccount", a, None, 0))
      BY DEF Sound, Doing, Running, Op, Job, OnAccount, WithAmount, WithTotals, OnRow
    <2> QED BY <1>2, <2>1, ReadingTakes DEF LoadRemove
  <1>3. CASE Remove(h)
    <2>1. liquidation' \in [Liquidations -> LiquidationRow]
      BY <1>3 DEF Remove, TablesOK, LiquidationRow
    <2>2. TablesOK' /\ RowsStay
      BY <1>3, <2>1 DEF Remove, TablesOK, RowsStay
    <2> QED BY <1>3, <2>2, IdleIsSound DEF Takes, Remove, Return
  <1> QED BY <1>1, <1>2, <1>3 DEF AccountStep

LEMMA AllowanceTakes ==
    ASSUME NEW h \in Handlers, TablesOK, Sound(job[h]), AllowanceStep(h)
    PROVE  Takes(h)
  <1>1. ASSUME NEW a \in Liquidations, NEW n \in Amounts, Issue(h, a, n)
        PROVE  Takes(h)
    <2>1. Sound(Doing("issue", a, None, n))
      BY AmountsArePositive
         DEF Sound, Doing, Running, Op, Job, OnAccount, WithAmount, WithTotals, OnRow
    <2> QED BY <1>1, <2>1, ReadingTakes DEF Issue
  <1>2. ASSUME NEW x \in Allowances, NEW to \in Liquidations \cup {None},
               NEW n \in Amounts \cup {Unchanged}, UpdateAllowance(h, x, to, n)
        PROVE  Takes(h)
    <2>1. allowance[x] # None /\ allowance[x].liquidationId \in Liquidations
      BY <1>2 DEF UpdateAllowance, IsLive, TablesOK, AllowanceRow
    <2>2. Sound(Running("updateAllowance", allowance[x].liquidationId, to, x, None, n))
      BY <2>1, AmountsArePositive
         DEF Unchanged, Sound, Doing, Running, Op, Job, OnAccount, WithAmount, WithTotals, OnRow
    <2> QED BY <1>2, <2>2, ReadingTakes DEF UpdateAllowance
  <1>3. ASSUME NEW x \in Allowances, RemoveAllowance(h, x)
        PROVE  Takes(h)
    <2>1. allowance[x].liquidationId \in Liquidations
      BY <1>3 DEF RemoveAllowance, IsLive, TablesOK, AllowanceRow
    <2>2. Sound(Doing("removeAllowance", allowance[x].liquidationId, x, 0))
      BY <2>1 DEF Sound, Doing, Running, Op, Job, OnAccount, WithAmount, WithTotals, OnRow
    <2> QED BY <1>3, <2>2, ReadingTakes DEF RemoveAllowance
  <1>4. CASE InsertAllowance(h)
    <2>1. job[h].acct \in Liquidations /\ job[h].amt \in Amounts
      BY <1>4 DEF InsertAllowance, At, Sound, OnAccount, WithAmount
    <2>2. TablesOK'
      BY <1>4, <2>1 DEF InsertAllowance, TablesOK, AllowanceRow, Release, Unused
    <2>3. RowsStay
      BY <1>4 DEF InsertAllowance, RowsStay, TablesOK, Unused
    <2> QED BY <1>4, <2>1, <2>2, <2>3, RefreshingIsSound DEF Takes, InsertAllowance
  <1>5. CASE PatchAllowance(h)
    <2>1. /\ job[h].acct \in Liquidations /\ job[h].amt \in Amounts \cup {Unchanged}
          /\ job[h].then \in Liquidations \cup {None}
          /\ job[h].row \in Allowances /\ allowance[job[h].row] # None
      BY <1>5 DEF PatchAllowance, At, Sound, OnRow, OnAccount, WithAmount, Job
    <2> DEFINE new == Patched(allowance[job[h].row], job[h].then, job[h].amt)
    <2>2. allowance' = [allowance EXCEPT ![job[h].row] = new]
      BY <1>5 DEF PatchAllowance
    <2>3. new \in AllowanceRow
      BY <2>1, PatchingKeepsTypes DEF TablesOK
    <2> HIDE DEF new
    <2>4. TablesOK'
      BY <1>5, <2>1, <2>2, <2>3 DEF PatchAllowance, TablesOK
    <2>5. RowsStay
      BY <1>5, <2>1, <2>2, <2>3, NoneIsNoRow DEF PatchAllowance, RowsStay, TablesOK
    <2> QED BY <1>5, <2>1, <2>4, <2>5, RefreshingIsSound DEF Takes, PatchAllowance
  <1>6. CASE DropAllowance(h)
    <2>1. job[h].acct \in Liquidations /\ job[h].row \in Allowances
      BY <1>6 DEF DropAllowance, At, Sound, OnRow, OnAccount
    <2>2. /\ allowance' \in [Allowances -> AllowanceRow \cup {None}]
          /\ \A x \in Allowances : allowance[x] # None => allowance'[x] # None
      BY <1>6, <2>1, AllowanceDeleting DEF DropAllowance, TablesOK
    <2>3. TablesOK' /\ RowsStay
      BY <1>6, <2>2 DEF DropAllowance, TablesOK, RowsStay
    <2> QED BY <1>6, <2>1, <2>3, RefreshingIsSound DEF Takes, DropAllowance
  <1> QED BY <1>1, <1>2, <1>3, <1>4, <1>5, <1>6 DEF AllowanceStep

LEMMA RequestTakes ==
    ASSUME NEW h \in Handlers, TablesOK, Sound(job[h]), RequestStep(h)
    PROVE  Takes(h)
  <1>1. ASSUME NEW a \in Liquidations, NEW n \in Amounts, CreateRequest(h, a, n)
        PROVE  Takes(h)
    <2>1. Sound(Doing("request", a, None, n))
      BY AmountsArePositive
         DEF Sound, Doing, Running, Op, Job, OnAccount, WithAmount, WithTotals, OnRow
    <2> QED BY <1>1, <2>1, ReadingTakes DEF CreateRequest
  <1>2. ASSUME NEW r \in Requests, NEW to \in Liquidations \cup {None},
               NEW n \in Amounts \cup {Unchanged}, UpdateRequest(h, r, to, n)
        PROVE  Takes(h)
    <2>1. allowanceRequest[r] # None
      BY <1>2 DEF UpdateRequest, Undecided, IsLive
    <2>2. n \in Int
      BY AmountsArePositive DEF Unchanged
    <2>3. Sound(Doing("updateRequest", to, r, n))
      BY <2>1, <2>2
         DEF Sound, Doing, Running, Op, Job, OnAccount, WithAmount, WithTotals, OnRow
    <2> QED BY <1>2, <2>3, ReadingTakes DEF UpdateRequest
  <1>3. ASSUME NEW r \in Requests, LoadApproveRequest(h, r)
        PROVE  Takes(h)
    <2>1. allowanceRequest[r] # None /\ allowanceRequest[r] \in RequestRow
      BY <1>3 DEF LoadApproveRequest, Undecided, IsLive, TablesOK
    <2>2. Sound(Doing("approveRequest", allowanceRequest[r].liquidationId, r,
                      allowanceRequest[r].amount))
      <3>1. allowanceRequest[r].liquidationId \in Liquidations /\ allowanceRequest[r].amount \in Amounts
        BY <2>1 DEF RequestRow
      <3>2. ASSUME NEW a \in Liquidations, NEW n \in Amounts
            PROVE  Sound(Doing("approveRequest", a, r, n))
        BY <2>1, AmountsArePositive
           DEF Sound, Doing, Running, Op, Job, OnAccount, WithAmount, WithTotals, OnRow
      <3> QED BY <3>1, <3>2
    <2> QED BY <1>3, <2>2, ReadingTakes DEF LoadApproveRequest
  <1>4. ASSUME NEW r \in Requests, LoadDecline(h, r) \/ LoadWithdraw(h, r)
        PROVE  Takes(h)
    <2>1. allowanceRequest[r] # None
      BY <1>4 DEF LoadDecline, LoadWithdraw, Undecided, IsLive
    <2>2. Sound(Doing("decline", None, r, 0)) /\ Sound(Doing("withdraw", None, r, 0))
      BY <2>1 DEF Sound, Doing, Running, Op, Job, OnAccount, WithAmount, WithTotals, OnRow
    <2> QED BY <1>4, <2>2, ReadingTakes DEF LoadDecline, LoadWithdraw
  <1>5. CASE InsertRequest(h)
    <2>1. job[h].acct \in Liquidations /\ job[h].amt \in Amounts
      BY <1>5 DEF InsertRequest, At, Sound, OnAccount, WithAmount
    <2>2. TablesOK'
      BY <1>5, <2>1 DEF InsertRequest, TablesOK, RequestRow, RequestStatus, Unused
    <2>3. RowsStay
      BY <1>5 DEF InsertRequest, RowsStay, TablesOK, Unused
    <2> QED BY <1>5, <2>2, <2>3, IdleIsSound DEF Takes, InsertRequest, Return
  <1>6. CASE PatchRequest(h)
    <2>1. /\ job[h].acct \in Liquidations \cup {None} /\ job[h].amt \in Amounts \cup {Unchanged}
          /\ job[h].row \in Requests /\ allowanceRequest[job[h].row] # None
      BY <1>6 DEF PatchRequest, At, Sound, OnRow, WithAmount, Job
    <2> DEFINE new == Patched(allowanceRequest[job[h].row], job[h].acct, job[h].amt)
    <2>2. allowanceRequest' = [allowanceRequest EXCEPT ![job[h].row] = new]
      BY <1>6 DEF PatchRequest
    <2>3. new \in RequestRow
      BY <2>1, PatchingKeepsTypes DEF TablesOK
    <2> HIDE DEF new
    <2>4. TablesOK'
      BY <1>6, <2>1, <2>2, <2>3 DEF PatchRequest, TablesOK
    <2>5. RowsStay
      BY <1>6, <2>1, <2>2, <2>3, NoneIsNoRow DEF PatchRequest, RowsStay, TablesOK
    <2> QED BY <1>6, <2>4, <2>5, IdleIsSound DEF Takes, PatchRequest, Return
  <1>7. CASE ApproveRequest(h)
    <2>1. /\ job[h].acct \in Liquidations /\ job[h].amt \in Amounts
          /\ job[h].row \in Requests /\ allowanceRequest[job[h].row] \in RequestRow
      BY <1>7 DEF ApproveRequest, At, Sound, OnAccount, OnRow, WithAmount, TablesOK
    <2>2. PICK x \in Unused(allowance) :
            /\ allowance' = [allowance EXCEPT ![x] =
                                 Release(job[h].acct, job[h].amt, job[h].row)]
            /\ allowanceRequest' = [allowanceRequest EXCEPT ![job[h].row].status = "APPROVED",
                                                            ![job[h].row].allowanceId = x]
      BY <1>7 DEF ApproveRequest
    <2>3. x \in Allowances /\ allowance[x] = None
      BY DEF Unused, TablesOK
    <2>4. allowance' \in [Allowances -> AllowanceRow \cup {None}]
      BY <2>1, <2>2, <2>3 DEF TablesOK, AllowanceRow, Release
    <2>5. /\ allowanceRequest' \in [Requests -> RequestRow \cup {None}]
          /\ allowanceRequest'[job[h].row] \in RequestRow
      BY <2>1, <2>2, <2>3 DEF TablesOK, RequestRow, RequestStatus
    <2>6. TablesOK'
      BY <1>7, <2>4, <2>5 DEF ApproveRequest, TablesOK
    <2>7. RowsStay
      BY <1>7, <2>1, <2>2, <2>3, <2>5, NoneIsNoRow DEF ApproveRequest, RowsStay, TablesOK
    <2> QED BY <1>7, <2>1, <2>6, <2>7, RefreshingIsSound DEF Takes, ApproveRequest
  <1>8. CASE ApproveRequestRolledBack(h)
    BY <1>8, IdleIsSound, ReadingTakes DEF ApproveRequestRolledBack, Return
  <1>9. CASE Decline(h)
    <2>1. job[h].row \in Requests /\ allowanceRequest[job[h].row] \in RequestRow
      BY <1>9 DEF Decline, At, Sound, OnRow, TablesOK
    <2>2. \A r \in RequestRow : [r EXCEPT !.status = "DECLINED"] \in RequestRow
      BY DEF RequestRow, RequestStatus
    <2>3. TablesOK'
      BY <1>9, <2>1, <2>2 DEF Decline, TablesOK
    <2>4. RowsStay
      BY <1>9, <2>1, <2>2, NoneIsNoRow DEF Decline, RowsStay, TablesOK
    <2> QED BY <1>9, <2>3, <2>4, IdleIsSound DEF Takes, Decline, Return
  <1>10. CASE Withdraw(h)
    <2>1. job[h].row \in Requests
      BY <1>10 DEF Withdraw, At, Sound, OnRow
    <2>2. /\ allowanceRequest' \in [Requests -> RequestRow \cup {None}]
          /\ \A r \in Requests : allowanceRequest[r] # None => allowanceRequest'[r] # None
      BY <1>10, <2>1, RequestDeleting DEF Withdraw, TablesOK
    <2>3. TablesOK' /\ RowsStay
      BY <1>10, <2>2 DEF Withdraw, TablesOK, RowsStay
    <2> QED BY <1>10, <2>3, IdleIsSound DEF Takes, Withdraw, Return
  <1> QED BY <1>1, <1>2, <1>3, <1>4, <1>5, <1>6, <1>7, <1>8, <1>9, <1>10 DEF RequestStep

LEMMA SettlementTakes ==
    ASSUME NEW h \in Handlers, TablesOK, Sound(job[h]), SettlementStep(h)
    PROVE  Takes(h)
  <1>1. ASSUME NEW a \in Liquidations, NEW s \in LiveSettlement(a)
        PROVE  /\ Sound(Doing("record", None, s, 0))
               /\ Sound(Doing("carry", None, s, settlement[s].amount))
    <2>1. s \in Settlements /\ settlement[s] # None /\ settlement[s].amount \in Int
      BY <1>1 DEF LiveSettlement, LiveOn, IsLive, TablesOK, SettlementRow
    <2> QED BY <2>1 DEF Sound, Doing, Running, Op, Job, OnAccount, WithAmount, WithTotals, OnRow
  <1>2. ASSUME NEW a \in Liquidations, LoadRecord(h, a) \/ LoadCarry(h, a)
        PROVE  Takes(h)
    BY <1>1, <1>2, ReadingTakes DEF LoadRecord, LoadCarry
  <1>3. CASE LoadClear(h)
    <2>1. ASSUME NEW s \in Settlements, IsLive(settlement, s)
          PROVE  Sound(Doing("clear", None, s, 0))
      BY <2>1
         DEF IsLive, Sound, Doing, Running, Op, Job, OnAccount, WithAmount, WithTotals, OnRow
    <2> QED BY <1>3, <2>1, ReadingTakes DEF LoadClear
  <1>4. ASSUME Record(h) \/ CarryToPayout(h) \/ Clear(h)
        PROVE  job[h].row \in Settlements /\ settlement[job[h].row] \in SettlementRow
    BY <1>4 DEF Record, CarryToPayout, Clear, At, Sound, OnRow, TablesOK
  <1>5. CASE Record(h)
    <2>1. \A r \in SettlementRow :
              [r EXCEPT !.status = "SETTLED", !.disbursed = TRUE] \in SettlementRow
      BY DEF SettlementRow, SettlementStatus
    <2>2. TablesOK'
      BY <1>4, <1>5, <2>1 DEF Record, TablesOK
    <2>3. RowsStay
      BY <1>4, <1>5, <2>1, NoneIsNoRow DEF Record, RowsStay, TablesOK
    <2> QED BY <1>5, <2>2, <2>3, IdleIsSound DEF Takes, Record, Return
  <1>6. CASE CarryToPayout(h)
    <2>1. PICK d \in Unused(crewDeduction) :
            /\ crewDeduction' = [crewDeduction EXCEPT ![d] =
                  [amount |-> job[h].amt, live |-> TRUE, due |-> 0, paid |-> 0]]
            /\ settlement' = [settlement EXCEPT ![job[h].row].status = "CARRIED_TO_PAYOUT",
                                                ![job[h].row].crewDeductionId = d]
      BY <1>6 DEF CarryToPayout
    <2>2. d \in Deductions /\ crewDeduction[d] = None
      BY DEF Unused, TablesOK
    <2>3. \A r \in SettlementRow :
              [r EXCEPT !.status = "CARRIED_TO_PAYOUT", !.crewDeductionId = d] \in SettlementRow
      BY <2>2 DEF SettlementRow, SettlementStatus
    <2>4. job[h].amt \in Int
      BY DEF Sound, Job
    <2>5. crewDeduction' \in [Deductions -> DeductionRow \cup {None}]
      BY <2>1, <2>2, <2>4 DEF TablesOK, DeductionRow
    <2>6. settlement' \in [Settlements -> SettlementRow \cup {None}]
      BY <1>4, <1>6, <2>1, <2>3 DEF TablesOK
    <2>7. TablesOK'
      BY <1>6, <2>5, <2>6 DEF CarryToPayout, TablesOK
    <2>8. /\ \A s \in Settlements : settlement[s] # None => settlement'[s] # None
          /\ \A x \in Deductions : crewDeduction[x] # None => crewDeduction'[x] # None
      <3>1. settlement'[job[h].row] \in SettlementRow
        BY <1>4, <1>6, <2>1, <2>3 DEF TablesOK
      <3>2. \A s \in Settlements : s # job[h].row => settlement'[s] = settlement[s]
        BY <2>1 DEF TablesOK
      <3>3. \A x \in Deductions : x # d => crewDeduction'[x] = crewDeduction[x]
        BY <2>1 DEF TablesOK
      <3> QED BY <2>2, <3>1, <3>2, <3>3, NoneIsNoRow
    <2>9. RowsStay
      BY <1>6, <2>8 DEF CarryToPayout, RowsStay
    <2> QED BY <1>6, <2>7, <2>9, IdleIsSound DEF Takes, CarryToPayout, Return
  <1>7. CASE CarryRolledBack(h)
    BY <1>7, IdleIsSound, ReadingTakes DEF CarryRolledBack, Return
  <1>8. CASE Clear(h)
    <2>1. \A r \in SettlementRow : [r EXCEPT !.status = "SETTLED"] \in SettlementRow
      BY DEF SettlementRow, SettlementStatus
    <2>2. TablesOK'
      BY <1>4, <1>8, <2>1 DEF Clear, TablesOK
    <2>3. RowsStay
      BY <1>4, <1>8, <2>1, NoneIsNoRow DEF Clear, RowsStay, TablesOK
    <2> QED BY <1>8, <2>2, <2>3, IdleIsSound DEF Takes, Clear, Return
  <1> QED BY <1>2, <1>3, <1>5, <1>6, <1>7, <1>8 DEF SettlementStep

LEMMA PayoutTakes ==
    ASSUME NEW h \in Handlers, TablesOK, Sound(job[h]), PayoutStep(h)
    PROVE  Takes(h)
  <1>1. ASSUME NEW d \in Deductions, PaySlices(h, d) \/ DropSlices(h, d)
        PROVE  Takes(h)
    <2>1. crewDeduction[d] \in DeductionRow
      BY <1>1 DEF PaySlices, DropSlices, TablesOK
    <2>2. crewDeduction' \in [Deductions -> DeductionRow \cup {None}]
      BY <1>1, <2>1 DEF PaySlices, DropSlices, TablesOK, DeductionRow
    <2>3. crewDeduction'[d] \in DeductionRow
      BY <1>1, <2>1 DEF PaySlices, DropSlices, TablesOK, DeductionRow
    <2>4. TablesOK'
      BY <1>1, <2>2 DEF PaySlices, DropSlices, TablesOK
    <2>5. RowsStay
      BY <1>1, <2>3, NoneIsNoRow DEF PaySlices, DropSlices, TablesOK, RowsStay
    <2> QED BY <1>1, <2>4, <2>5, IdleIsSound DEF Takes, PaySlices, DropSlices, Return
  <1>2. ASSUME NEW d \in Deductions, NEW n \in Amounts, TakeSlice(h, d, n)
        PROVE  Takes(h)
    <2>1. Sound(Running("payout", None, None, None, d, n))
      BY <1>2, AmountsArePositive
         DEF TakeSlice, IsLive, Sound, Running, Op, Job, OnAccount, WithAmount, WithTotals, OnRow
    <2> QED BY <1>2, <2>1, ReadingTakes DEF TakeSlice
  <1>3. CASE CommitSlice(h)
    <2>1. /\ job[h].debt \in Deductions /\ crewDeduction[job[h].debt] \in DeductionRow
          /\ job[h].amt \in Nat
      BY <1>3, AmountsArePositive DEF CommitSlice, At, Sound, OnRow, WithAmount, TablesOK
    <2>2. /\ crewDeduction' \in [Deductions -> DeductionRow \cup {None}]
          /\ crewDeduction'[job[h].debt] \in DeductionRow
      BY <1>3, <2>1 DEF CommitSlice, TablesOK, DeductionRow
    <2>3. TablesOK'
      BY <1>3, <2>2 DEF CommitSlice, TablesOK
    <2>4. RowsStay
      BY <1>3, <2>2, NoneIsNoRow DEF CommitSlice, TablesOK, RowsStay
    <2> QED BY <1>3, <2>3, <2>4, IdleIsSound DEF Takes, CommitSlice, Return
  <1> QED BY <1>1, <1>2, <1>3 DEF PayoutStep

LEMMA ShipmentTakes ==
    ASSUME NEW h \in Handlers, TablesOK, Sound(job[h]), ShipmentStep(h)
    PROVE  Takes(h)
  <1>1. ASSUME NEW l \in Lines, LoadRebill(h, l) \/ LoadUnrebill(h, l)
        PROVE  Takes(h)
    <2>1. Sound(Doing("rebill", None, l, 0)) /\ Sound(Doing("unrebill", None, l, 0))
      BY DEF Sound, Doing, Running, Op, Job, OnAccount, WithAmount, WithTotals, OnRow
    <2> QED BY <1>1, <2>1, ReadingTakes DEF LoadRebill, LoadUnrebill
  <1>2. CASE Rebill(h) \/ Unrebill(h)
    <2>1. job[h].row \in Lines
      BY <1>2 DEF Rebill, Unrebill, At, Sound, OnRow
    <2>2. TablesOK' /\ RowsStay
      BY <1>2, <2>1 DEF Rebill, Unrebill, TablesOK, RowsStay
    <2> QED BY <1>2, <2>2, IdleIsSound DEF Takes, Rebill, Unrebill, Return
  <1>3. CASE LoadComplete(h)
    <2>1. Sound(Doing("complete", None, None, 0))
      BY DEF Sound, Doing, Running, Op, Job, OnAccount, WithAmount, WithTotals, OnRow
    <2> QED BY <1>3, <2>1, ReadingTakes DEF LoadComplete
  <1>4. CASE Complete(h)
    <2>1. TablesOK' /\ RowsStay
      BY <1>4 DEF Complete, TablesOK, RowsStay
    <2> QED BY <1>4, <2>1, IdleIsSound DEF Takes, Complete, Return
  <1> QED BY <1>1, <1>2, <1>3, <1>4 DEF ShipmentStep

-----------------------------------------------------------------------------
Typed ==
    /\ TablesOK
    /\ job \in [Handlers -> Job]
    /\ \A h \in Handlers : Sound(job[h])

LEMMA TypedInit == Init => Typed
  <1> SUFFICES ASSUME Init PROVE Typed
    OBVIOUS
  <1>1. TablesOK
    BY DEF Init, TablesOK, NoAccount, LiquidationRow, LiquidationStatus
  <1>2. \A h \in Handlers : job[h] = Idle
    BY DEF Init
  <1>3. Idle \in Job /\ Sound(Idle)
    BY IdleIsSound DEF Sound
  <1> QED BY <1>1, <1>2, <1>3 DEF Typed, Init

\* A step is a step of one handler, and keeps what the others rely on.
LEMMA TypedNext == Typed /\ [Next]_vars => Typed' /\ RowsStay
  <1> SUFFICES ASSUME Typed, [Next]_vars PROVE Typed' /\ RowsStay
    OBVIOUS
  <1>1. CASE UNCHANGED vars
    <2>1. Typed' = Typed
      BY <1>1 DEF vars, tables, Typed, TablesOK, Sound, OnAccount, WithAmount, WithTotals, OnRow
    <2> QED BY <1>1, <2>1 DEF RowsStay, vars, tables
  <1>2. CASE Next
    <2>1. PICK h \in Handlers :
            \/ RefreshStep(h) \/ LineStep(h) \/ StatusStep(h) \/ AccountStep(h)
            \/ AllowanceStep(h) \/ RequestStep(h) \/ SettlementStep(h) \/ PayoutStep(h)
            \/ ShipmentStep(h) \/ Crash(h)
      BY <1>2 DEF Next
    <2>2. TablesOK /\ Sound(job[h])
      BY DEF Typed
    <2>3. Crash(h) => Takes(h)
      BY <2>2, IdleIsSound, ReadingTakes DEF Crash, Return
    <2>4. Takes(h)
      BY <2>1, <2>2, <2>3, RefreshTakes, LineTakes, StatusTakes, AccountTakes, AllowanceTakes,
         RequestTakes, SettlementTakes, PayoutTakes, ShipmentTakes
    <2>5. PICK j : Sound(j) /\ job' = [job EXCEPT ![h] = j]
      BY <2>4 DEF Takes, GoOn
    <2>6. TablesOK' /\ RowsStay
      BY <2>4 DEF Takes
    <2>7. j \in Job
      BY <2>5 DEF Sound
    <2>8. job' \in [Handlers -> Job]
      BY <2>5, <2>7 DEF Typed
    <2>9. ASSUME NEW g \in Handlers PROVE Sound(job[g])'
      <3> DEFINE k == IF g = h THEN j ELSE job[g]
      <3>1. PICK i : i = k
        OBVIOUS
      <3>2. Sound(i)
        BY <2>5, <3>1 DEF Typed
      <3>3. Sound(i)'
        BY <2>6, <3>2, SoundStays
      <3>4. job'[g] = i
        BY <2>5, <3>1 DEF Typed
      <3> QED BY <3>3, <3>4 DEF Sound, OnAccount, WithAmount, WithTotals, OnRow
    <2> QED BY <2>6, <2>8, <2>9 DEF Typed
  <1> QED BY <1>1, <1>2

LEMMA SpecTyped == Spec => []Typed
  BY TypedInit, TypedNext, PTL DEF Spec

\* The tables hold rows of their types and every handler a statement of its
\* own kind, in every reachable state of any instance.
THEOREM TypeCorrect == Spec => []TypeOK
  <1>1. Typed => TypeOK
    BY DEF Typed, TablesOK, TypeOK
  <1> QED BY <1>1, SpecTyped, PTL

-----------------------------------------------------------------------------
(***************************************************************************)
(* Part 2, the safety that survives any interleaving.  What a suspended    *)
(* reversal is going to delete is a settlement of its own account, because *)
(* no step moves a settlement between accounts; hence an account that      *)
(* stays APPROVED keeps its settlement.  Stands says what a step leaves    *)
(* alone in every settlement, Keeps(h) what a step of h preserves.         *)
(***************************************************************************)
OneLive ==
    \A s, t \in Settlements :
        /\ IsLive(settlement, s) /\ IsLive(settlement, t)
        /\ settlement[s].liquidationId = settlement[t].liquidationId
        => s = t

ApprovedOwes ==
    \A a \in Liquidations : liquidation[a].status = "APPROVED" => LiveSettlement(a) # {}

HandedOverIsSettled ==
    \A s \in Settlements :
        settlement[s] # None /\ settlement[s].disbursed =>
            settlement[s].status = "SETTLED" /\ settlement[s].crewDeductionId = None

Recorded == OneLive /\ ApprovedOwes /\ HandedOverIsSettled

\* The decision CHECK keeps an APPROVED request APPROVED by its allowanceId.
Answered ==
    \A x \in Allowances :
        allowance[x] # None /\ allowance[x].ask # None =>
            /\ allowanceRequest[allowance[x].ask] # None
            /\ allowanceRequest[allowance[x].ask].status = "APPROVED"
            /\ allowanceRequest[allowance[x].ask].allowanceId # None

Unwinds(j) ==
    j.op = "reverse" /\ j.row # None => settlement[j.row].liquidationId = j.acct

Stands ==
    \A s \in Settlements :
        settlement[s] # None =>
            /\ settlement'[s] # None
            /\ settlement'[s].liquidationId = settlement[s].liquidationId
            /\ settlement[s].status = "SETTLED" =>
                  /\ settlement'[s].status = "SETTLED"
                  /\ settlement'[s].amount = settlement[s].amount
                  /\ settlement'[s].crewDeductionId = settlement[s].crewDeductionId

NoneNewlyApproved ==
    \A a \in Liquidations : liquidation'[a].status = "APPROVED" => liquidation[a].status = "APPROVED"

Keeps(h) ==
    Stands /\ Recorded' /\ Answered' /\ \E j : GoOn(h, j) /\ Unwinds(j)'

\* What most steps leave alone.
LEMMA RecordUntouched ==
    ASSUME settlement' = settlement, NoneNewlyApproved, Recorded
    PROVE  Stands /\ Recorded'
  BY DEF NoneNewlyApproved, Recorded, OneLive, ApprovedOwes, HandedOverIsSettled, LiveSettlement,
         LiveOn, IsLive, Stands

LEMMA AsksUntouched ==
    ASSUME allowance' = allowance, allowanceRequest' = allowanceRequest, Answered
    PROVE  Answered'
  BY DEF Answered

LEMMA NeitherTouched ==
    ASSUME NEW h \in Handlers, Recorded, Answered,
           settlement' = settlement, NoneNewlyApproved,
           allowance' = allowance, allowanceRequest' = allowanceRequest,
           NEW j, j.op # "reverse", GoOn(h, j)
    PROVE  Keeps(h)
  BY RecordUntouched, AsksUntouched DEF Keeps, Unwinds

LEMMA ReadingKeeps ==
    ASSUME NEW h \in Handlers, Recorded, Answered, UNCHANGED tables,
           NEW j, j.op # "reverse", GoOn(h, j)
    PROVE  Keeps(h)
  BY NeitherTouched DEF tables, NoneNewlyApproved

LEMMA Returns ==
    /\ Idle.op # "reverse"
    /\ \A a, b : Refreshing(a, b).op # "reverse"
    /\ \A op, a, id, n : Doing(op, a, id, n).op = op
    /\ \A op, a, b, id, d, n : Running(op, a, b, id, d, n).op = op
    /\ \A j, op : Totalled(j, op).op = op
  BY DEF Idle, Refreshing, Doing, Running, Totalled

LEMMA RefreshKeeps ==
    ASSUME NEW h \in Handlers, TablesOK, Sound(job[h]), Recorded, Answered, RefreshStep(h)
    PROVE  Keeps(h)
  <1>1. ASSUME Refreshed(h)
        PROVE  \E j : j.op # "reverse" /\ GoOn(h, j)
    BY <1>1, Returns DEF Refreshed, Return
  <1>2. CASE RefreshStatus(h)
    BY <1>1, <1>2, Returns, ReadingKeeps DEF RefreshStatus
  <1>3. CASE RefreshCompute(h)
    BY <1>3, Returns, ReadingKeeps DEF RefreshCompute
  <1>4. CASE RefreshWrite(h)
    <2>1. NoneNewlyApproved
      BY <1>4 DEF RefreshWrite, NoneNewlyApproved, TablesOK, LiquidationRow
    <2> QED BY <1>1, <1>4, <2>1, NeitherTouched DEF RefreshWrite
  <1> QED BY <1>2, <1>3, <1>4 DEF RefreshStep

LEMMA LineKeeps ==
    ASSUME NEW h \in Handlers, TablesOK, Sound(job[h]), Recorded, Answered, LineStep(h)
    PROVE  Keeps(h)
  <1>1. CASE InsertLine(h) \/ PatchLine(h) \/ DropLine(h)
    BY <1>1, Returns, NeitherTouched
       DEF InsertLine, PatchLine, DropLine, NoneNewlyApproved
  <1>2. CASE ~ (InsertLine(h) \/ PatchLine(h) \/ DropLine(h))
    BY <1>2, Returns, ReadingKeeps DEF LineStep, AddLine, UpdateLine, RemoveLine
  <1> QED BY <1>1, <1>2

LEMMA AccountKeeps ==
    ASSUME NEW h \in Handlers, TablesOK, Sound(job[h]), Recorded, Answered, AccountStep(h)
    PROVE  Keeps(h)
  <1>1. ASSUME NEW a \in Liquidations, OpenAccount(h, a)
        PROVE  Keeps(h)
    <2>1. NoneNewlyApproved
      BY <1>1 DEF OpenAccount, NoneNewlyApproved, TablesOK, LiquidationRow
    <2> QED BY <1>1, <2>1, Returns, NeitherTouched DEF OpenAccount, Return
  <1>2. ASSUME NEW a \in Liquidations, LoadRemove(h, a)
        PROVE  Keeps(h)
    BY <1>2, Returns, ReadingKeeps DEF LoadRemove
  <1>3. CASE Remove(h)
    <2>1. NoneNewlyApproved
      BY <1>3 DEF Remove, NoneNewlyApproved, TablesOK, LiquidationRow
    <2> QED BY <1>3, <2>1, Returns, NeitherTouched DEF Remove, Return
  <1> QED BY <1>1, <1>2, <1>3 DEF AccountStep

LEMMA PayoutKeeps ==
    ASSUME NEW h \in Handlers, Recorded, Answered, PayoutStep(h)
    PROVE  Keeps(h)
  <1>1. ASSUME NEW d \in Deductions, PaySlices(h, d) \/ DropSlices(h, d)
        PROVE  Keeps(h)
    BY <1>1, Returns, NeitherTouched DEF PaySlices, DropSlices, Return, NoneNewlyApproved
  <1>2. ASSUME NEW d \in Deductions, NEW n \in Amounts, TakeSlice(h, d, n)
        PROVE  Keeps(h)
    BY <1>2, Returns, ReadingKeeps DEF TakeSlice
  <1>3. CASE CommitSlice(h)
    BY <1>3, Returns, NeitherTouched DEF CommitSlice, Return, NoneNewlyApproved
  <1> QED BY <1>1, <1>2, <1>3 DEF PayoutStep

LEMMA ShipmentKeeps ==
    ASSUME NEW h \in Handlers, Recorded, Answered, ShipmentStep(h)
    PROVE  Keeps(h)
  <1>1. CASE Rebill(h) \/ Unrebill(h) \/ Complete(h)
    BY <1>1, Returns, NeitherTouched DEF Rebill, Unrebill, Complete, Return, NoneNewlyApproved
  <1>2. CASE ~ (Rebill(h) \/ Unrebill(h) \/ Complete(h))
    BY <1>2, Returns, ReadingKeeps DEF ShipmentStep, LoadRebill, LoadUnrebill, LoadComplete
  <1> QED BY <1>1, <1>2

-----------------------------------------------------------------------------
\* Approving inserts the only live settlement of an account that has none;
\* reversing deletes one of the account it takes out of APPROVED.
LEMMA StatusKeeps ==
    ASSUME NEW h \in Handlers, TablesOK, Sound(job[h]), Unwinds(job[h]),
           Recorded, Answered, StatusStep(h)
    PROVE  Keeps(h)
  <1>1. ASSUME NEW a \in Liquidations,
               LoadSubmit(h, a) \/ LoadReturn(h, a) \/ LoadApprove(h, a)
        PROVE  Keeps(h)
    BY <1>1, Returns, ReadingKeeps DEF LoadSubmit, LoadReturn, LoadApprove, Load
  <1>2. ASSUME NEW a \in Liquidations, LoadReverse(h, a)
        PROVE  Keeps(h)
    <2>1. UNCHANGED tables /\ Stands /\ Recorded' /\ Answered'
      BY <1>2, RecordUntouched, AsksUntouched DEF LoadReverse, tables, NoneNewlyApproved
    <2>2. Unwinds(Doing("reverse", a, None, 0))'
      BY DEF Unwinds, Doing, Running
    <2>3. ASSUME NEW s \in LiveSettlement(a), NEW d
          PROVE  Unwinds(Running("reverse", a, None, s, d, 0))'
      BY <2>1, <2>3 DEF Unwinds, Running, LiveSettlement, LiveOn, tables
    <2>4. ASSUME NEW j, GoOn(h, j), Unwinds(j)'
          PROVE  Keeps(h)
      BY <2>1, <2>4 DEF Keeps
    <2>5. CASE GoOn(h, Doing("reverse", a, None, 0))
      BY <2>2, <2>4, <2>5
    <2>6. ASSUME NEW s \in LiveSettlement(a),
                 GoOn(h, Running("reverse", a, None, s, settlement[s].crewDeductionId, 0))
          PROVE  Keeps(h)
      <3>1. PICK d : d = settlement[s].crewDeductionId
        OBVIOUS
      <3>2. GoOn(h, Running("reverse", a, None, s, d, 0))
        BY <2>6, <3>1
      <3> QED BY <2>3, <2>4, <3>2
    <2> QED BY <1>2, <2>5, <2>6 DEF LoadReverse
  <1>3. CASE ComputeSubmit(h) \/ ComputeApprove(h)
    BY <1>3, Returns, ReadingKeeps DEF ComputeSubmit, ComputeApprove, Compute
  <1>4. CASE Submit(h)
    <2>1. NoneNewlyApproved
      BY <1>4 DEF Submit, NoneNewlyApproved, TablesOK, LiquidationRow
    <2> QED BY <1>4, <2>1, Returns, NeitherTouched DEF Submit, Return
  <1>5. CASE ReturnToCrew(h)
    <2>1. NoneNewlyApproved
      BY <1>5 DEF ReturnToCrew, NoneNewlyApproved, TablesOK, LiquidationRow
    <2> QED BY <1>5, <2>1, Returns, NeitherTouched DEF ReturnToCrew, Return
  <1>6. CASE Approve(h)
    <2>0. PICK a : a = job[h].acct
      OBVIOUS
    <2>1. /\ a \in Liquidations
          /\ LiveSettlement(a) = {}
          /\ \A b \in Liquidations : b # a => liquidation'[b] = liquidation[b]
      BY <1>6, <2>0 DEF Approve, MaySettle, At, Sound, OnAccount, TablesOK
    <2>2. PICK s \in Unused(settlement), r \in SettlementRow :
            /\ r.liquidationId = a /\ r.live /\ ~ r.disbursed /\ r # None
            /\ settlement' = [settlement EXCEPT ![s] = r]
      <3>1. PICK s \in Unused(settlement) :
              settlement' = [settlement EXCEPT ![s] =
                  [liquidationId |-> a, amount |-> job[h].amt - job[h].spent, live |-> TRUE,
                   status |-> IF job[h].amt - job[h].spent = 0 THEN "SETTLED" ELSE "OUTSTANDING",
                   disbursed |-> FALSE, crewDeductionId |-> None]]
        BY <1>6, <2>0 DEF Approve
      <3> DEFINE r == [liquidationId |-> a, amount |-> job[h].amt - job[h].spent, live |-> TRUE,
                       status |-> IF job[h].amt - job[h].spent = 0 THEN "SETTLED" ELSE "OUTSTANDING",
                       disbursed |-> FALSE, crewDeductionId |-> None]
      <3>2. r \in SettlementRow
        BY <1>6, <2>1 DEF Approve, At, Sound, WithTotals, SettlementRow, SettlementStatus
      <3>3. r # None
        BY <3>2, NoneIsNoRow
      <3> QED BY <3>1, <3>2, <3>3
    <2>3. s \in Settlements /\ settlement[s] = None
      BY DEF Unused, TablesOK
    <2>4. \A t \in Settlements : t # s => settlement'[t] = settlement[t]
      BY <2>2 DEF TablesOK
    <2>5. settlement'[s] = r
      BY <2>2, <2>3 DEF TablesOK
    <2>6. Stands
      BY <2>3, <2>4 DEF Stands
    <2>7. OneLive'
      BY <2>1, <2>2, <2>3, <2>4, <2>5
         DEF Recorded, OneLive, IsLive, LiveSettlement, LiveOn, TablesOK
    <2>8. \A b \in Liquidations : LiveSettlement(b) \subseteq LiveSettlement(b)'
      BY <2>2, <2>3, <2>4 DEF LiveSettlement, LiveOn, IsLive, TablesOK
    <2>9. s \in LiveSettlement(a)'
      <3>1. DOMAIN settlement' = Settlements
        BY <2>2 DEF TablesOK
      <3> QED BY <2>2, <2>3, <2>5, <3>1 DEF LiveSettlement, LiveOn, IsLive
    <2>10. ApprovedOwes'
      BY <2>1, <2>8, <2>9 DEF Recorded, ApprovedOwes
    <2>11. HandedOverIsSettled'
      BY <2>2, <2>4, <2>5 DEF Recorded, HandedOverIsSettled
    <2>12. Answered'
      BY <1>6, AsksUntouched DEF Approve
    <2> QED
      BY <1>6, <2>6, <2>7, <2>10, <2>11, <2>12, Returns
         DEF Keeps, Recorded, Approve, Return, Unwinds
  <1>7. CASE ApproveRolledBack(h)
    BY <1>7, Returns, ReadingKeeps DEF ApproveRolledBack, Return
  <1>8. CASE Reverse(h)
    <2>0. PICK a : a = job[h].acct
      OBVIOUS
    <2>1. /\ a \in Liquidations
          /\ job[h].row # None => /\ job[h].row \in Settlements
                                  /\ settlement[job[h].row].liquidationId = a
      BY <1>8, <2>0 DEF Reverse, At, Sound, OnAccount, OnRow, Unwinds
    <2>2. /\ liquidation'[a].status = "SUBMITTED"
          /\ \A b \in Liquidations : b # a => liquidation'[b] = liquidation[b]
      BY <1>8, <2>0, <2>1 DEF Reverse, TablesOK, LiquidationRow
    <2>3. \A s \in Settlements :
            settlement[s] # None =>
                /\ settlement'[s] # None
                /\ settlement'[s].liquidationId = settlement[s].liquidationId
                /\ settlement'[s].status = settlement[s].status
                /\ settlement'[s].amount = settlement[s].amount
                /\ settlement'[s].crewDeductionId = settlement[s].crewDeductionId
                /\ settlement'[s].disbursed = settlement[s].disbursed
                /\ settlement'[s].live => settlement[s].live
      <3>1. \A r \in SettlementRow :
              /\ [r EXCEPT !.live = FALSE].liquidationId = r.liquidationId
              /\ [r EXCEPT !.live = FALSE].status = r.status
              /\ [r EXCEPT !.live = FALSE].amount = r.amount
              /\ [r EXCEPT !.live = FALSE].crewDeductionId = r.crewDeductionId
              /\ [r EXCEPT !.live = FALSE].disbursed = r.disbursed
              /\ [r EXCEPT !.live = FALSE].live = FALSE
              /\ [r EXCEPT !.live = FALSE] \in SettlementRow
        BY DEF SettlementRow
      <3>2. \A s \in Settlements :
              settlement'[s] = settlement[s] \/ settlement'[s] = [settlement[s] EXCEPT !.live = FALSE]
        BY <1>8, <2>1 DEF Reverse, Gone, SoftDelete, TablesOK
      <3>3. ASSUME NEW s \in Settlements, settlement[s] # None
            PROVE  settlement[s] \in SettlementRow
        BY <3>3 DEF TablesOK
      <3>4. ASSUME NEW s \in Settlements, settlement[s] # None,
                   settlement'[s] = [settlement[s] EXCEPT !.live = FALSE]
            PROVE  /\ settlement'[s] \in SettlementRow
                   /\ settlement'[s].liquidationId = settlement[s].liquidationId
                   /\ settlement'[s].status = settlement[s].status
                   /\ settlement'[s].amount = settlement[s].amount
                   /\ settlement'[s].crewDeductionId = settlement[s].crewDeductionId
                   /\ settlement'[s].disbursed = settlement[s].disbursed
                   /\ settlement'[s].live = FALSE
        <4>1. PICK r \in SettlementRow : r = settlement[s]
          BY <3>3, <3>4
        <4>2. settlement'[s] = [r EXCEPT !.live = FALSE]
          BY <3>4, <4>1
        <4> QED BY <3>1, <4>1, <4>2
      <3> QED BY <3>2, <3>4, NoneIsNoRow
    <2>4. \A s \in Settlements :
            settlement[s] # None /\ settlement[s].liquidationId # a => settlement'[s] = settlement[s]
      BY <1>8, <2>1 DEF Reverse, Gone, SoftDelete, TablesOK
    <2>5. \A s \in Settlements : settlement'[s] # None => settlement[s] # None
      BY <1>8, <2>1 DEF Reverse, Gone, SoftDelete, IsLive, TablesOK
    <2>6. Stands
      BY <2>3 DEF Stands
    <2>7. OneLive' /\ HandedOverIsSettled'
      BY <2>3, <2>5 DEF Recorded, OneLive, HandedOverIsSettled, IsLive
    <2>8. \A b \in Liquidations : b # a => LiveSettlement(b) \subseteq LiveSettlement(b)'
      BY <1>8, <2>4 DEF LiveSettlement, LiveOn, IsLive, TablesOK, Reverse, Gone, SoftDelete
    <2>9. ApprovedOwes'
      BY <2>1, <2>2, <2>8 DEF Recorded, ApprovedOwes
    <2>10. Answered'
      BY <1>8, AsksUntouched DEF Reverse
    <2> QED
      BY <1>8, <2>6, <2>7, <2>9, <2>10, Returns
         DEF Keeps, Recorded, Reverse, Return, Unwinds
  <1> QED BY <1>1, <1>2, <1>3, <1>4, <1>5, <1>6, <1>7, <1>8 DEF StatusStep

\* Record, carryToPayout and clear write over what they read earlier; the
\* CHECKs keep them from what another of them wrote since.
LEMMA SettlementKeeps ==
    ASSUME NEW h \in Handlers, TablesOK, Sound(job[h]), Recorded, Answered, SettlementStep(h)
    PROVE  Keeps(h)
  <1>1. CASE ~ (Record(h) \/ CarryToPayout(h) \/ Clear(h))
    BY <1>1, Returns, ReadingKeeps
       DEF SettlementStep, LoadRecord, LoadCarry, LoadClear, CarryRolledBack, Return
  <1>2. CASE Record(h) \/ CarryToPayout(h) \/ Clear(h)
    <2>0. PICK s : s = job[h].row
      OBVIOUS
    <2>1. s \in Settlements /\ settlement[s] \in SettlementRow /\ settlement[s] # None
      BY <1>2, <2>0 DEF Record, CarryToPayout, Clear, At, Sound, OnRow, TablesOK
    <2>2. \A t \in Settlements : t # s => settlement'[t] = settlement[t]
      BY <1>2, <2>0, <2>1 DEF Record, CarryToPayout, Clear, TablesOK
    <2>3. /\ settlement'[s] \in SettlementRow
          /\ settlement'[s].liquidationId = settlement[s].liquidationId
          /\ settlement'[s].live = settlement[s].live
          /\ settlement'[s].amount = settlement[s].amount
          /\ settlement[s].status = "SETTLED" =>
                /\ settlement'[s].status = "SETTLED"
                /\ settlement'[s].crewDeductionId = settlement[s].crewDeductionId
          /\ settlement'[s].disbursed =>
                settlement'[s].status = "SETTLED" /\ settlement'[s].crewDeductionId = None
      <3>1. CASE Record(h)
        BY <2>0, <2>1, <3>1 DEF Record, MayRecord, TablesOK, SettlementRow, SettlementStatus,
                          Recorded, HandedOverIsSettled
      <3>2. CASE CarryToPayout(h)
        <4>1. PICK d \in Deductions :
                settlement' = [settlement EXCEPT ![s].status = "CARRIED_TO_PAYOUT",
                                                 ![s].crewDeductionId = d]
          BY <2>0, <3>2 DEF CarryToPayout, Unused, TablesOK
        <4>2. settlement[s].status # "SETTLED" /\ ~ settlement[s].disbursed
          BY <2>0, <2>1, <3>2 DEF CarryToPayout, MayCarry, Recorded, HandedOverIsSettled
        <4> QED BY <2>1, <4>1, <4>2 DEF TablesOK, SettlementRow, SettlementStatus
      <3>3. CASE Clear(h)
        BY <2>0, <2>1, <3>3 DEF Clear, TablesOK, SettlementRow, SettlementStatus,
                          Recorded, HandedOverIsSettled
      <3> QED BY <1>2, <3>1, <3>2, <3>3
    <2>4. settlement'[s] # None
      BY <2>3, NoneIsNoRow
    <2>5. Stands
      BY <2>2, <2>3, <2>4 DEF Stands
    <2>6. OneLive' /\ HandedOverIsSettled'
      BY <2>1, <2>2, <2>3 DEF Recorded, OneLive, HandedOverIsSettled, IsLive
    <2>7. liquidation' = liquidation
      BY <1>2 DEF Record, CarryToPayout, Clear
    <2>8. \A b \in Liquidations : LiveSettlement(b) \subseteq LiveSettlement(b)'
      <3>1. DOMAIN settlement = Settlements /\ DOMAIN settlement' = Settlements
        BY <1>2 DEF Record, CarryToPayout, Clear, TablesOK
      <3> QED BY <2>1, <2>2, <2>3, <2>4, <3>1 DEF LiveSettlement, LiveOn, IsLive
    <2>9. ApprovedOwes'
      BY <2>7, <2>8 DEF Recorded, ApprovedOwes
    <2>10. Answered'
      BY <1>2, AsksUntouched DEF Record, CarryToPayout, Clear
    <2>11. \E j : GoOn(h, j) /\ Unwinds(j)'
      BY <1>2, Returns DEF Record, CarryToPayout, Clear, Return, Unwinds
    <2> QED BY <2>5, <2>6, <2>9, <2>10, <2>11 DEF Keeps, Recorded
  <1> QED BY <1>1, <1>2

\* No step rewrites the ask a release answers.
LEMMA AllowanceKeeps ==
    ASSUME NEW h \in Handlers, TablesOK, Sound(job[h]), Recorded, Answered, AllowanceStep(h)
    PROVE  Keeps(h)
  <1>1. CASE ~ (InsertAllowance(h) \/ PatchAllowance(h) \/ DropAllowance(h))
    BY <1>1, Returns, ReadingKeeps
       DEF AllowanceStep, Issue, UpdateAllowance, RemoveAllowance
  <1>2. CASE InsertAllowance(h) \/ PatchAllowance(h) \/ DropAllowance(h)
    <2>1. Stands /\ Recorded'
      BY <1>2, RecordUntouched
         DEF InsertAllowance, PatchAllowance, DropAllowance, NoneNewlyApproved
    <2>2. \A x \in Allowances :
            allowance'[x] # None /\ allowance'[x].ask # None =>
                allowance[x] # None /\ allowance[x].ask = allowance'[x].ask
      <3>1. CASE InsertAllowance(h)
        BY <3>1 DEF InsertAllowance, Release, Unused, TablesOK
      <3>2. CASE PatchAllowance(h)
        <4>1. job[h].row \in Allowances /\ allowance[job[h].row] # None
          BY <3>2 DEF PatchAllowance, At, Sound, OnRow
        <4>2. allowance[job[h].row] \in AllowanceRow
          BY <4>1 DEF TablesOK
        <4>3. \A r \in AllowanceRow : \A to, n : Patched(r, to, n).ask = r.ask
          BY DEF AllowanceRow, Patched
        <4>4. allowance' = [allowance EXCEPT ![job[h].row] =
                               Patched(allowance[job[h].row], job[h].then, job[h].amt)]
          BY <3>2 DEF PatchAllowance
        <4> QED BY <4>1, <4>2, <4>3, <4>4 DEF TablesOK
      <3>3. CASE DropAllowance(h)
        <4>1. \A r \in AllowanceRow : [r EXCEPT !.live = FALSE].ask = r.ask
          BY DEF AllowanceRow
        <4>2. \A x \in Allowances :
                \/ allowance'[x] = allowance[x]
                \/ /\ allowance[x] \in AllowanceRow
                   /\ allowance[x] # None
                   /\ allowance'[x] = [allowance[x] EXCEPT !.live = FALSE]
          BY <3>3 DEF DropAllowance, SoftDelete, IsLive, TablesOK
        <4> QED BY <4>1, <4>2
      <3> QED BY <1>2, <3>1, <3>2, <3>3
    <2>3. Answered'
      BY <1>2, <2>2 DEF InsertAllowance, PatchAllowance, DropAllowance, Answered
    <2>4. \E j : GoOn(h, j) /\ Unwinds(j)'
      BY <1>2, Returns DEF InsertAllowance, PatchAllowance, DropAllowance, Unwinds
    <2> QED BY <2>1, <2>3, <2>4 DEF Keeps
  <1> QED BY <1>1, <1>2

\* An APPROVED request that names its release stays so: the decision CHECK
\* refuses a late decline, and nothing else writes the two columns.
LEMMA RequestKeeps ==
    ASSUME NEW h \in Handlers, TablesOK, Sound(job[h]), Recorded, Answered, RequestStep(h)
    PROVE  Keeps(h)
  <1>1. CASE ~ (InsertRequest(h) \/ PatchRequest(h) \/ ApproveRequest(h) \/ Decline(h) \/ Withdraw(h))
    BY <1>1, Returns, ReadingKeeps
       DEF RequestStep, CreateRequest, UpdateRequest, LoadApproveRequest, LoadDecline,
           LoadWithdraw, ApproveRequestRolledBack, Return
  <1>2. CASE InsertRequest(h) \/ PatchRequest(h) \/ ApproveRequest(h) \/ Decline(h) \/ Withdraw(h)
    <2> DEFINE Approved(t, r) == /\ t[r] # None
                                 /\ t[r].status = "APPROVED"
                                 /\ t[r].allowanceId # None
    <2>1. Stands /\ Recorded'
      BY <1>2, RecordUntouched
         DEF InsertRequest, PatchRequest, ApproveRequest, Decline, Withdraw, NoneNewlyApproved
    <2>2. \A r \in Requests :
            Approved(allowanceRequest, r) => Approved(allowanceRequest', r)
      <3>1. CASE InsertRequest(h)
        BY <3>1 DEF InsertRequest, Unused, TablesOK
      <3>2. CASE PatchRequest(h)
        <4>1. job[h].row \in Requests /\ allowanceRequest[job[h].row] # None
          BY <3>2 DEF PatchRequest, At, Sound, OnRow
        <4>2. \A r \in RequestRow : \A to, n :
                /\ Patched(r, to, n).status = r.status
                /\ Patched(r, to, n).allowanceId = r.allowanceId
          BY DEF RequestRow, Patched
        <4>3. allowanceRequest[job[h].row] \in RequestRow
          BY <4>1 DEF TablesOK
        <4>4. Patched(allowanceRequest[job[h].row], job[h].acct, job[h].amt) \in RequestRow
          BY <3>2, <4>3 DEF PatchRequest, At, Sound, WithAmount, Job, RequestRow, Patched
        <4>5. allowanceRequest' = [allowanceRequest EXCEPT ![job[h].row] =
                  Patched(allowanceRequest[job[h].row], job[h].acct, job[h].amt)]
          BY <3>2 DEF PatchRequest
        <4> QED BY <4>1, <4>2, <4>3, <4>4, <4>5, NoneIsNoRow DEF TablesOK
      <3>3. CASE ApproveRequest(h)
        <4>1. PICK x \in Unused(allowance) :
                allowanceRequest' = [allowanceRequest EXCEPT ![job[h].row].status = "APPROVED",
                                                             ![job[h].row].allowanceId = x]
          BY <3>3 DEF ApproveRequest
        <4>2. job[h].row \in Requests /\ allowanceRequest[job[h].row] \in RequestRow
          BY <3>3 DEF ApproveRequest, At, Sound, OnRow, TablesOK
        <4>3. x \in Allowances /\ x # None
          BY NoneIsNoId DEF Unused, TablesOK
        <4>4. /\ allowanceRequest'[job[h].row] \in RequestRow
              /\ allowanceRequest'[job[h].row].status = "APPROVED"
              /\ allowanceRequest'[job[h].row].allowanceId = x
          BY <4>1, <4>2, <4>3 DEF TablesOK, RequestRow, RequestStatus
        <4> QED BY <4>1, <4>2, <4>3, <4>4, NoneIsNoRow DEF TablesOK
      <3>4. CASE Decline(h)
        BY <3>4 DEF Decline, MayBecome, At, Sound, OnRow, TablesOK
      <3>5. CASE Withdraw(h)
        <4>1. \A r \in RequestRow :
                /\ [r EXCEPT !.live = FALSE] \in RequestRow
                /\ [r EXCEPT !.live = FALSE].status = r.status
                /\ [r EXCEPT !.live = FALSE].allowanceId = r.allowanceId
          BY DEF RequestRow
        <4>2. \A r \in Requests :
                \/ allowanceRequest'[r] = allowanceRequest[r]
                \/ /\ allowanceRequest[r] \in RequestRow
                   /\ allowanceRequest'[r] = [allowanceRequest[r] EXCEPT !.live = FALSE]
          BY <3>5 DEF Withdraw, SoftDelete, IsLive, TablesOK
        <4> QED BY <4>1, <4>2, NoneIsNoRow
      <3> QED BY <1>2, <3>1, <3>2, <3>3, <3>4, <3>5
    <2>3. ASSUME ~ ApproveRequest(h) PROVE Answered'
      <3>1. allowance' = allowance
        BY <1>2, <2>3 DEF InsertRequest, PatchRequest, Decline, Withdraw
      <3>2. \A x \in Allowances :
              allowance[x] # None /\ allowance[x].ask # None => allowance[x].ask \in Requests
        BY DEF TablesOK, AllowanceRow
      <3> QED BY <2>2, <3>1, <3>2 DEF Answered
    <2>4. ASSUME ApproveRequest(h) PROVE Answered'
      <3>1. PICK x \in Unused(allowance) :
              /\ allowance' = [allowance EXCEPT ![x] =
                                   Release(job[h].acct, job[h].amt, job[h].row)]
              /\ allowanceRequest' = [allowanceRequest EXCEPT ![job[h].row].status = "APPROVED",
                                                              ![job[h].row].allowanceId = x]
        BY <2>4 DEF ApproveRequest
      <3>2. job[h].row \in Requests /\ allowanceRequest[job[h].row] \in RequestRow
        BY <2>4 DEF ApproveRequest, At, Sound, OnRow, TablesOK
      <3>3. x \in Allowances /\ x # None
        BY NoneIsNoId DEF Unused, TablesOK
      <3>4. Approved(allowanceRequest', job[h].row)
        <4>1. /\ allowanceRequest'[job[h].row] \in RequestRow
              /\ allowanceRequest'[job[h].row].status = "APPROVED"
              /\ allowanceRequest'[job[h].row].allowanceId = x
          BY <3>1, <3>2, <3>3 DEF TablesOK, RequestRow, RequestStatus
        <4> QED BY <3>3, <4>1, NoneIsNoRow
      <3>5. /\ allowance'[x].ask = job[h].row
            /\ \A y \in Allowances : y # x => allowance'[y] = allowance[y]
        BY <3>1, <3>3 DEF TablesOK, Release
      <3>6. \A y \in Allowances :
              allowance[y] # None /\ allowance[y].ask # None => allowance[y].ask \in Requests
        BY DEF TablesOK, AllowanceRow
      <3> QED BY <2>2, <3>4, <3>5, <3>6 DEF Answered
    <2>5. \E j : GoOn(h, j) /\ Unwinds(j)'
      BY <1>2, Returns
         DEF InsertRequest, PatchRequest, ApproveRequest, Decline, Withdraw, Return, Unwinds
    <2> QED BY <2>1, <2>3, <2>4, <2>5 DEF Keeps
  <1> QED BY <1>1, <1>2

-----------------------------------------------------------------------------
Safe ==
    /\ Typed
    /\ Recorded
    /\ Answered
    /\ \A h \in Handlers : Unwinds(job[h])

LEMMA SafeInit == Init => Safe
  <1> SUFFICES ASSUME Init PROVE Safe
    OBVIOUS
  <1>1. Recorded /\ Answered
    BY DEF Init, NoAccount, Recorded, OneLive, ApprovedOwes, HandedOverIsSettled, IsLive, Answered
  <1>2. \A h \in Handlers : Unwinds(job[h])
    BY Returns DEF Init, Unwinds
  <1> QED BY <1>1, <1>2, TypedInit DEF Safe

LEMMA SafeNext == Safe /\ [Next]_vars => Safe' /\ Stands
  <1> SUFFICES ASSUME Safe, [Next]_vars PROVE Safe' /\ Stands
    OBVIOUS
  <1>1. Typed'
    BY TypedNext DEF Safe
  <1>2. CASE UNCHANGED vars
    BY <1>1, <1>2
       DEF vars, tables, Safe, Recorded, OneLive, ApprovedOwes, HandedOverIsSettled, IsLive,
           LiveSettlement, LiveOn, Answered, Unwinds, Stands
  <1>3. CASE Next
    <2>1. PICK h \in Handlers :
            \/ RefreshStep(h) \/ LineStep(h) \/ StatusStep(h) \/ AccountStep(h)
            \/ AllowanceStep(h) \/ RequestStep(h) \/ SettlementStep(h) \/ PayoutStep(h)
            \/ ShipmentStep(h) \/ Crash(h)
      BY <1>3 DEF Next
    <2>2. TablesOK /\ Sound(job[h]) /\ Unwinds(job[h]) /\ Recorded /\ Answered
      BY DEF Safe, Typed
    <2>3. Crash(h) => Keeps(h)
      BY <2>2, Returns, ReadingKeeps DEF Crash, Return
    <2>4. Keeps(h)
      BY <2>1, <2>2, <2>3, RefreshKeeps, LineKeeps, StatusKeeps, AccountKeeps, AllowanceKeeps,
         RequestKeeps, SettlementKeeps, PayoutKeeps, ShipmentKeeps
    <2>5. PICK j : job' = [job EXCEPT ![h] = j] /\ Unwinds(j)'
      BY <2>4 DEF Keeps, GoOn
    <2>6. ASSUME NEW g \in Handlers PROVE Unwinds(job[g])'
      <3>1. CASE g = h
        BY <2>5, <3>1 DEF Safe, Typed, Unwinds
      <3>2. CASE g # h
        <4>1. job'[g] = job[g]
          BY <2>5, <3>2 DEF Safe, Typed
        <4>2. job[g].op = "reverse" /\ job[g].row # None =>
                job[g].row \in Settlements /\ settlement[job[g].row] # None
          BY DEF Safe, Typed, Sound, OnRow
        <4> QED BY <2>4, <4>1, <4>2 DEF Safe, Unwinds, Keeps, Stands
      <3> QED BY <3>1, <3>2
    <2> QED BY <1>1, <2>4, <2>6 DEF Safe, Keeps
  <1> QED BY <1>2, <1>3

LEMMA SpecSafe == Spec => []Safe
  BY SafeInit, SafeNext, PTL DEF Spec

\* However approvals, returns and reversals of an account interleave, and
\* wherever they die, an APPROVED account has exactly one live settlement.
THEOREM ApprovalIsOnRecord == Spec => []ApprovedIsOnRecord
  <1>1. Safe => ApprovedIsOnRecord
    <2> SUFFICES ASSUME Safe, NEW a \in Liquidations, liquidation[a].status = "APPROVED"
                 PROVE  \E s \in Settlements : LiveSettlement(a) = {s}
      BY DEF ApprovedIsOnRecord
    <2>1. PICK s : s \in LiveSettlement(a)
      BY DEF Safe, Recorded, ApprovedOwes
    <2>2. \A t \in LiveSettlement(a) :
            /\ t \in Settlements
            /\ IsLive(settlement, t)
            /\ settlement[t].liquidationId = a
      BY DEF LiveSettlement, LiveOn, Safe, Typed, TablesOK
    <2>3. \A t \in LiveSettlement(a) : t = s
      BY <2>1, <2>2 DEF Safe, Recorded, OneLive
    <2> QED BY <2>1, <2>2, <2>3
  <1> QED BY <1>1, SpecSafe, PTL

\* A release made for a request stands beside an APPROVED request, whatever
\* decisions on that request raced.
THEOREM ReleasesAreAnswers == Spec => []ReleaseAnswersApproval
  <1>1. Safe => ReleaseAnswersApproval
    BY DEF Safe, Answered, ReleaseAnswersApproval
  <1> QED BY <1>1, SpecSafe, PTL

\* A settlement handed over in cash is never also a debt on a payout.
THEOREM ClearedOneWay == Spec => []NeverBothWays
  <1>1. Safe => NeverBothWays
    BY DEF Safe, Recorded, HandedOverIsSettled, NeverBothWays
  <1> QED BY <1>1, SpecSafe, PTL

\* However requests race, nothing decided goes unrecorded or is recorded twice.
THEOREM RacesAreOnRecord == Spec => []RacesStayOnRecord
  <1> QED BY ApprovalIsOnRecord, ReleasesAreAnswers, ClearedOneWay, PTL DEF RacesStayOnRecord

\* SETTLED is final: no handler that read the settlement earlier moves it on.
THEOREM SettledStands == Spec => SettledIsFinal
  <1>1. Safe /\ [Next]_vars =>
          [\A s \in Settlements :
              settlement[s] # None /\ settlement[s].status = "SETTLED" =>
                  /\ settlement'[s].status = "SETTLED"
                  /\ settlement'[s].amount = settlement[s].amount
                  /\ settlement'[s].crewDeductionId = settlement[s].crewDeductionId]_vars
    BY SafeNext DEF Stands
  <1> QED BY <1>1, SpecSafe, PTL DEF Spec, SettledIsFinal

-----------------------------------------------------------------------------
(***************************************************************************)
(* Part 3, requests that do not overlap, under OneAtATime.  With one       *)
(* handler, nothing moves between a check and the write it allows: Ready   *)
(* says that what a handler has checked still holds, Facts what the tables *)
(* keep on the strength of it, and Deeds what a single step may do.  A     *)
(* crash only loses the statements that were still to come.                *)
(***************************************************************************)

OneAtATime == \A h, k \in Handlers : h = k

Open(a) == a \in Liquidations /\ Editable(a)
OnOpen(table, j) == IsLive(table, j.row) /\ table[j.row].liquidationId = j.acct /\ Open(j.acct)

InStatus(a, status) ==
    a \in Liquidations /\ liquidation[a].row = "live" /\ liquidation[a].status = status

Owing(s, status) == IsLive(settlement, s) /\ settlement[s].status = status

\* What the checks of a handler found, for the statement it executes next.
ReadyOnRows(j) ==
    /\ j.op \in {"refresh.compute", "refresh.write", "addLine", "issue", "request"} =>
          Open(j.acct)
    /\ j.op \in {"updateLine", "removeLine"} => OnOpen(liquidationLine, j)
    /\ j.op = "removeLine" => j.row \notin rebilled
    /\ j.op \in {"updateAllowance", "removeAllowance"} => OnOpen(allowance, j)
    /\ j.op = "updateAllowance" /\ j.then # None => Open(j.then)
    /\ j.op = "rebill" => IsLive(liquidationLine, j.row)

ReadyOnAsks(j) ==
    /\ j.op \in {"request", "updateRequest", "approveRequest"} => ShipmentOpen
    /\ j.op \in {"updateRequest", "approveRequest", "decline", "withdraw"} => Undecided(j.row)
    /\ j.op = "updateRequest" =>
          Open(IF j.acct = None THEN allowanceRequest[j.row].liquidationId ELSE j.acct)
    /\ j.op = "approveRequest" =>
          /\ Open(j.acct)
          /\ allowanceRequest[j.row].liquidationId = j.acct
          /\ allowanceRequest[j.row].amount = j.amt
    /\ j.op = "complete" => ReadyToComplete

ReadyOnStatus(j) ==
    /\ j.op \in {"submit.compute", "submit"} => InStatus(j.acct, "PENDING")
    /\ j.op \in {"return", "approve.compute", "approve"} => InStatus(j.acct, "SUBMITTED")
    /\ j.op = "approve" => j.amt = TotalAllowance(j.acct) /\ j.spent = TotalLiquidated(j.acct)
    /\ j.op = "reverse" =>
          /\ InStatus(j.acct, "APPROVED")
          /\ j.row \in LiveSettlement(j.acct)
          /\ MayUnwind(j.row)
          /\ j.debt = settlement[j.row].crewDeductionId
    /\ j.op = "removeAccount" => Open(j.acct) /\ Empty(j.acct)

ReadyOnDebts(j) ==
    /\ j.op \in {"record", "carry"} => Owing(j.row, "OUTSTANDING")
    /\ j.op = "carry" => j.amt = settlement[j.row].amount /\ j.amt > 0
    /\ j.op = "clear" =>
          Owing(j.row, "CARRIED_TO_PAYOUT") /\ Recovered(j.row) >= settlement[j.row].amount
    /\ j.op = "payout" => IsLive(crewDeduction, j.debt) /\ j.amt <= Remaining(j.debt)

Ready(j) == ReadyOnRows(j) /\ ReadyOnAsks(j) /\ ReadyOnStatus(j) /\ ReadyOnDebts(j)

-----------------------------------------------------------------------------
Books ==
    /\ \A a \in Liquidations :
          /\ liquidation[a].status = "APPROVED" => liquidation[a].row = "live"
          /\ liquidation[a].row = "absent" => liquidation[a].status = "PENDING"
    /\ OnlyApprovedIsOwed
    /\ FrozenFigureStands

\* A settlement and the debt it was carried into tell one story.
Told(s) ==
    LET d == settlement[s].crewDeductionId IN
    /\ settlement[s].status = "OUTSTANDING" => d = None /\ ~ settlement[s].disbursed
    /\ settlement[s].status = "CARRIED_TO_PAYOUT" => d # None
    /\ settlement[s].disbursed => settlement[s].live /\ settlement[s].amount # 0
    /\ d # None =>
          /\ crewDeduction[d] # None
          /\ settlement[s].amount > 0
          /\ crewDeduction[d].amount = settlement[s].amount
          /\ crewDeduction[d].live = settlement[s].live
          /\ settlement[s].status = "SETTLED" => crewDeduction[d].paid = settlement[s].amount

Within(d) ==
    /\ crewDeduction[d].due + crewDeduction[d].paid <= crewDeduction[d].amount
    /\ ~ crewDeduction[d].live => crewDeduction[d].due = 0 /\ crewDeduction[d].paid = 0

Debts ==
    /\ \A s \in Settlements : settlement[s] # None => Told(s)
    /\ \A s, t \in Settlements :
          /\ settlement[s] # None /\ settlement[t] # None
          /\ settlement[s].crewDeductionId # None
          /\ settlement[s].crewDeductionId = settlement[t].crewDeductionId
          => s = t
    /\ \A d \in Deductions : crewDeduction[d] # None =>
          /\ Within(d)
          /\ \E s \in Settlements : settlement[s] # None /\ settlement[s].crewDeductionId = d

OneRelease ==
    \A x, y \in Allowances :
        /\ allowance[x] # None /\ allowance[y] # None
        /\ allowance[x].ask # None /\ allowance[x].ask = allowance[y].ask
        => x = y

Facts == Books /\ Debts /\ OneRelease /\ NothingLeftHanging

Alone == Facts /\ \A h \in Handlers : Ready(job[h])

\* A decided ask stays as it is; a release that answers one is what it asked
\* for; the trip completes over approved accounts.
LeavesDecisions ==
    \A r \in Requests :
        allowanceRequest[r] # None /\ allowanceRequest[r].status # "PENDING" =>
            allowanceRequest'[r] = allowanceRequest[r]

ReleasesTheAsk ==
    \A x \in Allowances :
        allowance[x] = None /\ allowance'[x] # None =>
            LET r == allowance'[x].ask IN
            r # None =>
                /\ allowance'[x].amount = allowanceRequest'[r].amount
                /\ allowance'[x].liquidationId = allowanceRequest'[r].liquidationId

CompletesSquare ==
    shipment' # shipment =>
        \A a \in Liquidations :
            liquidation[a].row = "live" => liquidation[a].status = "APPROVED"

Deeds == LeavesDecisions /\ ReleasesTheAsk /\ CompletesSquare

KeepsAlone(h) == Facts' /\ Deeds /\ \E j : Ready(j)' /\ GoOn(h, j)

-----------------------------------------------------------------------------
(* What most steps leave alone. *)

LEMMA Unready ==
    ASSUME NEW j, j.op \in {"idle", "refresh"}
    PROVE  Ready(j) /\ Ready(j)'
  BY DEF Ready, ReadyOnRows, ReadyOnAsks, ReadyOnStatus, ReadyOnDebts

LEMMA DebtsUntouched ==
    ASSUME Debts, UNCHANGED <<settlement, crewDeduction>>
    PROVE  Debts'
  BY DEF Debts, Told, Within

LEMMA DeedsUntouched ==
    ASSUME OneRelease, UNCHANGED <<shipment, allowance, allowanceRequest>>
    PROVE  OneRelease' /\ Deeds
  BY DEF OneRelease, Deeds, LeavesDecisions, ReleasesTheAsk, CompletesSquare

\* Rows that are not on account a, before or after, do not count towards it.
LEMMA TotalsStand ==
    ASSUME NEW T, NEW t, NEW u, DOMAIN t = T, DOMAIN u = T, NEW a,
           \A id \in T : \/ u[id] = t[id]
                         \/ id \notin LiveOn(t, a) /\ id \notin LiveOn(u, a)
    PROVE  LiveOn(u, a) = LiveOn(t, a) /\ Total(u, LiveOn(u, a)) = Total(t, LiveOn(t, a))
  <1>1. LiveOn(u, a) = LiveOn(t, a)
    BY DEF LiveOn, IsLive
  <1>2. \A id \in LiveOn(t, a) : u[id] = t[id]
    BY DEF LiveOn
  <1>3. [id \in LiveOn(t, a) |-> u[id].amount] = [id \in LiveOn(t, a) |-> t[id].amount]
    BY <1>2
  <1> QED BY <1>1, <1>3 DEF Total

\* The rows that a step changes are on open accounts, before and after.
OnOpenOnly(t, u) ==
    \A id \in DOMAIN t :
        \/ u[id] = t[id]
        \/ /\ IsLive(t, id) => Open(t[id].liquidationId)
           /\ IsLive(u, id) => Open(u[id].liquidationId)

\* The asks that wait after a step waited before it, on the same account or
\* an open one.
AskedOnOpen ==
    \A r \in Requests :
        Undecided(r)' =>
            \/ Undecided(r) /\ allowanceRequest'[r].liquidationId = allowanceRequest[r].liquidationId
            \/ Open(allowanceRequest'[r].liquidationId)

LEMMA RowsOnOpen ==
    ASSUME TablesOK, TablesOK', Books, NothingStranded,
           UNCHANGED <<liquidation, settlement>>,
           OnOpenOnly(allowance, allowance'), OnOpenOnly(liquidationLine, liquidationLine'),
           AskedOnOpen
    PROVE  Books' /\ NothingStranded'
  <1>1. ASSUME NEW a \in Liquidations, ~ Open(a)
        PROVE  /\ LiveOn(allowance', a) = LiveOn(allowance, a)
               /\ Total(allowance', LiveOn(allowance', a)) = Total(allowance, LiveOn(allowance, a))
    <2>1. \A x \in Allowances :
            \/ allowance'[x] = allowance[x]
            \/ x \notin LiveOn(allowance, a) /\ x \notin LiveOn(allowance', a)
      BY <1>1 DEF OnOpenOnly, LiveOn, TablesOK
    <2> QED BY <2>1, TotalsStand DEF TablesOK
  <1>2. ASSUME NEW a \in Liquidations, ~ Open(a)
        PROVE  /\ LiveOn(liquidationLine', a) = LiveOn(liquidationLine, a)
               /\ Total(liquidationLine', LiveOn(liquidationLine', a))
                    = Total(liquidationLine, LiveOn(liquidationLine, a))
    <2>1. \A x \in Lines :
            \/ liquidationLine'[x] = liquidationLine[x]
            \/ x \notin LiveOn(liquidationLine, a) /\ x \notin LiveOn(liquidationLine', a)
      BY <1>2 DEF OnOpenOnly, LiveOn, TablesOK
    <2> QED BY <2>1, TotalsStand DEF TablesOK
  <1>3. \A a \in Liquidations : liquidation[a].status = "APPROVED" => ~ Open(a)
    BY DEF Open, Editable
  <1>4. \A a \in Liquidations : liquidation[a].row = "deleted" => ~ Open(a)
    BY DEF Open, Editable
  <1>5. FrozenFigureStands'
    BY <1>1, <1>2, <1>3
       DEF Books, FrozenFigureStands, TotalAllowance, TotalLiquidated, LiveSettlement
  <1>6. OnlyApprovedIsOwed'
    BY DEF Books, OnlyApprovedIsOwed, LiveSettlement
  <1>7. NothingStranded'
    <2> SUFFICES ASSUME NEW a \in Liquidations, liquidation[a].row = "deleted"
                 PROVE  /\ LiveOn(allowance', a) = {}
                        /\ LiveOn(liquidationLine', a) = {}
                        /\ \A r \in Requests :
                              Undecided(r)' => allowanceRequest'[r].liquidationId # a
      BY DEF NothingStranded
    <2>1. ~ Open(a)
      BY <1>4
    <2> QED BY <1>1, <1>2, <2>1 DEF NothingStranded, AskedOnOpen
  <1> QED BY <1>5, <1>6, <1>7 DEF Books

\* An account that is not APPROVED before or after may be written on.
LEMMA AccountsRestated ==
    ASSUME TablesOK, TablesOK', Books,
           UNCHANGED <<settlement, allowance, liquidationLine>>,
           \A a \in Liquidations :
               \/ liquidation'[a] = liquidation[a]
               \/ /\ liquidation[a].status # "APPROVED"
                  /\ liquidation'[a].status # "APPROVED"
                  /\ liquidation'[a].row # "absent"
    PROVE  Books'
  <1>1. \A a \in Liquidations :
            liquidation'[a].status = "APPROVED" =>
                liquidation'[a] = liquidation[a] /\ liquidation[a].row = "live"
    BY DEF Books
  <1>2. FrozenFigureStands'
    BY <1>1 DEF Books, FrozenFigureStands, TotalAllowance, TotalLiquidated, LiveSettlement
  <1>3. OnlyApprovedIsOwed'
    BY DEF Books, OnlyApprovedIsOwed, LiveSettlement
  <1> QED BY <1>1, <1>2, <1>3 DEF Books

-----------------------------------------------------------------------------
(* Reads: what a handler has checked holds when it goes on. *)

LEMMA TablesUntouched ==
    ASSUME Facts, UNCHANGED tables
    PROVE  Facts' /\ Deeds /\ \A j : Ready(j) => Ready(j)'
  <1>1. UNCHANGED <<shipment, liquidation, liquidationLine, allowance, allowanceRequest,
                    rebilled, settlement, crewDeduction>>
    BY DEF tables
  <1>2. Books'
    BY <1>1 DEF Facts, Books, OnlyApprovedIsOwed, FrozenFigureStands, TotalAllowance,
                TotalLiquidated, LiveSettlement
  <1>3. Debts' /\ OneRelease' /\ Deeds
    BY <1>1, DebtsUntouched, DeedsUntouched DEF Facts
  <1>4. NothingLeftHanging'
    BY <1>1 DEF Facts, NothingLeftHanging, NothingStranded, RebillNamesLiveClaim, NoAskStranded,
                Undecided
  <1>5. ASSUME NEW j, Ready(j) PROVE Ready(j)'
    <2>1. ReadyOnRows(j)' /\ ReadyOnAsks(j)'
      BY <1>1, <1>5 DEF Ready, ReadyOnRows, ReadyOnAsks, Open, Editable, OnOpen, ShipmentOpen,
                        Undecided, ReadyToComplete
    <2>2. ReadyOnStatus(j)'
      BY <1>1, <1>5 DEF Ready, ReadyOnStatus, InStatus, Open, Editable, TotalAllowance,
                        TotalLiquidated, LiveSettlement, MayUnwind, Empty
    <2>3. ReadyOnDebts(j)'
      BY <1>1, <1>5 DEF Ready, ReadyOnDebts, Owing, Recovered, Remaining
    <2> QED BY <2>1, <2>2, <2>3 DEF Ready
  <1> QED BY <1>2, <1>3, <1>4, <1>5 DEF Facts

LEMMA ReadsKeep ==
    ASSUME NEW h \in Handlers, Facts, UNCHANGED tables, NEW j, Ready(j), GoOn(h, j)
    PROVE  KeepsAlone(h)
  BY TablesUntouched DEF KeepsAlone

\* Every first statement of a handler, but for those that insert at once.
LEMMA LineReads ==
    ASSUME NEW h \in Handlers, TablesOK, Facts, LineStep(h),
           ~ (InsertLine(h) \/ PatchLine(h) \/ DropLine(h))
    PROVE  KeepsAlone(h)
  <1>1. ASSUME NEW a \in Liquidations, NEW n \in Amounts, AddLine(h, a, n)
        PROVE  Ready(Doing("addLine", a, None, n))
    BY <1>1 DEF AddLine, Doing, Running, Open, Ready, ReadyOnRows, ReadyOnAsks, ReadyOnStatus,
                ReadyOnDebts
  <1>2. ASSUME NEW l \in Lines, NEW n \in Amounts \cup {Unchanged}, UpdateLine(h, l, n)
        PROVE  Ready(Doing("updateLine", liquidationLine[l].liquidationId, l, n))
    <2>1. liquidationLine[l].liquidationId \in Liquidations
      BY <1>2 DEF UpdateLine, IsLive, TablesOK, LineRow
    <2> QED BY <1>2, <2>1 DEF UpdateLine, Doing, Running, Open, OnOpen, Ready, ReadyOnRows,
                              ReadyOnAsks, ReadyOnStatus, ReadyOnDebts
  <1>3. ASSUME NEW l \in Lines, RemoveLine(h, l)
        PROVE  Ready(Doing("removeLine", liquidationLine[l].liquidationId, l, 0))
    <2>1. liquidationLine[l].liquidationId \in Liquidations
      BY <1>3 DEF RemoveLine, IsLive, TablesOK, LineRow
    <2> QED BY <1>3, <2>1 DEF RemoveLine, Doing, Running, Open, OnOpen, Ready, ReadyOnRows,
                              ReadyOnAsks, ReadyOnStatus, ReadyOnDebts
  <1> QED BY <1>1, <1>2, <1>3, ReadsKeep DEF LineStep, AddLine, UpdateLine, RemoveLine

LEMMA AllowanceReads ==
    ASSUME NEW h \in Handlers, TablesOK, Facts, AllowanceStep(h),
           ~ (InsertAllowance(h) \/ PatchAllowance(h) \/ DropAllowance(h))
    PROVE  KeepsAlone(h)
  <1>1. ASSUME NEW a \in Liquidations, NEW n \in Amounts, Issue(h, a, n)
        PROVE  Ready(Doing("issue", a, None, n))
    BY <1>1 DEF Issue, MayRelease, AccountAccepts, Doing, Running, Open, Ready, ReadyOnRows,
                ReadyOnAsks, ReadyOnStatus, ReadyOnDebts
  <1>2. ASSUME NEW x \in Allowances, NEW to \in Liquidations \cup {None},
               NEW n \in Amounts \cup {Unchanged}, UpdateAllowance(h, x, to, n)
        PROVE  Ready(Running("updateAllowance", allowance[x].liquidationId, to, x, None, n))
    <2>1. allowance[x].liquidationId \in Liquidations
      BY <1>2 DEF UpdateAllowance, IsLive, TablesOK, AllowanceRow
    <2> QED BY <1>2, <2>1 DEF UpdateAllowance, AccountAccepts, Running, Open, OnOpen, Ready,
                              ReadyOnRows, ReadyOnAsks, ReadyOnStatus, ReadyOnDebts
  <1>3. ASSUME NEW x \in Allowances, RemoveAllowance(h, x)
        PROVE  Ready(Doing("removeAllowance", allowance[x].liquidationId, x, 0))
    <2>1. allowance[x].liquidationId \in Liquidations
      BY <1>3 DEF RemoveAllowance, IsLive, TablesOK, AllowanceRow
    <2> QED BY <1>3, <2>1 DEF RemoveAllowance, AccountAccepts, Doing, Running, Open, OnOpen,
                              Ready, ReadyOnRows, ReadyOnAsks, ReadyOnStatus, ReadyOnDebts
  <1> QED BY <1>1, <1>2, <1>3, ReadsKeep DEF AllowanceStep, Issue, UpdateAllowance, RemoveAllowance

LEMMA RequestReads ==
    ASSUME NEW h \in Handlers, TablesOK, Facts, RequestStep(h),
           ~ (InsertRequest(h) \/ PatchRequest(h) \/ ApproveRequest(h) \/ Decline(h) \/ Withdraw(h))
    PROVE  KeepsAlone(h)
  <1>1. ASSUME NEW a \in Liquidations, NEW n \in Amounts, CreateRequest(h, a, n)
        PROVE  Ready(Doing("request", a, None, n))
    BY <1>1 DEF CreateRequest, MayRelease, AccountAccepts, Doing, Running, Open, Ready,
                ReadyOnRows, ReadyOnAsks, ReadyOnStatus, ReadyOnDebts
  <1>2. ASSUME NEW r \in Requests, Undecided(r)
        PROVE  allowanceRequest[r].liquidationId \in Liquidations
    BY <1>2 DEF Undecided, IsLive, TablesOK, RequestRow
  <1>3. ASSUME NEW r \in Requests, NEW to \in Liquidations \cup {None},
               NEW n \in Amounts \cup {Unchanged}, UpdateRequest(h, r, to, n)
        PROVE  Ready(Doing("updateRequest", to, r, n))
    BY <1>2, <1>3 DEF UpdateRequest, MayRelease, AccountAccepts, Doing, Running, Open, Ready,
                      ReadyOnRows, ReadyOnAsks, ReadyOnStatus, ReadyOnDebts
  <1>4. ASSUME NEW r \in Requests, LoadApproveRequest(h, r)
        PROVE  Ready(Doing("approveRequest", allowanceRequest[r].liquidationId, r,
                           allowanceRequest[r].amount))
    BY <1>2, <1>4 DEF LoadApproveRequest, MayRelease, AccountAccepts, Doing, Running, Open, Ready,
                      ReadyOnRows, ReadyOnAsks, ReadyOnStatus, ReadyOnDebts
  <1>5. ASSUME NEW r \in Requests, Undecided(r)
        PROVE  Ready(Doing("decline", None, r, 0)) /\ Ready(Doing("withdraw", None, r, 0))
    BY <1>5 DEF Doing, Running, Ready, ReadyOnRows, ReadyOnAsks, ReadyOnStatus, ReadyOnDebts
  <1>6. Ready(Idle)
    BY Unready, Returns DEF Idle, Doing, Running
  <1> QED
    BY <1>1, <1>3, <1>4, <1>5, <1>6, ReadsKeep
       DEF RequestStep, CreateRequest, UpdateRequest, LoadApproveRequest, LoadDecline,
           LoadWithdraw, ApproveRequestRolledBack, Return

LEMMA RefreshReads ==
    ASSUME NEW h \in Handlers, TablesOK, Sound(job[h]), Ready(job[h]), Facts, RefreshStep(h),
           ~ RefreshWrite(h)
    PROVE  KeepsAlone(h)
  <1>1. ASSUME Refreshed(h)
        PROVE  \E j : Ready(j) /\ GoOn(h, j)
    BY <1>1, Unready DEF Refreshed, Return, Idle, Doing, Refreshing, Running
  <1>2. CASE RefreshStatus(h)
    <2>1. job[h].acct \in Liquidations
      BY <1>2 DEF RefreshStatus, At, Sound, OnAccount
    <2>2. ASSUME Editable(job[h].acct)
          PROVE  Ready(Running("refresh.compute", job[h].acct, job[h].then, None, None, 0))
      BY <2>1, <2>2 DEF Running, Open, Ready, ReadyOnRows, ReadyOnAsks, ReadyOnStatus,
                        ReadyOnDebts
    <2> QED BY <1>1, <1>2, <2>2, ReadsKeep DEF RefreshStatus
  <1>3. CASE RefreshCompute(h)
    <2>1. Open(job[h].acct)
      BY <1>3 DEF RefreshCompute, At, Ready, ReadyOnRows
    <2>2. Ready(Totalled(job[h], "refresh.write"))
      BY <2>1 DEF Totalled, Ready, ReadyOnRows, ReadyOnAsks, ReadyOnStatus, ReadyOnDebts
    <2> QED BY <1>3, <2>2, ReadsKeep DEF RefreshCompute
  <1> QED BY <1>2, <1>3 DEF RefreshStep

LEMMA StatusReads ==
    ASSUME NEW h \in Handlers, TablesOK, Sound(job[h]), Ready(job[h]), Recorded, Facts,
           StatusStep(h), ~ (Submit(h) \/ ReturnToCrew(h) \/ Approve(h) \/ Reverse(h))
    PROVE  KeepsAlone(h)
  <1>1. ASSUME NEW a \in Liquidations,
               LoadSubmit(h, a) \/ LoadReturn(h, a) \/ LoadApprove(h, a)
        PROVE  KeepsAlone(h)
    <2>1. ASSUME InStatus(a, "PENDING") PROVE Ready(Doing("submit.compute", a, None, 0))
      BY <2>1 DEF Doing, Running, Ready, ReadyOnRows, ReadyOnAsks, ReadyOnStatus, ReadyOnDebts
    <2>2. ASSUME InStatus(a, "SUBMITTED")
          PROVE  Ready(Doing("return", a, None, 0)) /\ Ready(Doing("approve.compute", a, None, 0))
      BY <2>2 DEF Doing, Running, Ready, ReadyOnRows, ReadyOnAsks, ReadyOnStatus, ReadyOnDebts
    <2> QED
      BY <1>1, <2>1, <2>2, ReadsKeep DEF LoadSubmit, LoadReturn, LoadApprove, Load, InStatus
  <1>2. ASSUME NEW a \in Liquidations, LoadReverse(h, a)
        PROVE  KeepsAlone(h)
    <2>1. InStatus(a, "APPROVED") /\ LiveSettlement(a) # {}
      BY <1>2 DEF LoadReverse, InStatus, Recorded, ApprovedOwes
    <2>2. PICK s \in LiveSettlement(a) :
            /\ MayUnwind(s)
            /\ GoOn(h, Running("reverse", a, None, s, settlement[s].crewDeductionId, 0))
      BY <1>2, <2>1 DEF LoadReverse
    <2>3. Ready(Running("reverse", a, None, s, settlement[s].crewDeductionId, 0))
      BY <2>1, <2>2
         DEF Running, Ready, ReadyOnRows, ReadyOnAsks, ReadyOnStatus, ReadyOnDebts
    <2> QED BY <1>2, <2>2, <2>3, ReadsKeep DEF LoadReverse
  <1>3. CASE ComputeSubmit(h)
    <2>1. InStatus(job[h].acct, "PENDING")
      BY <1>3 DEF ComputeSubmit, Compute, At, Ready, ReadyOnStatus
    <2>2. Ready(Totalled(job[h], "submit"))
      BY <2>1 DEF Totalled, Ready, ReadyOnRows, ReadyOnAsks, ReadyOnStatus, ReadyOnDebts
    <2> QED BY <1>3, <2>2, ReadsKeep DEF ComputeSubmit, Compute
  <1>4. CASE ComputeApprove(h)
    <2>1. InStatus(job[h].acct, "SUBMITTED")
      BY <1>4 DEF ComputeApprove, Compute, At, Ready, ReadyOnStatus
    <2>2. Ready(Totalled(job[h], "approve"))
      BY <2>1 DEF Totalled, Ready, ReadyOnRows, ReadyOnAsks, ReadyOnStatus, ReadyOnDebts
    <2> QED BY <1>4, <2>2, ReadsKeep DEF ComputeApprove, Compute
  <1>5. CASE ApproveRolledBack(h)
    BY <1>5, Unready, ReadsKeep DEF ApproveRolledBack, Return, Idle, Doing, Running
  <1> QED BY <1>1, <1>2, <1>3, <1>4, <1>5 DEF StatusStep

LEMMA RemoveReads ==
    ASSUME NEW h \in Handlers, Facts, NEW a \in Liquidations, LoadRemove(h, a)
    PROVE  KeepsAlone(h)
  <1>1. Ready(Doing("removeAccount", a, None, 0))
    BY DEF LoadRemove, Open, Doing, Running, Ready, ReadyOnRows, ReadyOnAsks, ReadyOnStatus,
           ReadyOnDebts
  <1> QED BY <1>1, ReadsKeep DEF LoadRemove

LEMMA SettlementReads ==
    ASSUME NEW h \in Handlers, TablesOK, Facts, SettlementStep(h),
           ~ (Record(h) \/ CarryToPayout(h) \/ Clear(h))
    PROVE  KeepsAlone(h)
  <1>1. \A a \in Liquidations : \A s \in LiveSettlement(a) : IsLive(settlement, s)
    BY DEF LiveSettlement, LiveOn
  <1>2. ASSUME NEW s, Owing(s, "OUTSTANDING")
        PROVE  /\ Ready(Doing("record", None, s, 0))
               /\ settlement[s].amount > 0 =>
                     Ready(Doing("carry", None, s, settlement[s].amount))
    BY <1>2 DEF Doing, Running, Ready, ReadyOnRows, ReadyOnAsks, ReadyOnStatus, ReadyOnDebts
  <1>3. ASSUME NEW s, Owing(s, "CARRIED_TO_PAYOUT"), Recovered(s) >= settlement[s].amount
        PROVE  Ready(Doing("clear", None, s, 0))
    BY <1>3 DEF Doing, Running, Ready, ReadyOnRows, ReadyOnAsks, ReadyOnStatus, ReadyOnDebts
  <1>4. CASE CarryRolledBack(h)
    BY <1>4, Unready, ReadsKeep DEF CarryRolledBack, Return, Idle, Doing, Running
  <1>5. ASSUME NEW a \in Liquidations, LoadRecord(h, a) PROVE KeepsAlone(h)
    BY <1>1, <1>2, <1>5, ReadsKeep DEF LoadRecord, Owing
  <1>6. ASSUME NEW a \in Liquidations, LoadCarry(h, a) PROVE KeepsAlone(h)
    BY <1>1, <1>2, <1>6, ReadsKeep DEF LoadCarry, Owing
  <1>7. CASE LoadClear(h)
    BY <1>3, <1>7, ReadsKeep DEF LoadClear, Owing
  <1> QED BY <1>4, <1>5, <1>6, <1>7 DEF SettlementStep

LEMMA SliceReads ==
    ASSUME NEW h \in Handlers, Facts, NEW d \in Deductions, NEW n \in Amounts, TakeSlice(h, d, n)
    PROVE  KeepsAlone(h)
  <1>1. Ready(Running("payout", None, None, None, d, n))
    BY DEF TakeSlice, Running, Ready, ReadyOnRows, ReadyOnAsks, ReadyOnStatus, ReadyOnDebts
  <1> QED BY <1>1, ReadsKeep DEF TakeSlice

LEMMA ShipmentReads ==
    ASSUME NEW h \in Handlers, Facts, ShipmentStep(h),
           ~ (Rebill(h) \/ Unrebill(h) \/ Complete(h))
    PROVE  KeepsAlone(h)
  <1>1. ASSUME NEW l \in Lines, LoadRebill(h, l) PROVE Ready(Doing("rebill", None, l, 0))
    BY <1>1 DEF LoadRebill, Doing, Running, Ready, ReadyOnRows, ReadyOnAsks, ReadyOnStatus,
                ReadyOnDebts
  <1>2. \A l \in Lines : Ready(Doing("unrebill", None, l, 0))
    BY DEF Doing, Running, Ready, ReadyOnRows, ReadyOnAsks, ReadyOnStatus, ReadyOnDebts
  <1>3. ASSUME LoadComplete(h) PROVE Ready(Doing("complete", None, None, 0))
    BY <1>3 DEF LoadComplete, Doing, Running, Ready, ReadyOnRows, ReadyOnAsks, ReadyOnStatus,
                ReadyOnDebts
  <1> QED
    BY <1>1, <1>2, <1>3, ReadsKeep DEF ShipmentStep, LoadRebill, LoadUnrebill, LoadComplete

-----------------------------------------------------------------------------
(* Writes to accounts. *)

LEMMA LeftByAccounts ==
    ASSUME TablesOK, NothingLeftHanging,
           UNCHANGED <<shipment, liquidationLine, allowance, allowanceRequest, rebilled>>,
           \A a \in Liquidations :
               liquidation'[a].row = "deleted" => liquidation[a].row = "deleted" \/ Empty(a)
    PROVE  NothingLeftHanging'
  <1>1. ASSUME NEW a \in Liquidations, Empty(a)
        PROVE  \A r \in Requests : Undecided(r) => allowanceRequest[r].liquidationId # a
    BY <1>1 DEF Empty, LiveOn, Undecided, TablesOK
  <1>2. NothingStranded'
    BY <1>1 DEF NothingLeftHanging, NothingStranded, Empty, Undecided
  <1> QED BY <1>2 DEF NothingLeftHanging, RebillNamesLiveClaim, NoAskStranded, Undecided

LEMMA Finishes ==
    ASSUME NEW h \in Handlers, Return(h), Facts', Deeds
    PROVE  KeepsAlone(h)
  BY Unready DEF KeepsAlone, Return, Idle, Doing, Running

\* The statements that write one account which was not APPROVED and does not
\* become it.
LEMMA AccountWrites ==
    ASSUME NEW h \in Handlers, TablesOK, TablesOK', Facts, Sound(job[h]), Ready(job[h]),
           \/ RefreshWrite(h) \/ Submit(h) \/ ReturnToCrew(h) \/ Remove(h)
           \/ \E a \in Liquidations : OpenAccount(h, a)
    PROVE  Facts' /\ Deeds
  <1>1. UNCHANGED <<shipment, liquidationLine, allowance, allowanceRequest, rebilled,
                    settlement, crewDeduction>>
    BY DEF RefreshWrite, Submit, ReturnToCrew, Remove, OpenAccount
  <1> DEFINE Rewritten(a) ==
        /\ liquidation[a].status # "APPROVED"
        /\ liquidation'[a].status # "APPROVED"
        /\ liquidation'[a].row # "absent"
        /\ liquidation'[a].row = "deleted" => liquidation[a].row = "deleted" \/ Empty(a)
  <1>2. \A a \in Liquidations : liquidation'[a] = liquidation[a] \/ Rewritten(a)
    <2>1. CASE RefreshWrite(h)
      <3>1. Open(job[h].acct)
        BY <2>1 DEF RefreshWrite, At, Ready, ReadyOnRows
      <3> QED BY <2>1, <3>1 DEF RefreshWrite, TablesOK, LiquidationRow, Open, Editable
    <2>2. CASE Submit(h)
      <3>1. InStatus(job[h].acct, "PENDING")
        BY <2>2 DEF Submit, At, Ready, ReadyOnStatus
      <3> QED BY <2>2, <3>1 DEF Submit, TablesOK, LiquidationRow, InStatus
    <2>3. CASE ReturnToCrew(h)
      <3>1. InStatus(job[h].acct, "SUBMITTED")
        BY <2>3 DEF ReturnToCrew, At, Ready, ReadyOnStatus
      <3> QED BY <2>3, <3>1 DEF ReturnToCrew, TablesOK, LiquidationRow, InStatus
    <2>4. CASE Remove(h)
      <3>1. Open(job[h].acct) /\ Empty(job[h].acct)
        BY <2>4 DEF Remove, At, Ready, ReadyOnStatus
      <3> QED BY <2>4, <3>1 DEF Remove, TablesOK, LiquidationRow, Open, Editable
    <2>5. ASSUME NEW a \in Liquidations, OpenAccount(h, a)
          PROVE  \A b \in Liquidations : liquidation'[b] = liquidation[b] \/ Rewritten(b)
      <3>1. liquidation[a].status # "APPROVED"
        BY <2>5 DEF OpenAccount, Facts, Books
      <3> QED BY <2>5, <3>1 DEF OpenAccount, TablesOK, LiquidationRow
    <2> QED BY <2>1, <2>2, <2>3, <2>4, <2>5
  <1>3. Books'
    BY <1>1, <1>2, AccountsRestated DEF Facts
  <1>4. Debts' /\ OneRelease' /\ Deeds
    BY <1>1, DebtsUntouched, DeedsUntouched DEF Facts
  <1>5. NothingLeftHanging'
    BY <1>1, <1>2, LeftByAccounts DEF Facts
  <1> QED BY <1>3, <1>4, <1>5 DEF Facts

\* What an approval of account a writes: its settlement s, of the variance.
Approves(a, s) ==
    /\ liquidation[a].row = "live" /\ liquidation[a].status = "SUBMITTED"
    /\ LiveSettlement(a) = {}
    /\ settlement[s] = None
    /\ \A t \in Settlements : t # s => settlement'[t] = settlement[t]
    /\ settlement'[s] # None
    /\ settlement'[s].liquidationId = a
    /\ settlement'[s].amount = TotalAllowance(a) - TotalLiquidated(a)
    /\ settlement'[s].live
    /\ settlement'[s].status =
          IF TotalAllowance(a) - TotalLiquidated(a) = 0 THEN "SETTLED" ELSE "OUTSTANDING"
    /\ ~ settlement'[s].disbursed
    /\ settlement'[s].crewDeductionId = None
    /\ \A b \in Liquidations : b # a => liquidation'[b] = liquidation[b]
    /\ liquidation'[a].row = "live"
    /\ liquidation'[a].status = "APPROVED"
    /\ liquidation'[a].totalAllowance = TotalAllowance(a)
    /\ liquidation'[a].totalLiquidated = TotalLiquidated(a)
    /\ LiveOn(settlement', a) = {s}
    /\ \A b \in Liquidations : b # a => LiveOn(settlement', b) = LiveOn(settlement, b)

LEMMA ApproveWrites ==
    ASSUME NEW h \in Handlers, TablesOK, TablesOK', Sound(job[h]), Ready(job[h]), Approve(h)
    PROVE  \E a \in Liquidations, s \in Settlements : Approves(a, s)
  <1>1. PICK a : a = job[h].acct
    OBVIOUS
  <1>2. /\ a \in Liquidations /\ liquidation[a].row = "live" /\ LiveSettlement(a) = {}
        /\ liquidation[a].status = "SUBMITTED"
        /\ job[h].amt = TotalAllowance(a) /\ job[h].spent = TotalLiquidated(a)
        /\ job[h].amt \in Nat /\ job[h].spent \in Nat
    BY <1>1 DEF Approve, MaySettle, At, Ready, ReadyOnStatus, InStatus, Sound, WithTotals
  <1>3. PICK s \in Settlements :
          /\ settlement[s] = None
          /\ settlement' = [settlement EXCEPT ![s] =
                [liquidationId |-> a, amount |-> job[h].amt - job[h].spent, live |-> TRUE,
                 status |-> IF job[h].amt - job[h].spent = 0 THEN "SETTLED" ELSE "OUTSTANDING",
                 disbursed |-> FALSE, crewDeductionId |-> None]]
    BY <1>1 DEF Approve, Unused, TablesOK
  <1>4. /\ \A t \in Settlements : t # s => settlement'[t] = settlement[t]
        /\ settlement'[s] # None
        /\ settlement'[s].liquidationId = a
        /\ settlement'[s].amount = TotalAllowance(a) - TotalLiquidated(a)
        /\ settlement'[s].live
        /\ settlement'[s].status =
              IF TotalAllowance(a) - TotalLiquidated(a) = 0 THEN "SETTLED" ELSE "OUTSTANDING"
        /\ ~ settlement'[s].disbursed
        /\ settlement'[s].crewDeductionId = None
    <2>1. settlement'[s] # None
      <3>1. settlement'[s] = [liquidationId |-> a, amount |-> job[h].amt - job[h].spent,
                              live |-> TRUE,
                              status |-> IF job[h].amt - job[h].spent = 0 THEN "SETTLED"
                                         ELSE "OUTSTANDING",
                              disbursed |-> FALSE, crewDeductionId |-> None]
        BY <1>3 DEF TablesOK
      <3>2. settlement'[s] \in SettlementRow
        BY <1>2, <3>1 DEF SettlementRow, SettlementStatus
      <3> QED BY <3>2, NoneIsNoRow
    <2> QED BY <1>2, <1>3, <2>1 DEF TablesOK
  <1>5. /\ \A b \in Liquidations : b # a => liquidation'[b] = liquidation[b]
        /\ liquidation'[a].row = "live"
        /\ liquidation'[a].status = "APPROVED"
        /\ liquidation'[a].totalAllowance = TotalAllowance(a)
        /\ liquidation'[a].totalLiquidated = TotalLiquidated(a)
    BY <1>1, <1>2 DEF Approve, TablesOK, LiquidationRow
  <1>6. /\ LiveOn(settlement', a) = {s}
        /\ \A b \in Liquidations : b # a => LiveOn(settlement', b) = LiveOn(settlement, b)
    <2>1. DOMAIN settlement = Settlements /\ DOMAIN settlement' = Settlements
      BY DEF TablesOK
    <2>2. \A t \in Settlements : t \in LiveOn(settlement', a) <=> t = s
      BY <1>2, <1>4, <2>1 DEF LiveOn, IsLive, LiveSettlement
    <2>3. \A b \in Liquidations : b # a =>
            \A t \in Settlements : t \in LiveOn(settlement', b) <=> t \in LiveOn(settlement, b)
      BY <1>3, <1>4, <2>1 DEF LiveOn, IsLive
    <2> QED BY <2>1, <2>2, <2>3 DEF LiveOn
  <1> QED BY <1>2, <1>3, <1>4, <1>5, <1>6 DEF Approves

LEMMA ApproveKeeps ==
    ASSUME NEW h \in Handlers, TablesOK, TablesOK', Facts, Sound(job[h]), Ready(job[h]), Approve(h)
    PROVE  Facts' /\ Deeds
  <1>1. UNCHANGED <<shipment, liquidationLine, allowance, allowanceRequest, rebilled,
                    crewDeduction>>
    BY DEF Approve
  <1>2. PICK a \in Liquidations, s \in Settlements : Approves(a, s)
    BY ApproveWrites
  <1>3. Books'
    <2>1. \A b \in Liquidations : b # a => \A t \in LiveOn(settlement', b) :
             t # s /\ settlement'[t] = settlement[t]
      BY <1>2 DEF Approves, LiveOn, IsLive, TablesOK
    <2>2. FrozenFigureStands'
      <3> SUFFICES ASSUME NEW b \in Liquidations, liquidation'[b].row = "live",
                          liquidation'[b].status = "APPROVED"
                   PROVE  /\ liquidation'[b].totalAllowance = TotalAllowance(b)
                          /\ liquidation'[b].totalLiquidated = TotalLiquidated(b)
                          /\ \A t \in LiveOn(settlement', b) :
                                settlement'[t].amount = TotalAllowance(b) - TotalLiquidated(b)
        BY <1>1 DEF FrozenFigureStands, TotalAllowance, TotalLiquidated, LiveSettlement
      <3>1. CASE b = a
        BY <1>2, <3>1 DEF Approves
      <3>2. CASE b # a
        BY <1>2, <2>1, <3>2 DEF Approves, Facts, Books, FrozenFigureStands, LiveSettlement
      <3> QED BY <3>1, <3>2
    <2>3. OnlyApprovedIsOwed'
      BY <1>2 DEF Approves, Facts, Books, OnlyApprovedIsOwed, LiveSettlement
    <2> QED BY <1>2, <2>2, <2>3 DEF Approves, Facts, Books
  <1>4. Debts'
    <2>1. \A t \in Settlements : settlement'[t] # None => Told(t)'
      <3> SUFFICES ASSUME NEW t \in Settlements, settlement'[t] # None PROVE Told(t)'
        OBVIOUS
      <3>1. CASE t = s
        BY <1>2, <3>1 DEF Approves, Told
      <3>2. CASE t # s
        BY <1>1, <1>2, <3>2 DEF Approves, Told, Facts, Debts
      <3> QED BY <3>1, <3>2
    <2> QED BY <1>1, <1>2, <2>1 DEF Approves, Facts, Debts, Within
  <1>5. NothingLeftHanging'
    BY <1>1, <1>2, LeftByAccounts DEF Approves, Facts
  <1>6. OneRelease' /\ Deeds
    BY <1>1, DeedsUntouched DEF Facts
  <1> QED BY <1>3, <1>4, <1>5, <1>6 DEF Facts

\* What a reversal of account a writes: its settlement s is deleted.
Reverses(a, s) ==
    /\ InStatus(a, "APPROVED") /\ s \in LiveSettlement(a) /\ MayUnwind(s)
    /\ IsLive(settlement, s) /\ settlement[s].liquidationId = a
    /\ \A t \in Settlements : t # s => settlement'[t] = settlement[t]
    /\ settlement'[s] # None /\ settlement'[s].live = FALSE
    /\ settlement'[s].liquidationId = a
    /\ settlement'[s].amount = settlement[s].amount
    /\ settlement'[s].status = settlement[s].status
    /\ settlement'[s].disbursed = settlement[s].disbursed
    /\ settlement'[s].crewDeductionId = settlement[s].crewDeductionId
    /\ \A b \in Liquidations : b # a => liquidation'[b] = liquidation[b]
    /\ liquidation'[a].row = "live"
    /\ liquidation'[a].status = "SUBMITTED"
    /\ LiveOn(settlement', a) = {}
    /\ \A b \in Liquidations : b # a => LiveOn(settlement', b) = LiveOn(settlement, b)

LEMMA ReverseWrites ==
    ASSUME NEW h \in Handlers, TablesOK, TablesOK', Recorded, Sound(job[h]), Ready(job[h]),
           Reverse(h)
    PROVE  \E a \in Liquidations, s \in Settlements :
               /\ Reverses(a, s)
               /\ crewDeduction' = Gone(crewDeduction, settlement[s].crewDeductionId)
  <1>1. PICK a, s, d : a = job[h].acct /\ s = job[h].row /\ d = job[h].debt
    OBVIOUS
  <1>2. /\ InStatus(a, "APPROVED") /\ s \in LiveSettlement(a) /\ MayUnwind(s)
        /\ d = settlement[s].crewDeductionId
    BY <1>1 DEF Reverse, At, Ready, ReadyOnStatus
  <1>3. /\ a \in Liquidations /\ s \in Settlements /\ IsLive(settlement, s)
        /\ settlement[s].liquidationId = a /\ settlement[s] \in SettlementRow
        /\ d \in Deductions \cup {None}
    BY <1>2 DEF InStatus, LiveSettlement, LiveOn, IsLive, TablesOK, SettlementRow
  <1>4. /\ \A t \in Settlements : t # s => settlement'[t] = settlement[t]
        /\ settlement'[s] = [settlement[s] EXCEPT !.live = FALSE]
    BY <1>1, <1>3, NoneIsNoId DEF Reverse, Gone, SoftDelete, TablesOK
  <1>5. settlement'[s] # None /\ settlement'[s].live = FALSE
    <2>1. settlement'[s] \in SettlementRow
      BY <1>3, <1>4 DEF SettlementRow
    <2> QED BY <1>3, <1>4, <2>1, NoneIsNoRow DEF SettlementRow
  <1>6. /\ settlement'[s].liquidationId = a
        /\ settlement'[s].amount = settlement[s].amount
        /\ settlement'[s].status = settlement[s].status
        /\ settlement'[s].disbursed = settlement[s].disbursed
        /\ settlement'[s].crewDeductionId = d
    BY <1>2, <1>3, <1>4 DEF SettlementRow
  <1>7. /\ \A b \in Liquidations : b # a => liquidation'[b] = liquidation[b]
        /\ liquidation'[a].row = "live"
        /\ liquidation'[a].status = "SUBMITTED"
    BY <1>1, <1>2, <1>3 DEF Reverse, InStatus, TablesOK, LiquidationRow
  <1>8. LiveOn(settlement', a) = {}
         /\ \A b \in Liquidations : b # a => LiveOn(settlement', b) = LiveOn(settlement, b)
    <2>1. DOMAIN settlement = Settlements /\ DOMAIN settlement' = Settlements
      BY DEF TablesOK
    <2>2. \A t \in Settlements : t \notin LiveOn(settlement', a)
      BY <1>3, <1>4, <1>5, <2>1 DEF LiveOn, IsLive, Recorded, OneLive
    <2>3. \A b \in Liquidations : b # a =>
            \A t \in Settlements : t \in LiveOn(settlement', b) <=> t \in LiveOn(settlement, b)
      BY <1>3, <1>4, <1>5, <1>6, <2>1 DEF LiveOn, IsLive
    <2> QED BY <2>1, <2>2, <2>3 DEF LiveOn
  <1>9. crewDeduction' = Gone(crewDeduction, settlement[s].crewDeductionId)
    BY <1>1, <1>2 DEF Reverse
  <1> QED BY <1>2, <1>3, <1>4, <1>5, <1>6, <1>7, <1>8, <1>9 DEF Reverses

LEMMA ReverseKeeps ==
    ASSUME NEW h \in Handlers, TablesOK, TablesOK', Recorded, Facts, Sound(job[h]), Ready(job[h]),
           Reverse(h)
    PROVE  Facts' /\ Deeds
  <1>1. UNCHANGED <<shipment, liquidationLine, allowance, allowanceRequest, rebilled>>
    BY DEF Reverse
  <1>2. PICK a \in Liquidations, s \in Settlements :
          /\ Reverses(a, s)
          /\ crewDeduction' = Gone(crewDeduction, settlement[s].crewDeductionId)
    BY ReverseWrites
  <1>3. PICK d : d = settlement[s].crewDeductionId
    OBVIOUS
  <1>4. /\ MayUnwind(s) /\ IsLive(settlement, s) /\ settlement[s] \in SettlementRow
        /\ d \in Deductions \cup {None}
    BY <1>2, <1>3 DEF Reverses, IsLive, TablesOK, SettlementRow
  <1>5. Told(s)
    BY <1>4 DEF Facts, Debts, IsLive
  <1>6. /\ \A t \in Settlements : t # s => settlement'[t] = settlement[t]
        /\ settlement'[s] # None /\ settlement'[s].live = FALSE
        /\ settlement'[s].amount = settlement[s].amount
        /\ settlement'[s].status = settlement[s].status
        /\ settlement'[s].disbursed = settlement[s].disbursed
        /\ settlement'[s].crewDeductionId = d
    BY <1>2, <1>3 DEF Reverses
  <1>7. /\ \A b \in Liquidations : b # a => liquidation'[b] = liquidation[b]
        /\ liquidation'[a].row = "live"
        /\ liquidation'[a].status = "SUBMITTED"
    BY <1>2 DEF Reverses
  <1>8. LiveOn(settlement', a) = {}
        /\ \A b \in Liquidations : b # a => LiveOn(settlement', b) = LiveOn(settlement, b)
    BY <1>2 DEF Reverses
  <1>9. Books'
    <2>1. \A b \in Liquidations : b # a => \A t \in LiveOn(settlement', b) :
             settlement'[t] = settlement[t]
      BY <1>4, <1>6, <1>8 DEF LiveOn, IsLive, TablesOK
    <2>2. FrozenFigureStands'
      <3> SUFFICES ASSUME NEW b \in Liquidations, liquidation'[b].row = "live",
                          liquidation'[b].status = "APPROVED"
                   PROVE  /\ liquidation'[b].totalAllowance = TotalAllowance(b)
                          /\ liquidation'[b].totalLiquidated = TotalLiquidated(b)
                          /\ \A t \in LiveOn(settlement', b) :
                                settlement'[t].amount = TotalAllowance(b) - TotalLiquidated(b)
        BY <1>1 DEF FrozenFigureStands, TotalAllowance, TotalLiquidated, LiveSettlement
      <3>1. b # a
        BY <1>7
      <3> QED BY <1>7, <1>8, <2>1, <3>1 DEF Facts, Books, FrozenFigureStands, LiveSettlement
    <2>3. OnlyApprovedIsOwed'
      BY <1>7, <1>8 DEF Facts, Books, OnlyApprovedIsOwed, LiveSettlement
    <2> QED BY <1>7, <2>2, <2>3 DEF Facts, Books
  <1>10. ~ settlement[s].disbursed
    BY <1>3, <1>4, <1>5 DEF Told, Recorded, HandedOverIsSettled, IsLive, MayUnwind
  <1>11. \A t \in Settlements :
            /\ settlement'[t] # None <=> settlement[t] # None
            /\ settlement'[t].crewDeductionId = settlement[t].crewDeductionId
    BY <1>3, <1>4, <1>6 DEF IsLive
  <1>12. CASE d = None
    <2>1. crewDeduction' = crewDeduction
      BY <1>2, <1>3, <1>12 DEF Gone
    <2>2. \A t \in Settlements : settlement'[t] # None => Told(t)'
      <3> SUFFICES ASSUME NEW t \in Settlements, settlement'[t] # None PROVE Told(t)'
        OBVIOUS
      <3>1. CASE t = s
        BY <1>3, <1>5, <1>6, <1>10, <1>12, <3>1 DEF Told
      <3>2. CASE t # s
        BY <1>6, <2>1, <3>2 DEF Told, Facts, Debts
      <3> QED BY <3>1, <3>2
    <2>3. \A e \in Deductions : crewDeduction'[e] # None =>
            /\ Within(e)'
            /\ \E t \in Settlements : settlement'[t] # None /\ settlement'[t].crewDeductionId = e
      BY <1>11, <2>1 DEF Facts, Debts, Within
    <2>4. Debts'
      BY <1>11, <2>2, <2>3 DEF Facts, Debts
    <2> QED BY <1>1, <1>7, <1>9, <2>4, LeftByAccounts, DeedsUntouched DEF Facts
  <1>13. CASE d # None
    <2>1. /\ d \in Deductions /\ crewDeduction[d] # None /\ crewDeduction[d].live
          /\ crewDeduction[d] \in DeductionRow
          /\ crewDeduction[d].due = 0 /\ crewDeduction[d].paid = 0
      BY <1>3, <1>4, <1>5, <1>13 DEF Told, IsLive, MayUnwind, TablesOK
    <2>2. /\ \A e \in Deductions : e # d => crewDeduction'[e] = crewDeduction[e]
          /\ crewDeduction'[d] = [crewDeduction[d] EXCEPT !.live = FALSE]
      BY <1>2, <1>3, <1>13, <2>1 DEF Gone, SoftDelete, IsLive, TablesOK
    <2>3. crewDeduction'[d] # None /\ crewDeduction'[d].live = FALSE
      <3>1. crewDeduction'[d] \in DeductionRow
        BY <2>1, <2>2 DEF DeductionRow
      <3> QED BY <2>1, <2>2, <3>1, NoneIsNoRow DEF DeductionRow
    <2>4. /\ crewDeduction'[d].amount = crewDeduction[d].amount
          /\ crewDeduction'[d].due = crewDeduction[d].due
          /\ crewDeduction'[d].paid = crewDeduction[d].paid
      BY <2>1, <2>2 DEF DeductionRow
    <2>5. \A t \in Settlements : t # s /\ settlement[t] # None => settlement[t].crewDeductionId # d
      BY <1>3, <1>4, <1>13 DEF Facts, Debts, IsLive
    <2>6. \A t \in Settlements : settlement'[t] # None => Told(t)'
      <3> SUFFICES ASSUME NEW t \in Settlements, settlement'[t] # None PROVE Told(t)'
        OBVIOUS
      <3>1. CASE t = s
        <4>1. crewDeduction[d].amount = settlement[s].amount /\ settlement[s].amount > 0
          BY <1>3, <1>5, <1>13 DEF Told
        <4>2. settlement[s].status = "SETTLED" => crewDeduction[d].paid = settlement[s].amount
          BY <1>3, <1>5, <1>13 DEF Told
        <4>3. settlement[s].status # "OUTSTANDING"
          BY <1>3, <1>5, <1>13 DEF Told
        <4> QED
          BY <1>6, <1>10, <1>13, <2>3, <2>4, <3>1, <4>1, <4>2, <4>3 DEF Told
      <3>2. CASE t # s
        <4>1. Told(t) /\ settlement'[t] = settlement[t] /\ settlement[t].crewDeductionId # d
          BY <1>6, <2>5, <3>2 DEF Facts, Debts
        <4>2. settlement[t].crewDeductionId \in Deductions \cup {None}
          BY <1>6, <3>2 DEF TablesOK, SettlementRow
        <4> QED BY <2>2, <4>1, <4>2 DEF Told
      <3> QED BY <3>1, <3>2
    <2>7. \A e \in Deductions : crewDeduction'[e] # None =>
            /\ Within(e)'
            /\ \E t \in Settlements : settlement'[t] # None /\ settlement'[t].crewDeductionId = e
      <3> SUFFICES ASSUME NEW e \in Deductions, crewDeduction'[e] # None
                   PROVE  /\ Within(e)'
                          /\ \E t \in Settlements :
                                settlement'[t] # None /\ settlement'[t].crewDeductionId = e
        OBVIOUS
      <3>1. CASE e = d
        BY <1>4, <1>6, <2>1, <2>3, <2>4, <3>1 DEF Within, Facts, Debts
      <3>2. CASE e # d
        <4>1. crewDeduction'[e] = crewDeduction[e]
          BY <2>2, <3>2
        <4>2. PICK t \in Settlements : settlement[t] # None /\ settlement[t].crewDeductionId = e
          BY <4>1 DEF Facts, Debts
        <4>3. t # s
          BY <1>3, <3>2, <4>2
        <4> QED BY <1>6, <4>1, <4>2, <4>3 DEF Within, Facts, Debts
      <3> QED BY <3>1, <3>2
    <2>8. \A t, u \in Settlements :
            /\ settlement'[t] # None /\ settlement'[u] # None
            /\ settlement'[t].crewDeductionId # None
            /\ settlement'[t].crewDeductionId = settlement'[u].crewDeductionId
            => t = u
      BY <1>11 DEF Facts, Debts
    <2>9. Debts'
      BY <2>6, <2>7, <2>8 DEF Debts
    <2> QED BY <1>1, <1>7, <1>9, <2>9, LeftByAccounts, DeedsUntouched DEF Facts
  <1> QED BY <1>12, <1>13

-----------------------------------------------------------------------------
(* Writes to balances and debts. *)

\* A settlement that stays where it is, at its amount, disturbs no account.
LEMMA BooksByBalances ==
    ASSUME TablesOK, TablesOK', Books, UNCHANGED <<liquidation, liquidationLine, allowance>>,
           \A s \in Settlements :
               /\ settlement'[s] # None <=> settlement[s] # None
               /\ settlement'[s].live = settlement[s].live
               /\ settlement'[s].liquidationId = settlement[s].liquidationId
               /\ settlement'[s].amount = settlement[s].amount
    PROVE  Books'
  <1>1. \A a \in Liquidations : LiveOn(settlement', a) = LiveOn(settlement, a)
    BY DEF LiveOn, IsLive, TablesOK
  <1>2. \A a \in Liquidations : LiveOn(settlement, a) \subseteq Settlements
    BY DEF LiveOn, TablesOK
  <1>3. FrozenFigureStands'
    BY <1>1, <1>2
       DEF Books, FrozenFigureStands, TotalAllowance, TotalLiquidated, LiveSettlement
  <1>4. OnlyApprovedIsOwed'
    BY <1>1 DEF Books, OnlyApprovedIsOwed, LiveSettlement
  <1> QED BY <1>3, <1>4 DEF Books

LEMMA RecordKeeps ==
    ASSUME NEW h \in Handlers, TablesOK, TablesOK', Facts, Sound(job[h]), Ready(job[h]), Record(h)
    PROVE  Facts' /\ Deeds
  <1>1. UNCHANGED <<shipment, liquidation, liquidationLine, allowance, allowanceRequest,
                    rebilled, crewDeduction>>
    BY DEF Record
  <1>2. PICK s : s = job[h].row
    OBVIOUS
  <1>3. /\ s \in Settlements /\ settlement[s] \in SettlementRow /\ settlement[s] # None
        /\ settlement[s].live /\ Told(s)
    BY <1>2 DEF Record, At, Sound, OnRow, Ready, ReadyOnDebts, Owing, IsLive, TablesOK, Facts,
                Debts
  <1>4. CASE ~ MayRecord(s)
    <2>1. settlement' = settlement
      BY <1>2, <1>4 DEF Record
    <2> QED BY <1>1, <2>1, BooksByBalances, DebtsUntouched, DeedsUntouched, LeftByAccounts
            DEF Facts
  <1>5. CASE MayRecord(s)
    <2>1. /\ \A t \in Settlements : t # s => settlement'[t] = settlement[t]
          /\ settlement'[s] = [settlement[s] EXCEPT !.status = "SETTLED", !.disbursed = TRUE]
      BY <1>2, <1>3, <1>5 DEF Record, TablesOK
    <2>2. settlement'[s] # None
      <3>1. settlement'[s] \in SettlementRow
        BY <1>3, <2>1 DEF SettlementRow, SettlementStatus
      <3> QED BY <3>1, NoneIsNoRow
    <2>3. /\ settlement'[s].liquidationId = settlement[s].liquidationId
          /\ settlement'[s].amount = settlement[s].amount
          /\ settlement'[s].live = settlement[s].live
          /\ settlement'[s].status = "SETTLED"
          /\ settlement'[s].crewDeductionId = settlement[s].crewDeductionId
      BY <1>3, <2>1 DEF SettlementRow
    <2>4. Books'
      BY <1>1, <1>3, <2>1, <2>2, <2>3, BooksByBalances DEF Facts
    <2>5. \A t \in Settlements : settlement'[t] # None => Told(t)'
      <3> SUFFICES ASSUME NEW t \in Settlements, settlement'[t] # None PROVE Told(t)'
        OBVIOUS
      <3>1. CASE t = s
        BY <1>3, <1>5, <2>3, <3>1 DEF Told, MayRecord
      <3>2. CASE t # s
        BY <1>1, <2>1, <3>2 DEF Told, Facts, Debts
      <3> QED BY <3>1, <3>2
    <2>6. \A t \in Settlements :
            /\ settlement'[t] # None <=> settlement[t] # None
            /\ settlement'[t].crewDeductionId = settlement[t].crewDeductionId
      BY <1>3, <2>1, <2>2, <2>3
    <2>7. Debts'
      BY <1>1, <2>5, <2>6 DEF Facts, Debts, Within
    <2> QED BY <1>1, <2>4, <2>7, LeftByAccounts, DeedsUntouched DEF Facts
  <1> QED BY <1>4, <1>5

LEMMA ClearKeeps ==
    ASSUME NEW h \in Handlers, TablesOK, TablesOK', Facts, Sound(job[h]), Ready(job[h]), Clear(h)
    PROVE  Facts' /\ Deeds
  <1>1. UNCHANGED <<shipment, liquidation, liquidationLine, allowance, allowanceRequest,
                    rebilled, crewDeduction>>
    BY DEF Clear
  <1>2. PICK s : s = job[h].row
    OBVIOUS
  <1>3. /\ s \in Settlements /\ settlement[s] \in SettlementRow /\ settlement[s] # None
        /\ settlement[s].status = "CARRIED_TO_PAYOUT" /\ Told(s)
        /\ Recovered(s) >= settlement[s].amount
    BY <1>2 DEF Clear, At, Sound, OnRow, Ready, ReadyOnDebts, Owing, TablesOK, Facts, Debts
  <1>4. PICK d : d = settlement[s].crewDeductionId
    OBVIOUS
  <1>5. crewDeduction[d].paid = settlement[s].amount
    <2>1. d # None /\ d \in Deductions /\ crewDeduction[d] \in DeductionRow
      BY <1>3, <1>4 DEF Told, SettlementRow, TablesOK
    <2>2. /\ crewDeduction[d].amount = settlement[s].amount
          /\ crewDeduction[d].due + crewDeduction[d].paid <= crewDeduction[d].amount
      BY <1>3, <1>4, <2>1 DEF Told, Facts, Debts, Within
    <2>3. crewDeduction[d].paid >= settlement[s].amount
      BY <1>3, <1>4, <2>1 DEF Recovered
    <2> QED BY <1>3, <2>1, <2>2, <2>3 DEF DeductionRow, SettlementRow
  <1>6. /\ \A t \in Settlements : t # s => settlement'[t] = settlement[t]
        /\ settlement'[s] = [settlement[s] EXCEPT !.status = "SETTLED"]
    BY <1>2, <1>3 DEF Clear, TablesOK
  <1>7. settlement'[s] # None
    <2>1. settlement'[s] \in SettlementRow
      BY <1>3, <1>6 DEF SettlementRow, SettlementStatus
    <2> QED BY <2>1, NoneIsNoRow
  <1>8. /\ settlement'[s].liquidationId = settlement[s].liquidationId
        /\ settlement'[s].amount = settlement[s].amount
        /\ settlement'[s].live = settlement[s].live
        /\ settlement'[s].status = "SETTLED"
        /\ settlement'[s].disbursed = settlement[s].disbursed
        /\ settlement'[s].crewDeductionId = settlement[s].crewDeductionId
    BY <1>3, <1>6 DEF SettlementRow
  <1>9. Books'
    BY <1>1, <1>3, <1>6, <1>7, <1>8, BooksByBalances DEF Facts
  <1>10. \A t \in Settlements : settlement'[t] # None => Told(t)'
    <2> SUFFICES ASSUME NEW t \in Settlements, settlement'[t] # None PROVE Told(t)'
      OBVIOUS
    <2>1. CASE t = s
      BY <1>1, <1>3, <1>4, <1>5, <1>8, <2>1 DEF Told
    <2>2. CASE t # s
      BY <1>1, <1>6, <2>2 DEF Told, Facts, Debts
    <2> QED BY <2>1, <2>2
  <1>11. \A t \in Settlements :
            /\ settlement'[t] # None <=> settlement[t] # None
            /\ settlement'[t].crewDeductionId = settlement[t].crewDeductionId
    BY <1>3, <1>6, <1>7, <1>8
  <1>12. Debts'
    BY <1>1, <1>10, <1>11 DEF Facts, Debts, Within
  <1> QED BY <1>1, <1>9, <1>12, LeftByAccounts, DeedsUntouched DEF Facts

LEMMA CarryKeeps ==
    ASSUME NEW h \in Handlers, TablesOK, TablesOK', Facts, Sound(job[h]), Ready(job[h]),
           CarryToPayout(h)
    PROVE  Facts' /\ Deeds
  <1>1. UNCHANGED <<shipment, liquidation, liquidationLine, allowance, allowanceRequest, rebilled>>
    BY DEF CarryToPayout
  <1>2. PICK s : s = job[h].row
    OBVIOUS
  <1>3. /\ s \in Settlements /\ settlement[s] \in SettlementRow /\ settlement[s] # None
        /\ settlement[s].live = TRUE /\ settlement[s].status = "OUTSTANDING" /\ Told(s)
        /\ job[h].amt = settlement[s].amount /\ settlement[s].amount > 0
    BY <1>2 DEF CarryToPayout, At, Sound, OnRow, Ready, ReadyOnDebts, Owing, IsLive, TablesOK,
                Facts, Debts, SettlementRow
  <1>4. PICK d \in Deductions :
          /\ crewDeduction[d] = None
          /\ crewDeduction' = [crewDeduction EXCEPT ![d] =
                [amount |-> settlement[s].amount, live |-> TRUE, due |-> 0, paid |-> 0]]
          /\ settlement' = [settlement EXCEPT ![s].status = "CARRIED_TO_PAYOUT",
                                              ![s].crewDeductionId = d]
    BY <1>2, <1>3 DEF CarryToPayout, Unused, TablesOK
  <1>5. /\ \A t \in Settlements : t # s => settlement'[t] = settlement[t]
        /\ settlement'[s] = [settlement[s] EXCEPT !.status = "CARRIED_TO_PAYOUT",
                                                  !.crewDeductionId = d]
    BY <1>3, <1>4 DEF TablesOK
  <1>6. settlement'[s] # None /\ d # None
    <2>1. settlement'[s] \in SettlementRow
      BY <1>3, <1>5 DEF SettlementRow, SettlementStatus
    <2> QED BY <2>1, NoneIsNoRow, NoneIsNoId
  <1>7. /\ settlement'[s].liquidationId = settlement[s].liquidationId
        /\ settlement'[s].amount = settlement[s].amount
        /\ settlement'[s].live = settlement[s].live
        /\ settlement'[s].status = "CARRIED_TO_PAYOUT"
        /\ settlement'[s].disbursed = settlement[s].disbursed
        /\ settlement'[s].crewDeductionId = d
    BY <1>3, <1>5 DEF SettlementRow
  <1>8. /\ \A e \in Deductions : e # d => crewDeduction'[e] = crewDeduction[e]
        /\ crewDeduction'[d] # None
        /\ crewDeduction'[d].amount = settlement[s].amount
        /\ crewDeduction'[d].live = TRUE
        /\ crewDeduction'[d].due = 0 /\ crewDeduction'[d].paid = 0
    <2>1. crewDeduction'[d] =
            [amount |-> settlement[s].amount, live |-> TRUE, due |-> 0, paid |-> 0]
      BY <1>4 DEF TablesOK
    <2>2. crewDeduction'[d] \in DeductionRow
      BY <1>3, <2>1 DEF DeductionRow, SettlementRow
    <2> QED BY <1>4, <2>1, <2>2, NoneIsNoRow DEF TablesOK
  <1>9. Books'
    BY <1>1, <1>3, <1>5, <1>6, <1>7, BooksByBalances DEF Facts
  <1>10. \A t \in Settlements : t # s /\ settlement[t] # None =>
            /\ settlement[t].crewDeductionId # d
            /\ settlement[t].crewDeductionId \in Deductions \cup {None}
    BY <1>4, <1>6 DEF Facts, Debts, Told, TablesOK, SettlementRow
  <1>11. settlement[s].crewDeductionId = None /\ ~ settlement[s].disbursed
    BY <1>3 DEF Told
  <1>12. \A t \in Settlements : settlement'[t] # None => Told(t)'
    <2> SUFFICES ASSUME NEW t \in Settlements, settlement'[t] # None PROVE Told(t)'
      OBVIOUS
    <2>1. CASE t = s
      BY <1>3, <1>6, <1>7, <1>8, <1>11, <2>1 DEF Told
    <2>2. CASE t # s
      BY <1>5, <1>8, <1>10, <2>2 DEF Told, Facts, Debts
    <2> QED BY <2>1, <2>2
  <1>13. \A t, u \in Settlements :
            /\ settlement'[t] # None /\ settlement'[u] # None
            /\ settlement'[t].crewDeductionId # None
            /\ settlement'[t].crewDeductionId = settlement'[u].crewDeductionId
            => t = u
    <2> SUFFICES ASSUME NEW t \in Settlements, NEW u \in Settlements,
                        settlement'[t] # None, settlement'[u] # None,
                        settlement'[t].crewDeductionId # None,
                        settlement'[t].crewDeductionId = settlement'[u].crewDeductionId,
                        t # u
                 PROVE  FALSE
      OBVIOUS
    <2>1. CASE t = s
      BY <1>5, <1>7, <1>10, <2>1
    <2>2. CASE u = s
      BY <1>5, <1>7, <1>10, <2>2
    <2>3. CASE t # s /\ u # s
      BY <1>5, <2>3 DEF Facts, Debts
    <2> QED BY <2>1, <2>2, <2>3
  <1>14. \A e \in Deductions : crewDeduction'[e] # None =>
            /\ Within(e)'
            /\ \E t \in Settlements : settlement'[t] # None /\ settlement'[t].crewDeductionId = e
    <2> SUFFICES ASSUME NEW e \in Deductions, crewDeduction'[e] # None
                 PROVE  /\ Within(e)'
                        /\ \E t \in Settlements :
                              settlement'[t] # None /\ settlement'[t].crewDeductionId = e
      OBVIOUS
    <2>1. CASE e = d
      BY <1>3, <1>6, <1>7, <1>8, <2>1 DEF Within, SettlementRow
    <2>2. CASE e # d
      <3>1. crewDeduction'[e] = crewDeduction[e]
        BY <1>8, <2>2
      <3>2. PICK t \in Settlements : settlement[t] # None /\ settlement[t].crewDeductionId = e
        BY <3>1 DEF Facts, Debts
      <3>3. t # s
        BY <1>11, <3>2, NoneIsNoId
      <3> QED BY <1>5, <3>1, <3>2, <3>3 DEF Within, Facts, Debts
    <2> QED BY <2>1, <2>2
  <1>15. Debts'
    BY <1>12, <1>13, <1>14 DEF Debts
  <1> QED BY <1>1, <1>9, <1>15, LeftByAccounts, DeedsUntouched DEF Facts

\* The slices taken of debt d come to n, and what PAID runs recovered to m.
Slices(d, n, m) ==
    /\ \A e \in Deductions : e # d => crewDeduction'[e] = crewDeduction[e]
    /\ crewDeduction'[d] \in DeductionRow
    /\ crewDeduction'[d].amount = crewDeduction[d].amount
    /\ crewDeduction'[d].live = crewDeduction[d].live
    /\ crewDeduction'[d].due = n
    /\ crewDeduction'[d].paid = m

\* They stay within what is left of a live debt.
LEMMA SlicesKeepDebts ==
    ASSUME TablesOK, Facts, UNCHANGED settlement,
           NEW d \in Deductions, NEW n \in Nat, NEW m \in Nat,
           crewDeduction[d] # None, crewDeduction[d].live = TRUE,
           n + m <= crewDeduction[d].amount,
           m = crewDeduction[d].paid \/ crewDeduction[d].due > 0,
           Slices(d, n, m)
    PROVE  Debts'
  <1>1. crewDeduction[d] \in DeductionRow /\ Within(d)
    BY DEF TablesOK, Facts, Debts
  <1>2. \A e \in Deductions : e # d => crewDeduction'[e] = crewDeduction[e]
    BY DEF Slices
  <1>3. crewDeduction'[d] # None
    BY NoneIsNoRow DEF Slices
  <1>4. /\ crewDeduction'[d].amount = crewDeduction[d].amount
        /\ crewDeduction'[d].live = TRUE
        /\ crewDeduction'[d].due = n
        /\ crewDeduction'[d].paid = m
    BY DEF Slices
  <1>5. \A t \in Settlements : settlement'[t] # None => Told(t)'
    <2> SUFFICES ASSUME NEW t \in Settlements, settlement[t] # None PROVE Told(t)'
      OBVIOUS
    <2>1. Told(t) /\ settlement[t] \in SettlementRow
      BY DEF Facts, Debts, TablesOK
    <2>2. CASE settlement[t].crewDeductionId = d
      <3>1. settlement[t].status = "SETTLED" => m = settlement[t].amount
        BY <1>1, <2>1, <2>2, NoneIsNoId DEF Told, DeductionRow, SettlementRow, Within
      <3> QED BY <1>3, <1>4, <2>1, <2>2, <3>1 DEF Told
    <2>3. CASE settlement[t].crewDeductionId # d
      BY <1>2, <2>1, <2>3 DEF Told, SettlementRow
    <2> QED BY <2>2, <2>3
  <1>6. \A e \in Deductions : crewDeduction'[e] # None =>
          /\ Within(e)'
          /\ \E t \in Settlements : settlement'[t] # None /\ settlement'[t].crewDeductionId = e
    <2> SUFFICES ASSUME NEW e \in Deductions, crewDeduction'[e] # None
                 PROVE  /\ Within(e)'
                        /\ \E t \in Settlements :
                              settlement'[t] # None /\ settlement'[t].crewDeductionId = e
      OBVIOUS
    <2>1. CASE e = d
      BY <1>4, <2>1 DEF Facts, Debts, Within
    <2>2. CASE e # d
      BY <1>2, <2>2 DEF Facts, Debts, Within
    <2> QED BY <2>1, <2>2
  <1> QED BY <1>5, <1>6 DEF Facts, Debts

\* Committing, paying and dropping slices are all of that kind.
LEMMA PayoutSlices ==
    ASSUME NEW h \in Handlers, TablesOK, TablesOK', Facts, Sound(job[h]), Ready(job[h]),
           CommitSlice(h) \/ \E d \in Deductions : PaySlices(h, d) \/ DropSlices(h, d)
    PROVE  \E d \in Deductions, n, m \in Nat :
              /\ crewDeduction[d] # None /\ crewDeduction[d].live = TRUE
              /\ n + m <= crewDeduction[d].amount
              /\ Slices(d, n, m)
              /\ \/ m = crewDeduction[d].paid
                 \/ m > 0 /\ crewDeduction[d].due > 0
  <1>1. CASE CommitSlice(h)
    <2>1. PICK d : d = job[h].debt
      OBVIOUS
    <2>2. /\ d \in Deductions /\ crewDeduction[d] # None /\ crewDeduction[d].live = TRUE
          /\ crewDeduction[d] \in DeductionRow
          /\ job[h].amt <= crewDeduction[d].amount - crewDeduction[d].due - crewDeduction[d].paid
          /\ job[h].amt \in Nat
      BY <1>1, <2>1, AmountsArePositive
         DEF CommitSlice, At, Sound, OnRow, WithAmount, Ready, ReadyOnDebts, IsLive, Remaining,
             TablesOK, DeductionRow
    <2>3. PICK n, m : n = crewDeduction[d].due + job[h].amt /\ m = crewDeduction[d].paid
      OBVIOUS
    <2>4. n \in Nat /\ m \in Nat /\ n + m <= crewDeduction[d].amount
      BY <2>2, <2>3 DEF DeductionRow
    <2>5. Slices(d, n, m)
      <3>1. /\ \A e \in Deductions : e # d => crewDeduction'[e] = crewDeduction[e]
            /\ crewDeduction'[d] = [crewDeduction[d] EXCEPT !.due = n]
        BY <1>1, <2>1, <2>2, <2>3 DEF CommitSlice, TablesOK
      <3> QED BY <2>2, <2>3, <2>4, <3>1 DEF Slices, DeductionRow
    <2> QED BY <2>2, <2>3, <2>4, <2>5
  <1>2. ASSUME NEW d \in Deductions, PaySlices(h, d) \/ DropSlices(h, d)
        PROVE  \E m \in Nat :
                  /\ crewDeduction[d] # None /\ crewDeduction[d].live = TRUE
                  /\ 0 + m <= crewDeduction[d].amount
                  /\ Slices(d, 0, m)
                  /\ \/ m = crewDeduction[d].paid
                     \/ m > 0 /\ crewDeduction[d].due > 0
    <2>1. /\ crewDeduction[d] \in DeductionRow /\ crewDeduction[d] # None
          /\ crewDeduction[d].due > 0
      BY <1>2 DEF PaySlices, DropSlices, TablesOK
    <2>2. /\ crewDeduction[d].live = TRUE
          /\ crewDeduction[d].due + crewDeduction[d].paid <= crewDeduction[d].amount
      BY <2>1 DEF Facts, Debts, Within, DeductionRow
    <2>3. PICK m : m = IF PaySlices(h, d) THEN crewDeduction[d].paid + crewDeduction[d].due
                       ELSE crewDeduction[d].paid
      OBVIOUS
    <2>4. m \in Nat /\ 0 + m <= crewDeduction[d].amount
      BY <2>1, <2>2, <2>3 DEF DeductionRow
    <2>5. Slices(d, 0, m)
      <3>1. CASE PaySlices(h, d)
        <4>1. m = crewDeduction[d].paid + crewDeduction[d].due
          BY <2>3, <3>1
        <4>2. PICK row : row = [crewDeduction[d] EXCEPT !.paid = m]
          OBVIOUS
        <4>3. /\ row \in DeductionRow /\ row.amount = crewDeduction[d].amount
              /\ row.live = crewDeduction[d].live /\ row.paid = m
          BY <2>1, <2>4, <4>2 DEF DeductionRow
        <4>4. \A f, g, n, u :
                 g = [f EXCEPT ![d].paid = @ + n, ![d].due = u] /\ d \in DOMAIN f =>
                    /\ \A e \in DOMAIN f : e # d => g[e] = f[e]
                    /\ \E k : k = f[d].paid + n
                               /\ \E r : r = [f[d] EXCEPT !.paid = k] /\ g[d] = [r EXCEPT !.due = u]
          OBVIOUS
        <4>5. /\ \A e \in Deductions : e # d => crewDeduction'[e] = crewDeduction[e]
              /\ crewDeduction'[d] = [row EXCEPT !.due = 0]
          BY <3>1, <4>1, <4>2, <4>4 DEF PaySlices, TablesOK
        <4> QED BY <4>3, <4>5 DEF Slices, DeductionRow
      <3>2. CASE DropSlices(h, d) /\ ~ PaySlices(h, d)
        <4>1. m = crewDeduction[d].paid
          BY <2>3, <3>2
        <4>2. /\ \A e \in Deductions : e # d => crewDeduction'[e] = crewDeduction[e]
              /\ crewDeduction'[d] = [crewDeduction[d] EXCEPT !.due = 0]
          BY <3>2 DEF DropSlices, TablesOK
        <4> QED BY <2>1, <2>4, <4>1, <4>2 DEF Slices, DeductionRow
      <3> QED BY <1>2, <3>1, <3>2
    <2>6. m = crewDeduction[d].paid \/ m > 0
      BY <2>1, <2>3 DEF DeductionRow
    <2> QED BY <2>1, <2>2, <2>4, <2>5, <2>6
  <1> QED BY <1>1, <1>2

LEMMA PayoutKeepsDebts ==
    ASSUME NEW h \in Handlers, TablesOK, TablesOK', Facts, Sound(job[h]), Ready(job[h]),
           CommitSlice(h) \/ \E d \in Deductions : PaySlices(h, d) \/ DropSlices(h, d)
    PROVE  Facts' /\ Deeds
  <1>1. UNCHANGED <<shipment, liquidation, liquidationLine, allowance, allowanceRequest,
                    rebilled, settlement>>
    BY DEF CommitSlice, PaySlices, DropSlices
  <1>2. Debts'
    BY <1>1, PayoutSlices, SlicesKeepDebts
  <1>3. Books'
    BY <1>1, BooksByBalances DEF Facts
  <1> QED BY <1>1, <1>2, <1>3, LeftByAccounts, DeedsUntouched DEF Facts

-----------------------------------------------------------------------------
(* Writes to claims and releases. *)

LEMMA LineWrites ==
    ASSUME TablesOK, TablesOK', Facts,
           UNCHANGED <<shipment, liquidation, allowance, allowanceRequest, rebilled, settlement,
                       crewDeduction>>,
           NEW l \in Lines, \A k \in Lines : k # l => liquidationLine'[k] = liquidationLine[k],
           IsLive(liquidationLine, l) => Open(liquidationLine[l].liquidationId),
           IsLive(liquidationLine', l) => Open(liquidationLine'[l].liquidationId),
           l \in rebilled => IsLive(liquidationLine', l)
    PROVE  Facts' /\ Deeds
  <1>1. OnOpenOnly(liquidationLine, liquidationLine') /\ OnOpenOnly(allowance, allowance')
    BY DEF OnOpenOnly, TablesOK
  <1>2. AskedOnOpen
    BY DEF AskedOnOpen, Undecided
  <1>3. Books' /\ NothingStranded'
    BY <1>1, <1>2, RowsOnOpen DEF Facts, NothingLeftHanging
  <1>4. RebillNamesLiveClaim'
    BY DEF Facts, NothingLeftHanging, RebillNamesLiveClaim, IsLive, TablesOK
  <1>5. NoAskStranded'
    BY DEF Facts, NothingLeftHanging, NoAskStranded, Undecided
  <1> QED
    BY <1>3, <1>4, <1>5, DebtsUntouched, DeedsUntouched DEF Facts, NothingLeftHanging

LEMMA LinesKeep ==
    ASSUME NEW h \in Handlers, TablesOK, TablesOK', Facts, Sound(job[h]), Ready(job[h]),
           InsertLine(h) \/ PatchLine(h) \/ DropLine(h)
    PROVE  KeepsAlone(h)
  <1>1. UNCHANGED <<shipment, liquidation, allowance, allowanceRequest, rebilled, settlement,
                    crewDeduction>>
    BY DEF InsertLine, PatchLine, DropLine
  <1>2. Facts' /\ Deeds
    <2>1. CASE InsertLine(h)
      <3>1. PICK l \in Lines :
              /\ liquidationLine[l] = None
              /\ liquidationLine' = [liquidationLine EXCEPT ![l] =
                    [liquidationId |-> job[h].acct, amount |-> job[h].amt, live |-> TRUE]]
        BY <2>1 DEF InsertLine, Unused, TablesOK
      <3>2. Open(job[h].acct)
        BY <2>1 DEF InsertLine, At, Ready, ReadyOnRows
      <3>3. /\ \A k \in Lines : k # l => liquidationLine'[k] = liquidationLine[k]
            /\ liquidationLine'[l].liquidationId = job[h].acct
        BY <3>1 DEF TablesOK
      <3>4. l \notin rebilled
        BY <3>1 DEF Facts, NothingLeftHanging, RebillNamesLiveClaim, IsLive
      <3>5. ~ IsLive(liquidationLine, l)
        BY <3>1 DEF IsLive
      <3> QED BY <1>1, <3>2, <3>3, <3>4, <3>5, LineWrites
    <2>2. CASE PatchLine(h)
      <3>1. PICK l, row : l = job[h].row /\ row = Patched(liquidationLine[l], None, job[h].amt)
        OBVIOUS
      <3>2. /\ l \in Lines /\ liquidationLine[l] \in LineRow /\ liquidationLine[l].live = TRUE
            /\ Open(liquidationLine[l].liquidationId)
            /\ job[h].amt \in Amounts \cup {Unchanged}
        BY <2>2, <3>1
           DEF PatchLine, At, Sound, OnRow, WithAmount, Ready, ReadyOnRows, OnOpen, IsLive,
               TablesOK, LineRow
      <3>3. /\ row \in LineRow /\ row.live = TRUE
            /\ row.liquidationId = liquidationLine[l].liquidationId
        <4>1. row \in LineRow
          BY <3>1, <3>2, PatchingKeepsTypes
        <4> QED BY <3>1, <3>2, <4>1 DEF Patched, LineRow
      <3>4. liquidationLine' = [liquidationLine EXCEPT ![l] = row]
        BY <2>2, <3>1 DEF PatchLine
      <3>5. /\ \A k \in Lines : k # l => liquidationLine'[k] = liquidationLine[k]
            /\ liquidationLine'[l] = row
        BY <3>2, <3>4 DEF TablesOK
      <3>6. IsLive(liquidationLine', l) /\ Open(liquidationLine'[l].liquidationId)
        BY <3>2, <3>3, <3>5, NoneIsNoRow DEF IsLive
      <3> QED BY <1>1, <3>2, <3>5, <3>6, LineWrites
    <2>3. CASE DropLine(h)
      <3>1. PICK l : l = job[h].row
        OBVIOUS
      <3>2. /\ l \in Lines /\ l \notin rebilled /\ IsLive(liquidationLine, l)
            /\ Open(liquidationLine[l].liquidationId)
        BY <2>3, <3>1 DEF DropLine, At, Sound, OnRow, Ready, ReadyOnRows, OnOpen
      <3>3. liquidationLine' = [liquidationLine EXCEPT ![l].live = FALSE]
        BY <2>3, <3>1, <3>2 DEF DropLine, SoftDelete
      <3>4. /\ \A k \in Lines : k # l => liquidationLine'[k] = liquidationLine[k]
            /\ ~ IsLive(liquidationLine', l)
        BY <3>2, <3>3 DEF IsLive, TablesOK, LineRow
      <3> QED BY <1>1, <3>2, <3>4, LineWrites
    <2> QED BY <2>1, <2>2, <2>3
  <1>3. \E j : Ready(j)' /\ GoOn(h, j)
    BY Unready DEF InsertLine, PatchLine, DropLine, Refreshing, Running
  <1> QED BY <1>2, <1>3 DEF KeepsAlone

LEMMA AllowanceWrites ==
    ASSUME TablesOK, TablesOK', Facts,
           UNCHANGED <<shipment, liquidation, liquidationLine, allowanceRequest, rebilled,
                       settlement, crewDeduction>>,
           NEW x \in Allowances, \A y \in Allowances : y # x => allowance'[y] = allowance[y],
           IsLive(allowance, x) => Open(allowance[x].liquidationId),
           IsLive(allowance', x) => Open(allowance'[x].liquidationId),
           \/ allowance'[x].ask = None
           \/ allowance[x] # None /\ allowance'[x].ask = allowance[x].ask
    PROVE  Facts' /\ Deeds
  <1>1. OnOpenOnly(liquidationLine, liquidationLine') /\ OnOpenOnly(allowance, allowance')
    BY DEF OnOpenOnly, TablesOK
  <1>2. AskedOnOpen
    BY DEF AskedOnOpen, Undecided
  <1>3. Books' /\ NothingStranded'
    BY <1>1, <1>2, RowsOnOpen DEF Facts, NothingLeftHanging
  <1>4. RebillNamesLiveClaim' /\ NoAskStranded'
    BY DEF Facts, NothingLeftHanging, RebillNamesLiveClaim, NoAskStranded, Undecided
  <1>5. OneRelease'
    <2> SUFFICES ASSUME NEW y \in Allowances, NEW z \in Allowances,
                        allowance'[y] # None, allowance'[z] # None, allowance'[y].ask # None,
                        allowance'[y].ask = allowance'[z].ask
                 PROVE  y = z
      BY DEF OneRelease
    <2>1. \A w \in {y, z} : allowance[w] # None /\ allowance'[w].ask = allowance[w].ask
      OBVIOUS
    <2> QED BY <2>1 DEF Facts, OneRelease
  <1>6. Deeds
    BY DEF Deeds, LeavesDecisions, ReleasesTheAsk, CompletesSquare
  <1> QED BY <1>3, <1>4, <1>5, <1>6, DebtsUntouched DEF Facts, NothingLeftHanging

LEMMA AllowancesKeep ==
    ASSUME NEW h \in Handlers, TablesOK, TablesOK', Facts, Sound(job[h]), Ready(job[h]),
           InsertAllowance(h) \/ PatchAllowance(h) \/ DropAllowance(h)
    PROVE  KeepsAlone(h)
  <1>1. UNCHANGED <<shipment, liquidation, liquidationLine, allowanceRequest, rebilled,
                    settlement, crewDeduction>>
    BY DEF InsertAllowance, PatchAllowance, DropAllowance
  <1>2. Facts' /\ Deeds
    <2>1. CASE InsertAllowance(h)
      <3>1. PICK x \in Allowances :
              /\ allowance[x] = None
              /\ allowance' = [allowance EXCEPT ![x] = Release(job[h].acct, job[h].amt, None)]
        BY <2>1 DEF InsertAllowance, Unused, TablesOK
      <3>2. Open(job[h].acct)
        BY <2>1 DEF InsertAllowance, At, Ready, ReadyOnRows
      <3>3. /\ \A y \in Allowances : y # x => allowance'[y] = allowance[y]
            /\ allowance'[x].liquidationId = job[h].acct
            /\ allowance'[x].ask = None
        BY <3>1 DEF TablesOK, Release
      <3>4. ~ IsLive(allowance, x)
        BY <3>1 DEF IsLive
      <3> QED BY <1>1, <3>2, <3>3, <3>4, AllowanceWrites
    <2>2. CASE PatchAllowance(h)
      <3>1. PICK x, to, row : /\ x = job[h].row /\ to = job[h].then
                              /\ row = Patched(allowance[x], to, job[h].amt)
        OBVIOUS
      <3>2. /\ x \in Allowances /\ allowance[x] \in AllowanceRow /\ allowance[x] # None
            /\ Open(allowance[x].liquidationId)
            /\ to # None => Open(to)
            /\ to \in Liquidations \cup {None}
            /\ job[h].amt \in Amounts \cup {Unchanged}
        BY <2>2, <3>1
           DEF PatchAllowance, At, Sound, OnRow, WithAmount, Job, Ready, ReadyOnRows, OnOpen,
               TablesOK
      <3>3. /\ row \in AllowanceRow /\ row.ask = allowance[x].ask
            /\ row.liquidationId = IF to = None THEN allowance[x].liquidationId ELSE to
        <4>1. row \in AllowanceRow
          BY <3>1, <3>2, PatchingKeepsTypes
        <4> QED BY <3>1, <3>2, <4>1 DEF Patched, AllowanceRow
      <3>4. allowance' = [allowance EXCEPT ![x] = row]
        BY <2>2, <3>1 DEF PatchAllowance
      <3>5. /\ \A y \in Allowances : y # x => allowance'[y] = allowance[y]
            /\ allowance'[x] = row
        BY <3>2, <3>4 DEF TablesOK
      <3>6. Open(allowance'[x].liquidationId)
        BY <3>2, <3>3, <3>5
      <3> QED BY <1>1, <3>2, <3>3, <3>5, <3>6, AllowanceWrites
    <2>3. CASE DropAllowance(h)
      <3>1. PICK x : x = job[h].row
        OBVIOUS
      <3>2. /\ x \in Allowances /\ IsLive(allowance, x) /\ Open(allowance[x].liquidationId)
        BY <2>3, <3>1 DEF DropAllowance, At, Sound, OnRow, Ready, ReadyOnRows, OnOpen
      <3>3. allowance' = [allowance EXCEPT ![x].live = FALSE]
        BY <2>3, <3>1, <3>2 DEF DropAllowance, SoftDelete
      <3>4. /\ \A y \in Allowances : y # x => allowance'[y] = allowance[y]
            /\ ~ IsLive(allowance', x)
            /\ allowance'[x].ask = allowance[x].ask /\ allowance[x] # None
        BY <3>2, <3>3 DEF IsLive, TablesOK, AllowanceRow
      <3> QED BY <1>1, <3>2, <3>4, AllowanceWrites
    <2> QED BY <2>1, <2>2, <2>3
  <1>3. \E j : Ready(j)' /\ GoOn(h, j)
    <2>1. \A a, b : Ready(Refreshing(a, b))'
      BY Unready DEF Refreshing, Running
    <2> QED BY <2>1 DEF InsertAllowance, PatchAllowance, DropAllowance
  <1> QED BY <1>2, <1>3 DEF KeepsAlone

-----------------------------------------------------------------------------
(* Writes to asks. *)

\* Only r changes, and only while nothing is decided; if it waits afterwards, it
\* waits on an open trip and an open account.
Reconsiders(r) ==
    /\ \A q \in Requests : q # r => allowanceRequest'[q] = allowanceRequest[q]
    /\ \/ allowanceRequest'[r] = allowanceRequest[r]
       \/ /\ allowanceRequest[r] # None => allowanceRequest[r].status = "PENDING"
          /\ Undecided(r)' => ShipmentOpen /\ Open(allowanceRequest'[r].liquidationId)

LEMMA AskWrites ==
    ASSUME TablesOK, TablesOK', NothingLeftHanging, UNCHANGED shipment,
           NEW r \in Requests, Reconsiders(r)
    PROVE  AskedOnOpen /\ NoAskStranded' /\ LeavesDecisions
  <1>1. AskedOnOpen
    BY DEF AskedOnOpen, Undecided, IsLive, Reconsiders
  <1>2. NoAskStranded'
    BY DEF NothingLeftHanging, NoAskStranded, Undecided, IsLive, Reconsiders, ShipmentOpen
  <1>3. LeavesDecisions
    BY DEF LeavesDecisions, Reconsiders
  <1> QED BY <1>1, <1>2, <1>3

LEMMA AsksKeep ==
    ASSUME NEW h \in Handlers, TablesOK, TablesOK', Facts, Sound(job[h]), Ready(job[h]),
           InsertRequest(h) \/ PatchRequest(h) \/ Decline(h) \/ Withdraw(h)
    PROVE  KeepsAlone(h)
  <1>1. UNCHANGED <<shipment, liquidation, liquidationLine, allowance, rebilled, settlement,
                    crewDeduction>>
    BY DEF InsertRequest, PatchRequest, Decline, Withdraw
  <1>2. \E r \in Requests : Reconsiders(r)
    <2>1. CASE InsertRequest(h)
      <3>1. PICK r \in Requests :
              /\ allowanceRequest[r] = None
              /\ allowanceRequest' = [allowanceRequest EXCEPT ![r] =
                    [liquidationId |-> job[h].acct, amount |-> job[h].amt, live |-> TRUE,
                     status |-> "PENDING", allowanceId |-> None]]
        BY <2>1 DEF InsertRequest, Unused, TablesOK
      <3>2. ShipmentOpen /\ Open(job[h].acct)
        BY <2>1 DEF InsertRequest, At, Ready, ReadyOnRows, ReadyOnAsks
      <3>3. /\ \A q \in Requests : q # r => allowanceRequest'[q] = allowanceRequest[q]
            /\ allowanceRequest'[r].liquidationId = job[h].acct
        BY <3>1 DEF TablesOK
      <3> QED BY <3>1, <3>2, <3>3 DEF Reconsiders
    <2>2. CASE PatchRequest(h)
      <3>1. PICK r, to, row : /\ r = job[h].row /\ to = job[h].acct
                              /\ row = Patched(allowanceRequest[r], to, job[h].amt)
        OBVIOUS
      <3>2. /\ r \in Requests /\ allowanceRequest[r] \in RequestRow /\ Undecided(r)
            /\ ShipmentOpen
            /\ Open(IF to = None THEN allowanceRequest[r].liquidationId ELSE to)
            /\ to \in Liquidations \cup {None}
            /\ job[h].amt \in Amounts \cup {Unchanged}
        BY <2>2, <3>1
           DEF PatchRequest, At, Sound, OnRow, WithAmount, Job, Ready, ReadyOnAsks, TablesOK
      <3>3. row.liquidationId = IF to = None THEN allowanceRequest[r].liquidationId ELSE to
        <4>1. row \in RequestRow
          BY <3>1, <3>2, PatchingKeepsTypes
        <4> QED BY <3>1, <3>2, <4>1 DEF Patched, RequestRow
      <3>4. allowanceRequest' = [allowanceRequest EXCEPT ![r] = row]
        BY <2>2, <3>1 DEF PatchRequest
      <3>5. /\ \A q \in Requests : q # r => allowanceRequest'[q] = allowanceRequest[q]
            /\ allowanceRequest'[r] = row
        BY <3>2, <3>4 DEF TablesOK
      <3> QED BY <3>2, <3>3, <3>5 DEF Reconsiders, Undecided
    <2>3. ASSUME NEW r, r = job[h].row, Decline(h) \/ Withdraw(h)
          PROVE  r \in Requests /\ Undecided(r) /\ allowanceRequest[r] \in RequestRow
      BY <2>3 DEF Decline, Withdraw, At, Sound, OnRow, Ready, ReadyOnAsks, Undecided, IsLive,
                  TablesOK
    <2>4. CASE Decline(h)
      <3>1. PICK r : r = job[h].row
        OBVIOUS
      <3>2. r \in Requests /\ Undecided(r) /\ allowanceRequest[r] \in RequestRow
        BY <2>3, <2>4, <3>1
      <3>3. /\ \A q \in Requests : q # r => allowanceRequest'[q] = allowanceRequest[q]
            /\ allowanceRequest'[r] = allowanceRequest[r] \/ allowanceRequest'[r].status = "DECLINED"
        BY <2>4, <3>1, <3>2 DEF Decline, TablesOK, RequestRow
      <3> QED BY <3>2, <3>3 DEF Reconsiders, Undecided
    <2>5. CASE Withdraw(h)
      <3>1. PICK r : r = job[h].row
        OBVIOUS
      <3>2. r \in Requests /\ Undecided(r) /\ allowanceRequest[r] \in RequestRow
        BY <2>3, <2>5, <3>1
      <3>3. allowanceRequest' = [allowanceRequest EXCEPT ![r].live = FALSE]
        BY <2>5, <3>1, <3>2 DEF Withdraw, SoftDelete, Undecided
      <3>4. /\ \A q \in Requests : q # r => allowanceRequest'[q] = allowanceRequest[q]
            /\ ~ IsLive(allowanceRequest', r)
        BY <3>2, <3>3 DEF IsLive, TablesOK, RequestRow
      <3> QED BY <3>2, <3>4 DEF Reconsiders, Undecided
    <2> QED BY <2>1, <2>2, <2>4, <2>5
  <1>3. AskedOnOpen /\ NoAskStranded' /\ LeavesDecisions
    BY <1>1, <1>2, AskWrites DEF Facts
  <1>4. Books' /\ NothingStranded'
    <2>1. OnOpenOnly(liquidationLine, liquidationLine') /\ OnOpenOnly(allowance, allowance')
      BY <1>1 DEF OnOpenOnly
    <2> QED BY <1>1, <1>3, <2>1, RowsOnOpen DEF Facts, NothingLeftHanging
  <1>5. OneRelease' /\ Deeds
    BY <1>1, <1>3 DEF Facts, OneRelease, Deeds, ReleasesTheAsk, CompletesSquare
  <1>6. RebillNamesLiveClaim'
    BY <1>1 DEF Facts, NothingLeftHanging, RebillNamesLiveClaim
  <1>7. Facts'
    BY <1>1, <1>3, <1>4, <1>5, <1>6, DebtsUntouched DEF Facts, NothingLeftHanging
  <1>8. Return(h)
    BY DEF InsertRequest, PatchRequest, Decline, Withdraw
  <1> QED BY <1>5, <1>7, <1>8, Finishes

\* An ask that still waits has released nothing, so its approval makes the first
\* release, of what is asked.
LEMMA ApprovedAskKeeps ==
    ASSUME NEW h \in Handlers, TablesOK, TablesOK', Answered, Facts, Sound(job[h]), Ready(job[h]),
           ApproveRequest(h)
    PROVE  KeepsAlone(h)
  <1>1. UNCHANGED <<shipment, liquidation, liquidationLine, rebilled, settlement, crewDeduction>>
    BY DEF ApproveRequest
  <1>2. PICK r : r = job[h].row
    OBVIOUS
  <1>3. /\ r \in Requests /\ allowanceRequest[r] \in RequestRow /\ Undecided(r)
        /\ Open(job[h].acct)
        /\ allowanceRequest[r].liquidationId = job[h].acct
        /\ allowanceRequest[r].amount = job[h].amt
    BY <1>2 DEF ApproveRequest, At, Sound, OnRow, Ready, ReadyOnAsks, TablesOK
  <1>4. PICK x \in Allowances :
          /\ allowance[x] = None
          /\ allowance' = [allowance EXCEPT ![x] = Release(job[h].acct, job[h].amt, r)]
          /\ allowanceRequest' = [allowanceRequest EXCEPT ![r].status = "APPROVED",
                                                          ![r].allowanceId = x]
    BY <1>2 DEF ApproveRequest, Unused, TablesOK
  <1>5. /\ \A y \in Allowances : y # x => allowance'[y] = allowance[y]
        /\ allowance'[x].liquidationId = job[h].acct
        /\ allowance'[x].amount = job[h].amt
        /\ allowance'[x].ask = r
    BY <1>4 DEF TablesOK, Release
  <1>6. /\ \A q \in Requests : q # r => allowanceRequest'[q] = allowanceRequest[q]
        /\ allowanceRequest'[r].status = "APPROVED"
        /\ allowanceRequest'[r].liquidationId = allowanceRequest[r].liquidationId
        /\ allowanceRequest'[r].amount = allowanceRequest[r].amount
    BY <1>3, <1>4 DEF TablesOK, RequestRow
  <1>7. AskedOnOpen /\ NoAskStranded' /\ LeavesDecisions
    <2>1. Reconsiders(r)
      BY <1>3, <1>6 DEF Reconsiders, Undecided
    <2> QED BY <1>1, <1>3, <2>1, AskWrites DEF Facts
  <1>8. Books' /\ NothingStranded'
    <2>1. OnOpenOnly(liquidationLine, liquidationLine')
      BY <1>1 DEF OnOpenOnly
    <2>2. OnOpenOnly(allowance, allowance')
      BY <1>3, <1>4, <1>5 DEF OnOpenOnly, IsLive, TablesOK
    <2> QED BY <1>1, <1>7, <2>1, <2>2, RowsOnOpen DEF Facts, NothingLeftHanging
  <1>9. OneRelease'
    <2>1. \A y \in Allowances : y # x /\ allowance'[y] # None => allowance'[y].ask # r
      <3>1. \A y \in Allowances : allowance[y] # None => allowance[y].ask # r
        BY <1>3, NoneIsNoId DEF Answered, Undecided
      <3> QED BY <1>5, <3>1
    <2> SUFFICES ASSUME NEW y \in Allowances, NEW z \in Allowances,
                        allowance'[y] # None, allowance'[z] # None, allowance'[y].ask # None,
                        allowance'[y].ask = allowance'[z].ask
                 PROVE  y = z
      BY DEF OneRelease
    <2>2. CASE y = x \/ z = x
      BY <1>5, <2>1, <2>2
    <2>3. CASE y # x /\ z # x
      BY <1>5, <2>3 DEF Facts, OneRelease
    <2> QED BY <2>2, <2>3
  <1>10. Deeds
    <2>1. ReleasesTheAsk
      BY <1>3, <1>4, <1>5, <1>6 DEF ReleasesTheAsk
    <2> QED BY <1>1, <1>7, <2>1 DEF Deeds, CompletesSquare
  <1>11. RebillNamesLiveClaim'
    BY <1>1 DEF Facts, NothingLeftHanging, RebillNamesLiveClaim
  <1>12. Facts'
    BY <1>1, <1>7, <1>8, <1>9, <1>11, DebtsUntouched DEF Facts, NothingLeftHanging
  <1>13. \E j : Ready(j)' /\ GoOn(h, j)
    <2>1. \A a, b : Ready(Refreshing(a, b))'
      BY Unready DEF Refreshing, Running
    <2> QED BY <2>1 DEF ApproveRequest
  <1> QED BY <1>10, <1>12, <1>13 DEF KeepsAlone

-----------------------------------------------------------------------------
(* Rebills and completion. *)

LEMMA ShipmentKeepsAlone ==
    ASSUME NEW h \in Handlers, TablesOK, TablesOK', Facts, Sound(job[h]), Ready(job[h]),
           Rebill(h) \/ Unrebill(h) \/ Complete(h)
    PROVE  KeepsAlone(h)
  <1>1. UNCHANGED <<liquidation, liquidationLine, allowance, allowanceRequest, settlement,
                    crewDeduction>>
    BY DEF Rebill, Unrebill, Complete
  <1>2. RebillNamesLiveClaim'
    BY DEF Rebill, Unrebill, Complete, At, Ready, ReadyOnRows, Facts, NothingLeftHanging,
           RebillNamesLiveClaim
  <1>3. Complete(h) => ReadyToComplete
    BY DEF Complete, At, Ready, ReadyOnAsks
  <1>4. NoAskStranded'
    BY <1>1, <1>3 DEF Rebill, Unrebill, Complete, ReadyToComplete, Facts, NothingLeftHanging,
                      NoAskStranded, Undecided
  <1>5. CompletesSquare
    BY <1>3 DEF Rebill, Unrebill, Complete, ReadyToComplete, CompletesSquare
  <1>6. Books' /\ NothingStranded'
    BY <1>1 DEF Facts, Books, FrozenFigureStands, OnlyApprovedIsOwed, NothingLeftHanging,
                NothingStranded, TotalAllowance, TotalLiquidated, LiveSettlement, Undecided
  <1>7. OneRelease' /\ LeavesDecisions /\ ReleasesTheAsk
    BY <1>1 DEF Facts, OneRelease, LeavesDecisions, ReleasesTheAsk
  <1>8. Debts'
    BY <1>1, DebtsUntouched DEF Facts
  <1>9. Return(h)
    BY DEF Rebill, Unrebill, Complete
  <1> QED
    BY <1>2, <1>4, <1>5, <1>6, <1>7, <1>8, <1>9, Finishes DEF Facts, NothingLeftHanging, Deeds

-----------------------------------------------------------------------------
LEMMA AloneInit == Init => Alone
  <1> SUFFICES ASSUME Init PROVE Alone
    OBVIOUS
  <1>1. \A h \in Handlers : Ready(job[h])
    BY Unready DEF Init, Idle, Doing, Running
  <1>2. \A a \in Liquidations :
          /\ liquidation[a].status = "PENDING"
          /\ liquidation[a].row \in {"absent", "live"}
    BY DEF Init, NoAccount
  <1>3. Books
    BY <1>2 DEF Init, Books, OnlyApprovedIsOwed, FrozenFigureStands, LiveSettlement, LiveOn, IsLive
  <1>4. NothingLeftHanging
    BY <1>2 DEF Init, NothingLeftHanging, NothingStranded, RebillNamesLiveClaim, NoAskStranded
  <1>5. Debts /\ OneRelease
    BY DEF Init, Debts, OneRelease
  <1> QED BY <1>1, <1>3, <1>4, <1>5 DEF Alone, Facts

\* Every step of a handler that has checked what it needs.
LEMMA HandlerKeeps ==
    ASSUME NEW h \in Handlers, Safe, TablesOK', Facts, Ready(job[h]),
           \/ RefreshStep(h) \/ LineStep(h) \/ StatusStep(h) \/ AccountStep(h)
           \/ AllowanceStep(h) \/ RequestStep(h) \/ SettlementStep(h) \/ PayoutStep(h)
           \/ ShipmentStep(h) \/ Crash(h)
    PROVE  KeepsAlone(h)
  <1>1. TablesOK /\ Sound(job[h]) /\ Recorded /\ Answered
    BY DEF Safe, Typed
  <1>2. CASE RefreshStep(h)
    <2>1. CASE RefreshWrite(h)
      <3>1. Facts' /\ Deeds
        BY <1>1, <2>1, AccountWrites
      <3>2. \E j : Ready(j)' /\ GoOn(h, j)
        <4>1. Ready(Idle)' /\ \A a, b : Ready(Refreshing(a, b))'
          BY Unready DEF Refreshing, Idle, Doing, Running
        <4> QED BY <2>1, <4>1 DEF RefreshWrite, Refreshed, Return
      <3> QED BY <3>1, <3>2 DEF KeepsAlone
    <2> QED BY <1>1, <1>2, <2>1, RefreshReads
  <1>3. CASE LineStep(h)
    BY <1>1, <1>3, LineReads, LinesKeep
  <1>4. CASE StatusStep(h)
    <2>1. CASE Submit(h) \/ ReturnToCrew(h)
      BY <1>1, <2>1, AccountWrites, Finishes DEF Submit, ReturnToCrew
    <2>2. CASE Approve(h)
      BY <1>1, <2>2, ApproveKeeps, Finishes DEF Approve
    <2>3. CASE Reverse(h)
      BY <1>1, <2>3, ReverseKeeps, Finishes DEF Reverse
    <2> QED BY <1>1, <1>4, <2>1, <2>2, <2>3, StatusReads
  <1>5. CASE AccountStep(h)
    <2>1. CASE Remove(h)
      BY <1>1, <2>1, AccountWrites, Finishes DEF Remove
    <2>2. ASSUME NEW a \in Liquidations, OpenAccount(h, a) PROVE KeepsAlone(h)
      BY <1>1, <2>2, AccountWrites, Finishes DEF OpenAccount
    <2> QED BY <1>5, <2>1, <2>2, RemoveReads DEF AccountStep
  <1>6. CASE AllowanceStep(h)
    BY <1>1, <1>6, AllowanceReads, AllowancesKeep
  <1>7. CASE RequestStep(h)
    BY <1>1, <1>7, RequestReads, AsksKeep, ApprovedAskKeeps
  <1>8. CASE SettlementStep(h)
    <2>1. CASE Record(h)
      BY <1>1, <2>1, RecordKeeps, Finishes DEF Record
    <2>2. CASE CarryToPayout(h)
      BY <1>1, <2>2, CarryKeeps, Finishes DEF CarryToPayout
    <2>3. CASE Clear(h)
      BY <1>1, <2>3, ClearKeeps, Finishes DEF Clear
    <2> QED BY <1>1, <1>8, <2>1, <2>2, <2>3, SettlementReads
  <1>9. CASE PayoutStep(h)
    <2>1. ASSUME CommitSlice(h) \/ \E d \in Deductions : PaySlices(h, d) \/ DropSlices(h, d)
          PROVE  KeepsAlone(h)
      BY <1>1, <2>1, PayoutKeepsDebts, Finishes DEF CommitSlice, PaySlices, DropSlices
    <2> QED BY <1>9, <2>1, SliceReads DEF PayoutStep
  <1>10. CASE ShipmentStep(h)
    BY <1>1, <1>10, ShipmentReads, ShipmentKeepsAlone
  <1>11. CASE Crash(h)
    <2>1. Ready(Idle)
      BY Unready DEF Idle, Doing, Running
    <2> QED BY <1>11, <2>1, ReadsKeep DEF Crash, Return
  <1> QED BY <1>2, <1>3, <1>4, <1>5, <1>6, <1>7, <1>8, <1>9, <1>10, <1>11

LEMMA AloneNext ==
    ASSUME OneAtATime
    PROVE  Safe /\ Alone /\ [Next]_vars => Alone' /\ Deeds
  <1> SUFFICES ASSUME Safe, Alone, [Next]_vars PROVE Alone' /\ Deeds
    OBVIOUS
  <1>1. TablesOK'
    BY SafeNext DEF Safe, Typed
  <1>2. CASE UNCHANGED vars
    BY <1>2, TablesUntouched DEF Alone, vars
  <1>3. CASE Next
    <2>1. PICK h \in Handlers :
            \/ RefreshStep(h) \/ LineStep(h) \/ StatusStep(h) \/ AccountStep(h)
            \/ AllowanceStep(h) \/ RequestStep(h) \/ SettlementStep(h) \/ PayoutStep(h)
            \/ ShipmentStep(h) \/ Crash(h)
      BY <1>3 DEF Next
    <2>2. KeepsAlone(h)
      BY <1>1, <2>1, HandlerKeeps DEF Alone
    <2>3. PICK j : Ready(j)' /\ job' = [job EXCEPT ![h] = j]
      BY <2>2 DEF KeepsAlone, GoOn
    <2>4. \A g \in Handlers : job'[g] = j
      BY <2>3 DEF OneAtATime, Safe, Typed
    <2> QED BY <2>2, <2>3, <2>4 DEF KeepsAlone, Alone
  <1> QED BY <1>2, <1>3

LEMMA SpecAlone ==
    ASSUME OneAtATime
    PROVE  Spec => [](Safe /\ Alone)
  <1>1. Safe /\ Alone /\ [Next]_vars => (Safe /\ Alone)'
    BY SafeNext, AloneNext
  <1> QED BY <1>1, SafeInit, AloneInit, PTL DEF Spec

-----------------------------------------------------------------------------
\* While requests do not overlap, an APPROVED account's stored totals stay the
\* sums of its live releases and claims, and its settlement their difference:
\* nothing approve, refreshTotals or an edit writes later moves the figure.
THEOREM ApprovedFigureStands ==
    ASSUME OneAtATime
    PROVE  Spec => []FrozenFigureStands
  <1>1. Alone => FrozenFigureStands
    BY DEF Alone, Facts, Books
  <1> QED BY <1>1, SpecAlone, PTL

\* While requests do not overlap, a live settlement is always that of an
\* APPROVED account: a reversal takes the settlement with it.
THEOREM OwedOnlyIfApproved ==
    ASSUME OneAtATime
    PROVE  Spec => []OnlyApprovedIsOwed
  <1>1. Alone => OnlyApprovedIsOwed
    BY DEF Alone, Facts, Books
  <1> QED BY <1>1, SpecAlone, PTL

\* While requests do not overlap, every live debt was carried from one live
\* settlement of its amount, no payout takes more of it than is owed, and a
\* settlement cleared out of pay was recovered in full by PAID runs.
THEOREM DebtsAlwaysAddUp ==
    ASSUME OneAtATime
    PROVE  Spec => []DebtsAddUp
  <1>1. Safe /\ Alone => EveryDebtExplained
    <2> SUFFICES ASSUME Safe, Alone, NEW d \in Deductions, IsLive(crewDeduction, d)
                 PROVE  \E s \in Settlements :
                           /\ {t \in Settlements : IsLive(settlement, t)
                                                    /\ settlement[t].crewDeductionId = d} = {s}
                           /\ settlement[s].amount = crewDeduction[d].amount
      BY DEF EveryDebtExplained
    <2>1. PICK s \in Settlements : settlement[s] # None /\ settlement[s].crewDeductionId = d
      BY DEF Alone, Facts, Debts, IsLive
    <2>2. d # None
      BY NoneIsNoId
    <2>3. IsLive(settlement, s) /\ settlement[s].amount = crewDeduction[d].amount
      BY <2>1, <2>2 DEF Alone, Facts, Debts, Told, IsLive
    <2>4. \A t \in Settlements :
             IsLive(settlement, t) /\ settlement[t].crewDeductionId = d => t = s
      BY <2>1, <2>2 DEF Alone, Facts, Debts, IsLive
    <2> QED BY <2>1, <2>3, <2>4
  <1>2. Safe /\ Alone => NeverOverRecovered
    BY DEF Alone, Facts, Debts, Within, NeverOverRecovered
  <1>3. Safe /\ Alone => ClearedByPay
    BY DEF Alone, Facts, Debts, Told, ClearedByPay
  <1>4. Safe /\ Alone => DebtsAddUp
    BY <1>1, <1>2, <1>3 DEF DebtsAddUp
  <1> QED BY <1>4, SpecAlone, PTL

\* While requests do not overlap, a settlement under which cash changed hands,
\* or pay was recovered, is never deleted by a reversal.
THEOREM MovedMoneyIsKept ==
    ASSUME OneAtATime
    PROVE  Spec => []MovedMoneyStands
  <1>1. Safe /\ Alone => MovedMoneyStands
    <2> SUFFICES ASSUME Safe, Alone, NEW s \in Settlements, settlement[s] # None,
                        \/ settlement[s].disbursed
                        \/ /\ settlement[s].crewDeductionId # None
                           /\ crewDeduction[settlement[s].crewDeductionId].paid > 0
                 PROVE  settlement[s].live
      BY DEF MovedMoneyStands
    <2>1. Told(s) /\ settlement[s] \in SettlementRow
      BY DEF Alone, Facts, Debts, Safe, Typed, TablesOK
    <2>2. CASE settlement[s].disbursed
      BY <2>1, <2>2 DEF Told
    <2>3. CASE settlement[s].crewDeductionId # None
                 /\ crewDeduction[settlement[s].crewDeductionId].paid > 0
      <3>1. PICK d : d = settlement[s].crewDeductionId
        OBVIOUS
      <3>2. /\ d \in Deductions /\ crewDeduction[d] # None
            /\ crewDeduction[d].live = settlement[s].live
        BY <2>1, <2>3, <3>1 DEF Told, SettlementRow
      <3>3. ~ crewDeduction[d].live => crewDeduction[d].paid = 0
        BY <3>2 DEF Alone, Facts, Debts, Within
      <3> QED BY <2>3, <3>1, <3>2, <3>3
    <2> QED BY <2>2, <2>3
  <1> QED BY <1>1, SpecAlone, PTL

\* While requests do not overlap, an ask leads to at most one release, however
\* often its approval is called and wherever a call dies.
THEOREM AtMostOneRelease ==
    ASSUME OneAtATime
    PROVE  Spec => []OneReleasePerRequest
  <1>1. Alone => OneReleasePerRequest
    <2> SUFFICES ASSUME Alone, NEW r \in Requests
                 PROVE  Cardinality({x \in Allowances :
                                        allowance[x] # None /\ allowance[x].ask = r}) <= 1
      BY DEF OneReleasePerRequest
    <2> DEFINE made == {x \in Allowances : allowance[x] # None /\ allowance[x].ask = r}
    <2>1. r # None
      BY NoneIsNoId
    <2>2. \A x, y \in made : x = y
      BY <2>1 DEF Alone, Facts, OneRelease
    <2>3. made = {} \/ \E x : made = {x}
      BY <2>2
    <2> HIDE DEF made
    <2>4. Cardinality(made) <= 1
      <3>1. CASE made = {}
        BY <3>1, FS_EmptySet
      <3>2. ASSUME NEW x, made = {x}
            PROVE  Cardinality(made) = 1
        BY <3>2, FS_Singleton
      <3> QED BY <2>3, <3>1, <3>2
    <2> QED BY <2>4 DEF made
  <1> QED BY <1>1, SpecAlone, PTL

\* While requests do not overlap, no removal and no completion leaves behind a
\* row that still counts on what is gone.
THEOREM NothingIsLeftHanging ==
    ASSUME OneAtATime
    PROVE  Spec => []NothingLeftHanging
  <1>1. Alone => NothingLeftHanging
    BY DEF Alone, Facts
  <1> QED BY <1>1, SpecAlone, PTL

LEMMA SpecDeeds ==
    ASSUME OneAtATime
    PROVE  Spec => [][Deeds]_vars
  BY AloneNext, SpecAlone, PTL DEF Spec

\* While requests do not overlap, a decided ask never changes.
THEOREM DecisionsStand ==
    ASSUME OneAtATime
    PROVE  Spec => DecisionStands
  <1>1. [Deeds]_vars => [LeavesDecisions]_vars
    BY DEF Deeds
  <1>2. Spec => [][LeavesDecisions]_vars
    BY <1>1, SpecDeeds, PTL
  <1> QED BY <1>2 DEF DecisionStands, LeavesDecisions

\* While requests do not overlap, what an approval releases is the figure and
\* the account of the ask as it stands when it is APPROVED.
THEOREM ReleasesAreAsAsked ==
    ASSUME OneAtATime
    PROVE  Spec => ReleasesWhatWasAsked
  <1>1. [Deeds]_vars => [ReleasesTheAsk]_vars
    BY DEF Deeds
  <1>2. Spec => [][ReleasesTheAsk]_vars
    BY <1>1, SpecDeeds, PTL
  <1> QED BY <1>2 DEF ReleasesWhatWasAsked, ReleasesTheAsk

\* While requests do not overlap, a trip completes only over accounts that are
\* all APPROVED.
THEOREM CompletesOnlySquare ==
    ASSUME OneAtATime
    PROVE  Spec => CompletedSquare
  <1>1. [Deeds]_vars => [CompletesSquare]_vars
    BY DEF Deeds
  <1>2. Spec => [][CompletesSquare]_vars
    BY <1>1, SpecDeeds, PTL
  <1> QED BY <1>2 DEF CompletedSquare, CompletesSquare

-----------------------------------------------------------------------------
(***************************************************************************)
(* The refinement: each step of a handler is a step of AccountBook, or     *)
(* leaves the standing and the balance of every account as they were.      *)
(***************************************************************************)
SameEntry(b) == Standing(b)' = Standing(b) /\ BalanceOf(b)' = BalanceOf(b)
BookStands == \A b \in Liquidations : SameEntry(b)
BookMoves == Book!Next \/ BookStands

LEMMA BalanceIs ==
    ASSUME NEW a, NEW s \in Settlements
    PROVE  /\ LiveSettlement(a) = {s} =>
                 BalanceOf(a) = [amount |-> settlement[s].amount, progress |-> ProgressOf(s)]
           /\ LiveSettlement(a)' = {s} =>
                 BalanceOf(a)' = [amount |-> settlement'[s].amount, progress |-> ProgressOf(s)']
           /\ LiveSettlement(a) = {} => BalanceOf(a) = None
           /\ LiveSettlement(a)' = {} => BalanceOf(a)' = None
  <1>1. \A S : S = {s} => (CHOOSE t \in Settlements : t \in S) = s
    OBVIOUS
  <1> QED BY <1>1 DEF BalanceOf

\* What is shown of a balance depends on its settlement and on its debt's slices.
SameProgress(s) ==
    /\ settlement'[s].status = settlement[s].status
    /\ settlement'[s].crewDeductionId = settlement[s].crewDeductionId
    /\ settlement[s].status = "CARRIED_TO_PAYOUT" =>
          LET d == settlement[s].crewDeductionId
          IN  crewDeduction'[d].due = crewDeduction[d].due
              /\ crewDeduction'[d].paid = crewDeduction[d].paid

LEMMA ProgressStands ==
    ASSUME NEW s, SameProgress(s)
    PROVE  ProgressOf(s)' = ProgressOf(s)
  BY DEF SameProgress, ProgressOf

LEMMA BalanceStands ==
    ASSUME TablesOK, TablesOK', OneLive, NEW a \in Liquidations,
           LiveSettlement(a)' = LiveSettlement(a),
           \A s \in LiveSettlement(a) :
               settlement'[s].amount = settlement[s].amount /\ ProgressOf(s)' = ProgressOf(s)
    PROVE  BalanceOf(a)' = BalanceOf(a)
  <1>1. CASE LiveSettlement(a) = {}
    BY <1>1 DEF BalanceOf
  <1>2. CASE LiveSettlement(a) # {}
    <2>1. PICK s : s \in LiveSettlement(a)
      BY <1>2
    <2>2. s \in Settlements /\ LiveSettlement(a) = {s}
      BY <2>1 DEF LiveSettlement, LiveOn, TablesOK, OneLive
    <2> QED BY <2>2, BalanceIs
  <1> QED BY <1>1, <1>2

LEMMA StandingStands ==
    ASSUME NEW a \in Liquidations,
           liquidation'[a].row = liquidation[a].row, liquidation'[a].status = liquidation[a].status
    PROVE  Standing(a)' = Standing(a)
  BY DEF Standing

\* A step that leaves settlements and debts alone, and moves one account along.
Turns == {<<"none", "PENDING">>, <<"PENDING", "SUBMITTED">>, <<"SUBMITTED", "PENDING">>,
          <<"PENDING", "removed">>, <<"SUBMITTED", "removed">>}

LEMMA AccountMoves ==
    ASSUME TablesOK, TablesOK', OneLive, UNCHANGED <<settlement, crewDeduction>>,
           NEW a \in Liquidations, \A b \in Liquidations : b # a => Standing(b)' = Standing(b),
           Standing(a)' = Standing(a) \/ <<Standing(a), Standing(a)'>> \in Turns
    PROVE  BookMoves
  <1>1. \A b \in Liquidations : BalanceOf(b)' = BalanceOf(b)
    <2>1. \A s : ProgressOf(s)' = ProgressOf(s)
      BY DEF ProgressOf
    <2> QED BY <2>1, BalanceStands DEF LiveSettlement
  <1>2. CASE Standing(a)' = Standing(a)
    BY <1>1, <1>2 DEF BookMoves, BookStands, SameEntry
  <1>3. CASE <<Standing(a), Standing(a)'>> \in Turns
    <2>1. \/ Standing(a) = "none" /\ Standing(a)' = "PENDING"
          \/ Standing(a) = "PENDING" /\ Standing(a)' = "SUBMITTED"
          \/ Standing(a) = "SUBMITTED" /\ Standing(a)' = "PENDING"
          \/ Standing(a) \in {"PENDING", "SUBMITTED"} /\ Standing(a)' = "removed"
      BY <1>3 DEF Turns
    <2>2. Book!Open(a) \/ Book!Submit(a) \/ Book!Return(a) \/ Book!Remove(a)
      BY <1>1, <2>1
         DEF Book!Open, Book!Submit, Book!Return, Book!Remove, Book!Becomes
    <2> QED BY <2>2 DEF BookMoves, Book!Next
  <1> QED BY <1>2, <1>3

\* A step that leaves accounts alone, and moves the clearing of one balance along.
Clearing == {<<"open", "cleared">>, <<"open", "carried">>, <<"carried", "sliced">>,
             <<"sliced", "carried">>, <<"sliced", "recovering">>, <<"recovering", "cleared">>}

LEMMA BalanceMoves ==
    ASSUME TablesOK, TablesOK', OneLive, Books, UNCHANGED liquidation,
           NEW s \in Settlements, IsLive(settlement, s),
           \A t \in Settlements :
               /\ settlement'[t] # None <=> settlement[t] # None
               /\ settlement[t] # None =>
                     /\ settlement'[t].live = settlement[t].live
                     /\ settlement'[t].liquidationId = settlement[t].liquidationId
                     /\ settlement'[t].amount = settlement[t].amount
               /\ t # s /\ settlement[t] # None => SameProgress(t),
           \/ ProgressOf(s)' = ProgressOf(s)
           \/ /\ <<ProgressOf(s), ProgressOf(s)'>> \in Clearing
              /\ ProgressOf(s)' = "carried" => settlement[s].amount > 0
    PROVE  BookMoves
  <1>1. PICK a : a = settlement[s].liquidationId
    OBVIOUS
  <1>2. a \in Liquidations
    BY <1>1 DEF IsLive, TablesOK, SettlementRow
  <1>3. \A b \in Liquidations : LiveSettlement(b)' = LiveSettlement(b)
    BY DEF LiveSettlement, LiveOn, IsLive, TablesOK
  <1>4. LiveSettlement(a) = {s}
    BY <1>1, <1>2 DEF LiveSettlement, LiveOn, TablesOK, OneLive
  <1>5. \A b \in Liquidations : b # a => BalanceOf(b)' = BalanceOf(b)
    <2> SUFFICES ASSUME NEW b \in Liquidations, b # a PROVE BalanceOf(b)' = BalanceOf(b)
      OBVIOUS
    <2>1. \A t \in LiveSettlement(b) :
             /\ t \in Settlements /\ settlement[t] # None /\ t # s
             /\ settlement'[t].amount = settlement[t].amount
             /\ ProgressOf(t)' = ProgressOf(t)
      BY <1>1, ProgressStands DEF LiveSettlement, LiveOn, IsLive, TablesOK
    <2> QED BY <1>3, <2>1, BalanceStands
  <1>6. /\ BalanceOf(a) = [amount |-> settlement[s].amount, progress |-> ProgressOf(s)]
        /\ BalanceOf(a)' = [amount |-> settlement[s].amount, progress |-> ProgressOf(s)']
    BY <1>2, <1>3, <1>4, BalanceIs DEF IsLive
  <1>7. \A b \in Liquidations : Standing(b)' = Standing(b)
    BY StandingStands
  <1>8. CASE ProgressOf(s)' = ProgressOf(s)
    BY <1>5, <1>6, <1>7, <1>8 DEF BookMoves, BookStands, SameEntry
  <1>9. CASE /\ <<ProgressOf(s), ProgressOf(s)'>> \in Clearing
             /\ ProgressOf(s)' = "carried" => settlement[s].amount > 0
    <2>1. Standing(a) = "APPROVED"
      <3>1. liquidation[a].status = "APPROVED" /\ liquidation[a].row = "live"
        BY <1>2, <1>4 DEF Books, OnlyApprovedIsOwed
      <3> QED BY <3>1 DEF Standing
    <2>2. \/ ProgressOf(s) = "open" /\ ProgressOf(s)' = "cleared"
          \/ ProgressOf(s) = "open" /\ ProgressOf(s)' = "carried" /\ settlement[s].amount > 0
          \/ ProgressOf(s) = "carried" /\ ProgressOf(s)' = "sliced"
          \/ ProgressOf(s) = "sliced" /\ ProgressOf(s)' = "carried"
          \/ ProgressOf(s) = "sliced" /\ ProgressOf(s)' = "recovering"
          \/ ProgressOf(s) = "recovering" /\ ProgressOf(s)' = "cleared"
      BY <1>9 DEF Clearing
    <2>3. BalanceOf(a) # None
      <3>1. settlement[s].amount \in Int
        BY DEF IsLive, TablesOK, SettlementRow
      <3>2. ProgressOf(s) \in Book!Progress
        BY <2>2 DEF Book!Progress
      <3> QED BY <1>6, <3>1, <3>2, NoneIsNoEntry
    <2>4. \A from, to :
             ProgressOf(s) = from /\ ProgressOf(s)' = to => Book!MovesOn(a, from, to)
      <3> SUFFICES ASSUME NEW from, NEW to, ProgressOf(s) = from, ProgressOf(s)' = to
                   PROVE  Book!MovesOn(a, from, to)
        OBVIOUS
      <3>1. PICK old, new, now, next :
              /\ old = [b \in Liquidations |-> BalanceOf(b)]
              /\ new = [b \in Liquidations |-> BalanceOf(b)']
              /\ now = [b \in Liquidations |-> Standing(b)]
              /\ next = [b \in Liquidations |-> Standing(b)']
        OBVIOUS
      <3>2. /\ now[a] = "APPROVED" /\ next = now /\ old[a].progress = from
            /\ old[a] = [amount |-> settlement[s].amount, progress |-> from]
            /\ new[a] = [amount |-> settlement[s].amount, progress |-> to]
            /\ \A b \in Liquidations : b # a => new[b] = old[b]
        BY <1>2, <1>5, <1>6, <1>7, <2>1, <3>1
      <3>3. new = [old EXCEPT ![a].progress = to]
        BY <1>2, <3>1, <3>2
      <3> QED BY <3>1, <3>2, <3>3 DEF Book!MovesOn
    <2>5. \/ Book!HandOver(a) \/ Book!Carry(a) \/ Book!TakeSlice(a) \/ Book!DropSlices(a)
          \/ Book!PaySlices(a) \/ Book!RecoverAll(a)
      <3>1. [b \in Liquidations |-> BalanceOf(b)][a] = BalanceOf(a)
        BY <1>2
      <3> QED
        BY <1>6, <2>2, <2>3, <2>4, <3>1
           DEF Book!HandOver, Book!Carry, Book!TakeSlice, Book!DropSlices, Book!PaySlices,
               Book!RecoverAll
    <2> QED BY <1>2, <2>5 DEF BookMoves, Book!Next
  <1> QED BY <1>8, <1>9

LEMMA BookUntouched ==
    ASSUME TablesOK, TablesOK', OneLive, UNCHANGED <<settlement, crewDeduction>>,
           \A a \in Liquidations : /\ liquidation'[a].row = liquidation[a].row
                                   /\ liquidation'[a].status = liquidation[a].status
    PROVE  BookMoves
  <1>1. \A s : ProgressOf(s)' = ProgressOf(s)
    BY DEF ProgressOf
  <1>2. \A a \in Liquidations : BalanceOf(a)' = BalanceOf(a)
    BY <1>1, BalanceStands DEF LiveSettlement
  <1> QED BY <1>2, StandingStands DEF BookMoves, BookStands, SameEntry

\* Submitting, returning, opening and removing.
LEMMA AccountStepMoves ==
    ASSUME NEW h \in Handlers, TablesOK, TablesOK', OneLive, Books, Sound(job[h]), Ready(job[h]),
           \/ Submit(h) \/ ReturnToCrew(h) \/ Remove(h)
           \/ \E a \in Liquidations : OpenAccount(h, a)
    PROVE  BookMoves
  <1>1. UNCHANGED <<settlement, crewDeduction>>
    BY DEF Submit, ReturnToCrew, Remove, OpenAccount
  <1>2. \E a \in Liquidations :
           /\ \A b \in Liquidations : b # a => liquidation'[b] = liquidation[b]
           /\ Standing(a)' = Standing(a) \/ <<Standing(a), Standing(a)'>> \in Turns
    <2>1. CASE Submit(h)
      <3>1. InStatus(job[h].acct, "PENDING")
        BY <2>1 DEF Submit, At, Ready, ReadyOnStatus
      <3>2. /\ \A b \in Liquidations : b # job[h].acct => liquidation'[b] = liquidation[b]
            /\ liquidation'[job[h].acct].row = "live"
            /\ liquidation'[job[h].acct].status = "SUBMITTED"
        BY <2>1, <3>1 DEF Submit, InStatus, ApprovedAtMatches, TablesOK, LiquidationRow
      <3> QED BY <3>1, <3>2 DEF InStatus, Standing, Turns
    <2>2. CASE ReturnToCrew(h)
      <3>1. InStatus(job[h].acct, "SUBMITTED")
        BY <2>2 DEF ReturnToCrew, At, Ready, ReadyOnStatus
      <3>2. /\ \A b \in Liquidations : b # job[h].acct => liquidation'[b] = liquidation[b]
            /\ liquidation'[job[h].acct].row = "live"
            /\ liquidation'[job[h].acct].status = "PENDING"
        BY <2>2, <3>1 DEF ReturnToCrew, InStatus, ApprovedAtMatches, TablesOK, LiquidationRow
      <3> QED BY <3>1, <3>2 DEF InStatus, Standing, Turns
    <2>3. CASE Remove(h)
      <3>1. PICK a \in Liquidations :
               /\ a = job[h].acct
               /\ liquidation[a].row = "live"
               /\ liquidation[a].status \in {"PENDING", "SUBMITTED"}
        BY <2>3 DEF Remove, At, Ready, ReadyOnStatus, Open, Editable, TablesOK, LiquidationRow,
                    LiquidationStatus
      <3>2. /\ \A b \in Liquidations : b # a => liquidation'[b] = liquidation[b]
            /\ liquidation'[a].row = "deleted"
        BY <2>3, <3>1 DEF Remove, TablesOK, LiquidationRow
      <3>3. Standing(a) \in {"PENDING", "SUBMITTED"} /\ Standing(a)' = "removed"
        BY <3>1, <3>2 DEF Standing
      <3> QED BY <3>1, <3>2, <3>3 DEF Turns
    <2>4. ASSUME NEW a \in Liquidations, OpenAccount(h, a)
          PROVE  /\ \A b \in Liquidations : b # a => liquidation'[b] = liquidation[b]
                 /\ <<Standing(a), Standing(a)'>> \in Turns
      <3>1. liquidation[a].row = "absent" /\ liquidation[a].status = "PENDING"
        BY <2>4 DEF OpenAccount, Books
      <3>2. /\ \A b \in Liquidations : b # a => liquidation'[b] = liquidation[b]
            /\ liquidation'[a].row = "live"
            /\ liquidation'[a].status = "PENDING"
        BY <2>4, <3>1 DEF OpenAccount, TablesOK, LiquidationRow
      <3> QED BY <3>1, <3>2 DEF Standing, Turns
    <2> QED BY <2>1, <2>2, <2>3, <2>4
  <1> QED BY <1>1, <1>2, AccountMoves, StandingStands

\* A total of rows of a table is one of the sums an approval may find.
LEMMA VarianceIsKnown ==
    ASSUME TablesOK, NEW a \in Liquidations
    PROVE  TotalAllowance(a) - TotalLiquidated(a) \in Variances
  <1>1. TotalAllowance(a) \in Sums(Allowances)
    <2>1. PICK S : S = LiveOn(allowance, a)
      OBVIOUS
    <2>2. S \in SUBSET Allowances
      BY <2>1 DEF LiveOn, TablesOK
    <2>3. PICK f \in [S -> Amounts] : f = [x \in S |-> allowance[x].amount]
      BY <2>1 DEF LiveOn, IsLive, TablesOK, AllowanceRow
    <2>4. TotalAllowance(a) = SumFunctionOnSet(f, S)
      BY <2>1, <2>3 DEF TotalAllowance, Total
    <2>5. SumFunctionOnSet(f, S) \in {SumFunctionOnSet(g, S) : g \in [S -> Amounts]}
      BY <2>3
    <2> QED BY <2>2, <2>4, <2>5 DEF Sums
  <1>2. TotalLiquidated(a) \in Sums(Lines)
    <2>1. PICK S : S = LiveOn(liquidationLine, a)
      OBVIOUS
    <2>2. S \in SUBSET Lines
      BY <2>1 DEF LiveOn, TablesOK
    <2>3. PICK f \in [S -> Amounts] : f = [x \in S |-> liquidationLine[x].amount]
      BY <2>1 DEF LiveOn, IsLive, TablesOK, LineRow
    <2>4. TotalLiquidated(a) = SumFunctionOnSet(f, S)
      BY <2>1, <2>3 DEF TotalLiquidated, Total
    <2>5. SumFunctionOnSet(f, S) \in {SumFunctionOnSet(g, S) : g \in [S -> Amounts]}
      BY <2>3
    <2> QED BY <2>2, <2>4, <2>5 DEF Sums
  <1> QED BY <1>1, <1>2 DEF Variances

LEMMA ApproveMoves ==
    ASSUME NEW h \in Handlers, TablesOK, TablesOK', OneLive, Sound(job[h]), Ready(job[h]),
           Approve(h)
    PROVE  BookMoves
  <1>1. PICK a \in Liquidations, s \in Settlements : Approves(a, s)
    BY ApproveWrites
  <1>2. PICK n \in Variances : n = TotalAllowance(a) - TotalLiquidated(a)
    BY VarianceIsKnown
  <1>3. Standing(a) = "SUBMITTED" /\ Standing(a)' = "APPROVED"
    BY <1>1 DEF Approves, Standing
  <1>4. \A b \in Liquidations : b # a => Standing(b)' = Standing(b)
    BY <1>1, StandingStands DEF Approves
  <1>5. BalanceOf(a) = None
        /\ BalanceOf(a)' = [amount |-> n, progress |-> IF n = 0 THEN "cleared" ELSE "open"]
    <2>1. LiveSettlement(a) = {} /\ LiveSettlement(a)' = {s}
      BY <1>1 DEF Approves, LiveSettlement
    <2>2. ProgressOf(s)' = IF n = 0 THEN "cleared" ELSE "open"
      BY <1>1, <1>2 DEF Approves, ProgressOf
    <2> QED BY <1>1, <1>2, <2>1, <2>2, BalanceIs DEF Approves
  <1>6. \A b \in Liquidations : b # a => BalanceOf(b)' = BalanceOf(b)
    <2> SUFFICES ASSUME NEW b \in Liquidations, b # a PROVE BalanceOf(b)' = BalanceOf(b)
      OBVIOUS
    <2>1. LiveSettlement(b)' = LiveSettlement(b)
      BY <1>1 DEF Approves, LiveSettlement
    <2>2. \A t \in LiveSettlement(b) : settlement'[t] = settlement[t]
      BY <1>1 DEF Approves, LiveSettlement, LiveOn, IsLive, TablesOK
    <2>3. crewDeduction' = crewDeduction
      BY DEF Approve
    <2>4. \A t \in LiveSettlement(b) : ProgressOf(t)' = ProgressOf(t)
      BY <2>2, <2>3, ProgressStands DEF SameProgress
    <2> QED BY <2>1, <2>2, <2>4, BalanceStands
  <1>7. Book!Approve(a)
    BY <1>2, <1>3, <1>4, <1>5, <1>6 DEF Book!Approve, Book!Becomes
  <1> QED BY <1>7 DEF BookMoves, Book!Next

\* Only slices count, and deleting a debt leaves those as they were.
LEMMA GoneKeepsSlices ==
    ASSUME TablesOK, NEW d \in Deductions \cup {None}, crewDeduction' = Gone(crewDeduction, d)
    PROVE  \A e \in Deductions : /\ crewDeduction'[e].due = crewDeduction[e].due
                                 /\ crewDeduction'[e].paid = crewDeduction[e].paid
  BY DEF Gone, SoftDelete, IsLive, TablesOK, DeductionRow

LEMMA ReverseMoves ==
    ASSUME NEW h \in Handlers, TablesOK, TablesOK', Recorded, Debts, Sound(job[h]), Ready(job[h]),
           Reverse(h)
    PROVE  BookMoves
  <1>1. PICK a \in Liquidations, s \in Settlements :
          /\ Reverses(a, s)
          /\ crewDeduction' = Gone(crewDeduction, settlement[s].crewDeductionId)
    BY ReverseWrites
  <1>2. Told(s) /\ settlement[s] \in SettlementRow
    BY <1>1 DEF Reverses, Debts, IsLive, TablesOK
  <1>3. Standing(a) = "APPROVED" /\ Standing(a)' = "SUBMITTED"
    BY <1>1 DEF Reverses, InStatus, Standing
  <1>4. \A b \in Liquidations : b # a => Standing(b)' = Standing(b)
    BY <1>1, StandingStands DEF Reverses
  <1>5. /\ BalanceOf(a) = [amount |-> settlement[s].amount, progress |-> ProgressOf(s)]
        /\ BalanceOf(a)' = None
    <2>1. LiveSettlement(a) = {s} /\ LiveSettlement(a)' = {}
      BY <1>1 DEF Reverses, LiveSettlement, LiveOn, Recorded, OneLive, TablesOK
    <2> QED BY <2>1, BalanceIs
  <1>6. ProgressOf(s) \in {"open", "carried"} \/ settlement[s].amount = 0
    BY <1>1, <1>2 DEF Reverses, MayUnwind, Told, ProgressOf, SettlementRow, SettlementStatus
  <1>7. \A b \in Liquidations : b # a => BalanceOf(b)' = BalanceOf(b)
    <2> SUFFICES ASSUME NEW b \in Liquidations, b # a PROVE BalanceOf(b)' = BalanceOf(b)
      OBVIOUS
    <2>1. LiveSettlement(b)' = LiveSettlement(b)
      BY <1>1 DEF Reverses, LiveSettlement
    <2>2. \A t \in LiveSettlement(b) :
             /\ settlement'[t] = settlement[t]
             /\ settlement[t] \in SettlementRow
             /\ Told(t)
      BY <1>1 DEF Reverses, LiveSettlement, LiveOn, IsLive, TablesOK, Debts
    <2>3. \A e \in Deductions : /\ crewDeduction'[e].due = crewDeduction[e].due
                                /\ crewDeduction'[e].paid = crewDeduction[e].paid
      BY <1>1, <1>2, GoneKeepsSlices DEF SettlementRow
    <2>4. \A t \in LiveSettlement(b) : ProgressOf(t)' = ProgressOf(t)
      BY <2>2, <2>3, ProgressStands DEF SameProgress, Told, SettlementRow
    <2> QED BY <2>1, <2>2, <2>4, BalanceStands DEF Recorded
  <1>8. Book!Unapprove(a)
    <2>1. PICK old, new, now, next :
            /\ old = [b \in Liquidations |-> BalanceOf(b)]
            /\ new = [b \in Liquidations |-> BalanceOf(b)']
            /\ now = [b \in Liquidations |-> Standing(b)]
            /\ next = [b \in Liquidations |-> Standing(b)']
      OBVIOUS
    <2>2. now[a] \in {"APPROVED"} /\ next = [now EXCEPT ![a] = "SUBMITTED"]
      BY <1>3, <1>4, <2>1
    <2>3. new = [old EXCEPT ![a] = None]
      BY <1>5, <1>7, <2>1
    <2>4. old[a].progress \in {"open", "carried"} \/ old[a].amount = 0
      BY <1>5, <1>6, <2>1
    <2> QED
      BY <2>1, <2>2, <2>3, <2>4
         DEF Book!Unapprove, Book!Becomes, Book!NothingMoved, Book!Forget
  <1> QED BY <1>8 DEF BookMoves, Book!Next

LEMMA RecordMoves ==
    ASSUME NEW h \in Handlers, TablesOK, TablesOK', OneLive, Facts, Sound(job[h]), Ready(job[h]),
           Record(h)
    PROVE  BookMoves
  <1>1. UNCHANGED <<liquidation, crewDeduction>>
    BY DEF Record
  <1>2. PICK s : s = job[h].row
    OBVIOUS
  <1>3. /\ s \in Settlements /\ IsLive(settlement, s) /\ settlement[s].status = "OUTSTANDING"
        /\ settlement[s] # None /\ settlement[s] \in SettlementRow
    BY <1>2 DEF Record, At, Sound, OnRow, Ready, ReadyOnDebts, Owing, IsLive, TablesOK
  <1>4. CASE ~ MayRecord(s)
    <2>1. settlement' = settlement
      BY <1>2, <1>4 DEF Record
    <2> QED BY <1>1, <2>1, BookUntouched
  <1>5. CASE MayRecord(s)
    <2>1. /\ \A t \in Settlements : t # s => settlement'[t] = settlement[t]
          /\ settlement'[s] = [settlement[s] EXCEPT !.status = "SETTLED", !.disbursed = TRUE]
      BY <1>2, <1>3, <1>5 DEF Record, TablesOK
    <2>2. settlement'[s] # None
      <3>1. settlement'[s] \in SettlementRow
        BY <1>3, <2>1 DEF SettlementRow, SettlementStatus
      <3> QED BY <3>1, NoneIsNoRow
    <2>3. /\ settlement'[s].liquidationId = settlement[s].liquidationId
          /\ settlement'[s].amount = settlement[s].amount
          /\ settlement'[s].live = settlement[s].live
          /\ settlement'[s].status = "SETTLED"
      BY <1>3, <2>1 DEF SettlementRow
    <2>4. ProgressOf(s) = "open" /\ ProgressOf(s)' = "cleared"
      BY <1>3, <2>3 DEF ProgressOf
    <2>5. <<ProgressOf(s), ProgressOf(s)'>> \in Clearing
      BY <2>4 DEF Clearing
    <2>6. \A t \in Settlements :
             /\ settlement'[t] # None <=> settlement[t] # None
             /\ settlement[t] # None =>
                   /\ settlement'[t].live = settlement[t].live
                   /\ settlement'[t].liquidationId = settlement[t].liquidationId
                   /\ settlement'[t].amount = settlement[t].amount
             /\ t # s /\ settlement[t] # None => SameProgress(t)
      BY <1>1, <1>3, <2>1, <2>2, <2>3 DEF SameProgress
    <2> QED BY <1>1, <1>3, <2>4, <2>5, <2>6, BalanceMoves DEF Facts
  <1> QED BY <1>4, <1>5

LEMMA ClearMoves ==
    ASSUME NEW h \in Handlers, TablesOK, TablesOK', OneLive, Facts, Sound(job[h]), Ready(job[h]),
           Clear(h)
    PROVE  BookMoves
  <1>1. UNCHANGED <<liquidation, crewDeduction>>
    BY DEF Clear
  <1>2. PICK s : s = job[h].row
    OBVIOUS
  <1>3. /\ s \in Settlements /\ IsLive(settlement, s) /\ settlement[s] \in SettlementRow
        /\ settlement[s] # None /\ settlement[s].status = "CARRIED_TO_PAYOUT" /\ Told(s)
        /\ Recovered(s) >= settlement[s].amount
    BY <1>2 DEF Clear, At, Sound, OnRow, Ready, ReadyOnDebts, Owing, IsLive, TablesOK, Facts, Debts
  <1>4. PICK d : d = settlement[s].crewDeductionId
    OBVIOUS
  <1>5. crewDeduction[d].paid > 0
    <2>1. d # None /\ d \in Deductions /\ crewDeduction[d] \in DeductionRow
          /\ settlement[s].amount > 0
      BY <1>3, <1>4 DEF Told, SettlementRow, TablesOK
    <2>2. crewDeduction[d].paid >= settlement[s].amount
      BY <1>3, <1>4, <2>1 DEF Recovered
    <2> QED BY <1>3, <2>1, <2>2 DEF DeductionRow, SettlementRow
  <1>6. /\ \A t \in Settlements : t # s => settlement'[t] = settlement[t]
        /\ settlement'[s] = [settlement[s] EXCEPT !.status = "SETTLED"]
    BY <1>2, <1>3 DEF Clear, TablesOK
  <1>7. settlement'[s] # None
    <2>1. settlement'[s] \in SettlementRow
      BY <1>3, <1>6 DEF SettlementRow, SettlementStatus
    <2> QED BY <2>1, NoneIsNoRow
  <1>8. /\ settlement'[s].liquidationId = settlement[s].liquidationId
        /\ settlement'[s].amount = settlement[s].amount
        /\ settlement'[s].live = settlement[s].live
        /\ settlement'[s].status = "SETTLED"
    BY <1>3, <1>6 DEF SettlementRow
  <1>9. ProgressOf(s) = "recovering" /\ ProgressOf(s)' = "cleared"
    BY <1>3, <1>4, <1>5, <1>8 DEF ProgressOf
  <1>10. <<ProgressOf(s), ProgressOf(s)'>> \in Clearing
    BY <1>9 DEF Clearing
  <1>11. \A t \in Settlements :
            /\ settlement'[t] # None <=> settlement[t] # None
            /\ settlement[t] # None =>
                  /\ settlement'[t].live = settlement[t].live
                  /\ settlement'[t].liquidationId = settlement[t].liquidationId
                  /\ settlement'[t].amount = settlement[t].amount
            /\ t # s /\ settlement[t] # None => SameProgress(t)
    BY <1>1, <1>3, <1>6, <1>7, <1>8 DEF SameProgress
  <1> QED BY <1>1, <1>3, <1>9, <1>10, <1>11, BalanceMoves DEF Facts

LEMMA CarryMoves ==
    ASSUME NEW h \in Handlers, TablesOK, TablesOK', OneLive, Facts, Sound(job[h]), Ready(job[h]),
           CarryToPayout(h)
    PROVE  BookMoves
  <1>1. UNCHANGED liquidation
    BY DEF CarryToPayout
  <1>2. PICK s : s = job[h].row
    OBVIOUS
  <1>3. /\ s \in Settlements /\ settlement[s] \in SettlementRow /\ settlement[s] # None
        /\ IsLive(settlement, s) /\ settlement[s].status = "OUTSTANDING" /\ Told(s)
        /\ job[h].amt = settlement[s].amount /\ settlement[s].amount > 0
    BY <1>2 DEF CarryToPayout, At, Sound, OnRow, Ready, ReadyOnDebts, Owing, IsLive, TablesOK,
                Facts, Debts, SettlementRow
  <1>4. PICK d \in Deductions :
          /\ crewDeduction[d] = None
          /\ crewDeduction' = [crewDeduction EXCEPT ![d] =
                [amount |-> settlement[s].amount, live |-> TRUE, due |-> 0, paid |-> 0]]
          /\ settlement' = [settlement EXCEPT ![s].status = "CARRIED_TO_PAYOUT",
                                              ![s].crewDeductionId = d]
    BY <1>2, <1>3 DEF CarryToPayout, Unused, TablesOK
  <1>5. /\ \A t \in Settlements : t # s => settlement'[t] = settlement[t]
        /\ settlement'[s] = [settlement[s] EXCEPT !.status = "CARRIED_TO_PAYOUT",
                                                  !.crewDeductionId = d]
    BY <1>3, <1>4 DEF TablesOK
  <1>6. settlement'[s] # None
    <2>1. settlement'[s] \in SettlementRow
      BY <1>3, <1>5 DEF SettlementRow, SettlementStatus
    <2> QED BY <2>1, NoneIsNoRow
  <1>7. /\ settlement'[s].liquidationId = settlement[s].liquidationId
        /\ settlement'[s].amount = settlement[s].amount
        /\ settlement'[s].live = settlement[s].live
        /\ settlement'[s].status = "CARRIED_TO_PAYOUT"
        /\ settlement'[s].crewDeductionId = d
    BY <1>3, <1>5 DEF SettlementRow
  <1>8. /\ \A e \in Deductions : e # d => crewDeduction'[e] = crewDeduction[e]
        /\ crewDeduction'[d].due = 0 /\ crewDeduction'[d].paid = 0
    BY <1>4 DEF TablesOK
  <1>9. ProgressOf(s) = "open" /\ ProgressOf(s)' = "carried"
    BY <1>3, <1>7, <1>8 DEF ProgressOf
  <1>10. <<ProgressOf(s), ProgressOf(s)'>> \in Clearing
    BY <1>9 DEF Clearing
  <1>11. \A t \in Settlements : t # s /\ settlement[t] # None => SameProgress(t)
    <2> SUFFICES ASSUME NEW t \in Settlements, t # s, settlement[t] # None
                 PROVE  SameProgress(t)
      OBVIOUS
    <2>1. settlement'[t] = settlement[t] /\ Told(t) /\ settlement[t] \in SettlementRow
      BY <1>5 DEF Facts, Debts, TablesOK
    <2>2. settlement[t].crewDeductionId # d
      BY <1>4, <2>1, NoneIsNoId DEF Told
    <2>3. settlement[t].status = "CARRIED_TO_PAYOUT" =>
            settlement[t].crewDeductionId \in Deductions
      BY <2>1 DEF Told, SettlementRow
    <2> QED BY <1>8, <2>1, <2>2, <2>3 DEF SameProgress
  <1>12. \A t \in Settlements :
            /\ settlement'[t] # None <=> settlement[t] # None
            /\ settlement[t] # None =>
                  /\ settlement'[t].live = settlement[t].live
                  /\ settlement'[t].liquidationId = settlement[t].liquidationId
                  /\ settlement'[t].amount = settlement[t].amount
    BY <1>3, <1>5, <1>6, <1>7
  <1> QED BY <1>1, <1>3, <1>9, <1>10, <1>11, <1>12, BalanceMoves DEF Facts

\* The slices of a live debt move the balance that was carried into it, and no other.
LEMMA SlicesMove ==
    ASSUME TablesOK, TablesOK', OneLive, Facts, UNCHANGED <<liquidation, settlement>>,
           NEW d \in Deductions, NEW n \in Nat, NEW m \in Nat,
           crewDeduction[d] # None, crewDeduction[d].live = TRUE,
           Slices(d, n, m),
           \/ m = crewDeduction[d].paid
           \/ m > 0 /\ crewDeduction[d].due > 0
    PROVE  BookMoves
  <1>1. PICK s \in Settlements : settlement[s] # None /\ settlement[s].crewDeductionId = d
    BY DEF Facts, Debts
  <1>2. /\ Told(s) /\ settlement[s] \in SettlementRow /\ d # None
        /\ crewDeduction[d] \in DeductionRow
    BY <1>1, NoneIsNoId DEF Facts, Debts, TablesOK
  <1>3. IsLive(settlement, s) /\ settlement[s].amount > 0
    BY <1>1, <1>2 DEF Told, IsLive
  <1>4. \A t \in Settlements : t # s /\ settlement[t] # None => SameProgress(t)
    <2> SUFFICES ASSUME NEW t \in Settlements, t # s, settlement[t] # None
                 PROVE  SameProgress(t)
      OBVIOUS
    <2>1. settlement[t].crewDeductionId # d
      BY <1>1, <1>2 DEF Facts, Debts
    <2>2. settlement[t].status = "CARRIED_TO_PAYOUT" =>
            settlement[t].crewDeductionId \in Deductions
      BY DEF Facts, Debts, Told, TablesOK, SettlementRow
    <2> QED BY <2>1, <2>2 DEF SameProgress, Slices
  <1>5. \/ ProgressOf(s)' = ProgressOf(s)
        \/ <<ProgressOf(s), ProgressOf(s)'>> \in Clearing
    <2>1. CASE settlement[s].status # "CARRIED_TO_PAYOUT"
      BY <2>1 DEF ProgressOf
    <2>2. CASE settlement[s].status = "CARRIED_TO_PAYOUT"
      <3>1. ProgressOf(s) = IF crewDeduction[d].paid > 0 THEN "recovering"
                            ELSE IF crewDeduction[d].due > 0 THEN "sliced" ELSE "carried"
        BY <1>1, <2>2 DEF ProgressOf
      <3>2. ProgressOf(s)' = IF m > 0 THEN "recovering" ELSE IF n > 0 THEN "sliced" ELSE "carried"
        BY <1>1, <2>2 DEF ProgressOf, Slices
      <3> QED BY <1>2, <3>1, <3>2 DEF Clearing, DeductionRow
    <2> QED BY <2>1, <2>2
  <1> QED BY <1>3, <1>4, <1>5, BalanceMoves DEF Facts

LEMMA PayoutMoves ==
    ASSUME NEW h \in Handlers, TablesOK, TablesOK', OneLive, Facts, Sound(job[h]), Ready(job[h]),
           CommitSlice(h) \/ \E d \in Deductions : PaySlices(h, d) \/ DropSlices(h, d)
    PROVE  BookMoves
  <1>1. UNCHANGED <<liquidation, settlement>>
    BY DEF CommitSlice, PaySlices, DropSlices
  <1>2. \E d \in Deductions, n, m \in Nat :
          /\ crewDeduction[d] # None /\ crewDeduction[d].live = TRUE
          /\ Slices(d, n, m)
          /\ \/ m = crewDeduction[d].paid
             \/ m > 0 /\ crewDeduction[d].due > 0
    BY PayoutSlices
  <1> QED BY <1>1, <1>2, SlicesMove

\* A refresh writes the stored totals, which are not part of the book.
LEMMA RefreshMoves ==
    ASSUME NEW h \in Handlers, TablesOK, TablesOK', OneLive, Sound(job[h]), RefreshWrite(h)
    PROVE  BookMoves
  <1>1. PICK a, n, m : liquidation' = [liquidation EXCEPT ![a].totalAllowance = n,
                                                          ![a].totalLiquidated = m]
    BY DEF RefreshWrite
  <1>2. \A b \in Liquidations : /\ liquidation'[b].row = liquidation[b].row
                                /\ liquidation'[b].status = liquidation[b].status
    BY <1>1 DEF TablesOK, LiquidationRow
  <1>3. UNCHANGED <<settlement, crewDeduction>>
    BY DEF RefreshWrite
  <1> QED BY <1>2, <1>3, BookUntouched

LEMMA HandlerMoves ==
    ASSUME NEW h \in Handlers, Safe, TablesOK', Facts, Ready(job[h]),
           \/ RefreshStep(h) \/ LineStep(h) \/ StatusStep(h) \/ AccountStep(h)
           \/ AllowanceStep(h) \/ RequestStep(h) \/ SettlementStep(h) \/ PayoutStep(h)
           \/ ShipmentStep(h) \/ Crash(h)
    PROVE  BookMoves
  <1>1. TablesOK /\ Sound(job[h]) /\ Recorded /\ OneLive /\ Books /\ Debts
    BY DEF Safe, Typed, Recorded, Facts
  <1>2. CASE UNCHANGED <<liquidation, settlement, crewDeduction>>
    BY <1>1, <1>2, BookUntouched
  <1>3. CASE RefreshStep(h)
    <2>1. CASE RefreshWrite(h)
      BY <1>1, <2>1, RefreshMoves
    <2> QED BY <1>2, <1>3, <2>1 DEF RefreshStep, RefreshStatus, RefreshCompute, tables
  <1>4. CASE LineStep(h)
    BY <1>2, <1>4
       DEF LineStep, AddLine, UpdateLine, RemoveLine, InsertLine, PatchLine, DropLine, tables
  <1>5. CASE StatusStep(h)
    <2>1. CASE Submit(h) \/ ReturnToCrew(h)
      BY <1>1, <2>1, AccountStepMoves
    <2>2. CASE Approve(h)
      BY <1>1, <2>2, ApproveMoves
    <2>3. CASE Reverse(h)
      BY <1>1, <2>3, ReverseMoves
    <2>4. CASE ComputeSubmit(h) \/ ComputeApprove(h) \/ ApproveRolledBack(h)
      <3>1. UNCHANGED tables
        BY <2>4 DEF ComputeSubmit, ComputeApprove, Compute, ApproveRolledBack
      <3> QED BY <1>2, <3>1 DEF tables
    <2>5. ASSUME NEW a \in Liquidations,
                 LoadSubmit(h, a) \/ LoadReturn(h, a) \/ LoadApprove(h, a) \/ LoadReverse(h, a)
          PROVE  BookMoves
      <3>1. UNCHANGED tables
        BY <2>5 DEF LoadSubmit, LoadReturn, LoadApprove, Load, LoadReverse
      <3> QED BY <1>2, <3>1 DEF tables
    <2> QED BY <1>5, <2>1, <2>2, <2>3, <2>4, <2>5 DEF StatusStep
  <1>6. CASE AccountStep(h)
    <2>1. CASE Remove(h) \/ \E a \in Liquidations : OpenAccount(h, a)
      BY <1>1, <2>1, AccountStepMoves
    <2> QED BY <1>2, <1>6, <2>1 DEF AccountStep, LoadRemove, tables
  <1>7. CASE AllowanceStep(h)
    BY <1>2, <1>7
       DEF AllowanceStep, Issue, UpdateAllowance, RemoveAllowance, InsertAllowance,
           PatchAllowance, DropAllowance, tables
  <1>8. CASE RequestStep(h)
    BY <1>2, <1>8
       DEF RequestStep, CreateRequest, UpdateRequest, LoadApproveRequest, LoadDecline,
           LoadWithdraw, InsertRequest, PatchRequest, ApproveRequest, ApproveRequestRolledBack,
           Decline, Withdraw, tables
  <1>9. CASE SettlementStep(h)
    BY <1>1, <1>2, <1>9, RecordMoves, CarryMoves, ClearMoves
       DEF SettlementStep, LoadRecord, LoadCarry, LoadClear, CarryRolledBack, tables
  <1>10. CASE PayoutStep(h)
    BY <1>1, <1>2, <1>10, PayoutMoves DEF PayoutStep, TakeSlice, tables
  <1>11. CASE ShipmentStep(h)
    BY <1>2, <1>11
       DEF ShipmentStep, LoadRebill, LoadUnrebill, Rebill, Unrebill, LoadComplete, Complete, tables
  <1>12. CASE Crash(h)
    BY <1>2, <1>12 DEF Crash, tables
  <1> QED BY <1>3, <1>4, <1>5, <1>6, <1>7, <1>8, <1>9, <1>10, <1>11, <1>12

LEMMA BookInit == Init => Book!Init
  <1> SUFFICES ASSUME Init PROVE Book!Init
    OBVIOUS
  <1>1. \A a \in Liquidations : Standing(a) \in {"none", "PENDING"}
    BY DEF Init, NoAccount, Standing
  <1>2. \A a \in Liquidations : BalanceOf(a) = None
    BY DEF Init, NoAccount, BalanceOf, LiveSettlement, LiveOn, IsLive
  <1> QED BY <1>1, <1>2 DEF Book!Init

LEMMA BookNext ==
    ASSUME OneAtATime
    PROVE  Safe /\ Alone /\ [Next]_vars =>
              [Book!Next]_<<[a \in Liquidations |-> Standing(a)],
                            [a \in Liquidations |-> BalanceOf(a)]>>
  <1> SUFFICES ASSUME Safe, Alone, [Next]_vars
               PROVE  [Book!Next]_<<[a \in Liquidations |-> Standing(a)],
                                    [a \in Liquidations |-> BalanceOf(a)]>>
    OBVIOUS
  <1>1. TablesOK /\ TablesOK' /\ OneLive /\ Facts
    BY SafeNext DEF Safe, Typed, Recorded, Alone
  <1>2. BookMoves
    <2>1. CASE UNCHANGED vars
      BY <1>1, <2>1, BookUntouched DEF vars, tables
    <2>2. CASE Next
      <3>1. PICK h \in Handlers :
              \/ RefreshStep(h) \/ LineStep(h) \/ StatusStep(h) \/ AccountStep(h)
              \/ AllowanceStep(h) \/ RequestStep(h) \/ SettlementStep(h) \/ PayoutStep(h)
              \/ ShipmentStep(h) \/ Crash(h)
        BY <2>2 DEF Next
      <3> QED BY <1>1, <3>1, HandlerMoves DEF Alone
    <2> QED BY <2>1, <2>2
  <1>3. BookStands => UNCHANGED <<[a \in Liquidations |-> Standing(a)],
                                  [a \in Liquidations |-> BalanceOf(a)]>>
    BY DEF BookStands, SameEntry
  <1> QED BY <1>2, <1>3 DEF BookMoves

\* While requests do not overlap, the eight tables keep accounting's book: read
\* through Standing and BalanceOf, every step of every handler, crashes
\* included, opens, submits, returns, removes, approves or unapproves one
\* account, moves the clearing of one balance on, or changes nothing there.
THEOREM TablesKeepTheBook ==
    ASSUME OneAtATime
    PROVE  Spec => KeepsTheBook
  <1> QED BY BookInit, BookNext, SpecAlone, PTL DEF Spec, KeepsTheBook, Book!Spec

\* What AccountBook assumes of its constants holds of what they stand for here.
LEMMA BookConstants ==
    Variances \subseteq Int /\ None \notin [amount : Variances, progress : Book!Progress]
  <1>1. \A S \in SUBSET Allowances :
           \A f \in [S -> Amounts] : SumFunctionOnSet(f, S) \in Nat
    BY SumsAreNaturals
  <1>2. \A S \in SUBSET Lines : \A f \in [S -> Amounts] : SumFunctionOnSet(f, S) \in Nat
    BY SumsAreNaturals
  <1>3. Sums(Allowances) \subseteq Nat /\ Sums(Lines) \subseteq Nat
    BY <1>1, <1>2 DEF Sums
  <1>4. Variances \subseteq Int
    BY <1>3 DEF Variances
  <1> QED BY <1>4, NoneIsNoEntry

\* What AccountBook promises of its accounts the tables keep, as they implement
\* it: exactly the approved accounts owe, and a balance of which money has moved
\* keeps its amount and is cleared or goes on being recovered.
THEOREM BookPromisesAreKept ==
    ASSUME OneAtATime
    PROVE  Spec => []Book!OwedWhileApproved /\ Book!MovedIsForGood
  <1>1. Book!VariancesAreIntegers /\ Book!NoneIsNoBalance
    BY BookConstants DEF Book!VariancesAreIntegers, Book!NoneIsNoBalance, Book!Balance
  <1>2. Book!Spec => []Book!OwedWhileApproved
    BY <1>1, Book!ApprovedOwe
  <1>3. Book!Spec => Book!MovedIsForGood
    BY <1>1, Book!MovedStands
  <1> QED BY <1>2, <1>3, TablesKeepTheBook DEF KeepsTheBook
=============================================================================

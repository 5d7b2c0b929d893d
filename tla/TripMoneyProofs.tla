--------------------------- MODULE TripMoneyProofs --------------------------
(***************************************************************************)
(* What TripMoney keeps true of a trip's money for any number of requests  *)
(* in flight, by induction over its steps.  The shape is that of           *)
(* TripCashProofs: Sound says what the next statement of a handler rests   *)
(* on, RowsStay that no step takes it away, and Takes(h) what a step of h  *)
(* does.                                                                   *)
(*                                                                         *)
(* LedgersStand needs two facts about handlers: the figures one carries    *)
(* were computed together, so writing them late does not tear them apart;  *)
(* and a row one has loaded is still a row, with a verdict that is signed. *)
(***************************************************************************)
EXTENDS TripMoney, TLAPS

AddsUp(c) ==
    /\ c.net = c.gross - c.cut
    /\ c.percent # None => c.cut = PercentOf(c.gross, c.percent)
    /\ c.net >= 0

GoodShipment(s) ==
    /\ s \in ShipmentRow
    /\ AddsUp(s)
    /\ s.cutPaid # None => Signed(s.cutPaid)
GoodCharge(r) == r \in ChargeRow /\ Signed(r.stamp)
GoodPayment(r) == r \in PaymentRow /\ Signed(r.stamp)

TablesOK ==
    /\ GoodShipment(shipment)
    /\ charge \in [Charges -> ChargeRow \cup {None}]
    /\ \A c \in Charges : charge[c] # None => GoodCharge(charge[c])
    /\ payment \in [Payments -> PaymentRow \cup {None}]
    /\ \A p \in Payments : payment[p] # None => GoodPayment(payment[p])
    /\ commission \in CommissionRow \cup {None}
    /\ adjustment \in [Adjustments -> AdjustmentRow \cup {None}]
    /\ gasSetting \in GasRates

OnCharge == {"updateCharge", "removeCharge", "decideCharge"}
OnPayment == {"updatePayment", "removePayment", "decidePayment"}
OnAdjustment == {"updateAdjustment", "removeAdjustment"}

Sound(j) ==
    /\ j \in Job
    /\ j.do \in OnCharge => GoodCharge(charge[j.of])
    /\ j.do \in OnPayment => GoodPayment(payment[j.of])
    /\ j.do \in OnAdjustment => adjustment[j.of] \in AdjustmentRow
    /\ j.do = "correctRates" => AddsUp(j.chain)
    /\ j.do = "editBooking" /\ j.chain # Unsaid => AddsUp(j.chain)

RowsStay ==
    /\ \A c \in Charges : GoodCharge(charge[c]) => GoodCharge(charge'[c])
    /\ \A p \in Payments : GoodPayment(payment[p]) => GoodPayment(payment'[p])
    /\ \A a \in Adjustments : adjustment[a] \in AdjustmentRow => adjustment'[a] \in AdjustmentRow

Takes(h) ==
    /\ TablesOK' /\ RowsStay
    /\ \E j : Sound(j) /\ j.do # "off" /\ job' = [job EXCEPT ![h] = j]

Inv ==
    /\ TablesOK
    /\ job \in [Handlers -> Job]
    /\ \A h \in Handlers : Sound(job[h])

-----------------------------------------------------------------------------
(* Handlers. *)

\* What each request carries.
LEMMA JobShapes ==
    ASSUME NEW j \in Job
    PROVE  /\ j.do = "addCharge" => j.by \in Users /\ j.put \in ChargeInput
           /\ j.do = "updateCharge" => j.by \in Users /\ j.of \in Charges /\ j.put \in ChargePatch
           /\ j.do = "removeCharge" => j.of \in Charges
           /\ j.do = "decideCharge" =>
                 j.by \in Accounting /\ j.of \in Charges /\ j.to \in {"VERIFIED", "RETURNED"}
           /\ j.do = "editBooking" =>
                 /\ j.client \in Clients \cup {Unsaid}
                 /\ j.broker \in Brokers \cup {None, Unsaid}
                 /\ j.chain \in Chain \cup {Unsaid}
                 /\ j.moved \in BOOLEAN
           /\ j.do = "correctRates" => j.broker \in Brokers \cup {None} /\ j.chain \in Chain
           /\ j.do = "overrideGas" => j.gas \in GasRates \cup {None}
           /\ j.do = "markCutPaid" => j.by \in Users
           /\ j.do = "decideCut" => j.by \in Accounting /\ j.to \in {"VERIFIED", "RETURNED"}
           /\ j.do = "recordPayment" => j.by \in Users /\ j.amount \in Amounts
           /\ j.do = "updatePayment" =>
                 j.by \in Users /\ j.of \in Payments /\ j.amount \in Amounts \cup {Unsaid}
           /\ j.do = "removePayment" => j.of \in Payments
           /\ j.do = "decidePayment" =>
                 j.by \in Accounting /\ j.of \in Payments /\ j.to \in {"VERIFIED", "RETURNED"}
           /\ j.do = "compute" => j.basis \in Basis
           /\ j.do = "addAdjustment" => j.amount \in Amounts
           /\ j.do = "updateAdjustment" => j.of \in Adjustments /\ j.amount \in Amounts
           /\ j.do = "removeAdjustment" => j.of \in Adjustments
           /\ j.do = "transition" => j.to \in TripStatus
<1>1. CASE j \in ChargeJob
  BY <1>1 DEF ChargeJob
<1>2. CASE j \in RateJob
  BY <1>2 DEF RateJob
<1>3. CASE j \in PaymentJob
  BY <1>3 DEF PaymentJob
<1>4. CASE j \in PayJob
  BY <1>4 DEF PayJob
<1>5. CASE j \in MoveJob \cup {Idle, Off}
  BY <1>5 DEF MoveJob, Idle, Off
<1> QED BY <1>1, <1>2, <1>3, <1>4, <1>5 DEF Job

LEMMA IdleIsSound == Sound(Idle) /\ Idle.do # "off"
  BY DEF Sound, Idle, Job, OnCharge, OnPayment, OnAdjustment

LEMMA SoundStays ==
    ASSUME NEW j, Sound(j), RowsStay
    PROVE  Sound(j)'
<1>1. j \in Job
  BY DEF Sound
<1>2. j.do \in OnCharge => j.of \in Charges
  BY <1>1, JobShapes DEF OnCharge
<1>3. j.do \in OnPayment => j.of \in Payments
  BY <1>1, JobShapes DEF OnPayment
<1>4. j.do \in OnAdjustment => j.of \in Adjustments
  BY <1>1, JobShapes DEF OnAdjustment
<1> QED BY <1>2, <1>3, <1>4 DEF Sound, RowsStay

LEMMA TakesKeepsInv ==
    ASSUME Inv, NEW h \in Handlers, Takes(h)
    PROVE  Inv'
<1>1. PICK j : Sound(j) /\ job' = [job EXCEPT ![h] = j]
  BY DEF Takes
<1>2. RowsStay /\ TablesOK'
  BY DEF Takes
<1>3. Sound(j)' /\ j \in Job
  BY <1>1, <1>2, SoundStays DEF Sound
<1>4. \A k \in Handlers : job'[k] = IF k = h THEN j ELSE job[k]
  BY <1>1 DEF Inv
<1>5. \A k \in Handlers : Sound(job[k])'
  BY <1>1, <1>2, <1>4, SoundStays DEF Inv
<1>6. job' \in [Handlers -> Job]
  BY <1>1, <1>3 DEF Inv
<1> QED BY <1>2, <1>5, <1>6 DEF Inv

\* A request that is taken reads, and writes nothing.
LEMMA AcceptedTakes ==
    ASSUME Inv, NEW h \in Handlers, NEW j, Sound(j), j.do # "off", Accept(h, j)
    PROVE  Takes(h)
  BY DEF Accept, Takes, Inv, TablesOK, RowsStay, tables

LEMMA RefusedTakes ==
    ASSUME Inv, NEW h \in Handlers, Done(h), UNCHANGED tables
    PROVE  Takes(h)
  BY IdleIsSound, AcceptedTakes DEF Done, Accept

-----------------------------------------------------------------------------
(* Writes: one row at a time. *)

LEMMA ShipmentWritten ==
    ASSUME Inv, NEW h \in Handlers, NEW s, GoodShipment(s), PutShipment(h, s)
    PROVE  Takes(h)
  BY IdleIsSound DEF PutShipment, Done, Takes, Inv, TablesOK, RowsStay

LEMMA ChargeWritten ==
    ASSUME Inv, NEW h \in Handlers, NEW c \in Charges, NEW r, GoodCharge(r),
           charge' = [charge EXCEPT ![c] = r], Done(h),
           UNCHANGED <<shipment, payment, commission, adjustment, gasSetting>>
    PROVE  Takes(h)
<1>1. /\ charge' \in [Charges -> ChargeRow \cup {None}]
      /\ \A k \in Charges : charge'[k] = IF k = c THEN r ELSE charge[k]
  BY DEF Inv, TablesOK, GoodCharge
<1>2. RowsStay
  BY <1>1 DEF RowsStay
<1>3. TablesOK'
  BY <1>1 DEF Inv, TablesOK
<1> QED BY <1>2, <1>3, IdleIsSound DEF Takes, Done

LEMMA PaymentWritten ==
    ASSUME Inv, NEW h \in Handlers, NEW p \in Payments, NEW r, GoodPayment(r),
           WritePayment(h, p, r)
    PROVE  Takes(h)
<1>1. /\ payment' \in [Payments -> PaymentRow \cup {None}]
      /\ \A k \in Payments : payment'[k] = IF k = p THEN r ELSE payment[k]
  BY DEF Inv, TablesOK, GoodPayment, WritePayment
<1>2. RowsStay
  BY <1>1 DEF RowsStay, WritePayment
<1>3. TablesOK'
  BY <1>1 DEF Inv, TablesOK, WritePayment
<1> QED BY <1>2, <1>3, IdleIsSound DEF Takes, Done, WritePayment

LEMMA AdjustmentWritten ==
    ASSUME Inv, NEW h \in Handlers, NEW a \in Adjustments, NEW r \in AdjustmentRow,
           PutAdjustment(h, a, r)
    PROVE  Takes(h)
<1>1. /\ adjustment' \in [Adjustments -> AdjustmentRow \cup {None}]
      /\ \A k \in Adjustments : adjustment'[k] = IF k = a THEN r ELSE adjustment[k]
  BY DEF Inv, TablesOK, PutAdjustment
<1>2. RowsStay
  BY <1>1 DEF RowsStay, PutAdjustment
<1>3. TablesOK'
  BY <1>1 DEF Inv, TablesOK, PutAdjustment
<1> QED BY <1>2, <1>3, IdleIsSound DEF Takes, Done, PutAdjustment

-----------------------------------------------------------------------------
(* Verdicts: whoever gives one is of accounting. *)

LEMMA WritesAreSigned ==
    ASSUME NEW u \in Users
    PROVE  VerificationOnWriteBy(u) \in Verification /\ Signed(VerificationOnWriteBy(u))
  BY DEF VerificationOnWriteBy, Verification, Verified, Unverified, VerificationStatus, Signed

LEMMA VerdictsSigned ==
    ASSUME NEW u \in Accounting, NEW to \in {"VERIFIED", "RETURNED"}
    PROVE  LET v == [status |-> to, by |-> u] IN v \in Verification /\ Signed(v)
  BY AccountingAreUsers DEF Verification, VerificationStatus, Signed, MayVerify

-----------------------------------------------------------------------------
(* Charges. *)

LEMMA ChargeTakes ==
    ASSUME Inv, NEW h \in Handlers, ChargeStep(h)
    PROVE  Takes(h)
<1> DEFINE j == job[h]
<1>0. j \in Job /\ Sound(j)
  BY DEF Inv
<1>1. ASSUME NEW u \in Users, NEW put \in ChargeInput, LoadAddCharge(h, u, put) PROVE Takes(h)
  <2>1. Sound([do |-> "addCharge", by |-> u, put |-> put])
    BY DEF Sound, Job, ChargeJob, OnCharge, OnPayment, OnAdjustment
  <2> QED BY <1>1, <2>1, AcceptedTakes DEF LoadAddCharge
<1>2. ASSUME NEW c \in Live(charge) PROVE c \in Charges /\ GoodCharge(charge[c])
  BY <1>2 DEF Live, Exists, Inv, TablesOK
<1>3. ASSUME NEW u \in Users, NEW c \in Charges, NEW put \in ChargePatch,
             LoadUpdateCharge(h, u, c, put)
      PROVE  Takes(h)
  <2>1. c \in Live(charge)
    BY <1>3 DEF LoadUpdateCharge, MayAlterCharge
  <2>2. Sound([do |-> "updateCharge", by |-> u, of |-> c, put |-> put])
    BY <1>2, <2>1 DEF Sound, Job, ChargeJob, OnCharge, OnPayment, OnAdjustment
  <2> QED BY <1>3, <2>2, AcceptedTakes DEF LoadUpdateCharge
<1>4. ASSUME NEW u \in Users, NEW c \in Charges, LoadRemoveCharge(h, u, c) PROVE Takes(h)
  <2>1. c \in Live(charge)
    BY <1>4 DEF LoadRemoveCharge, MayAlterCharge
  <2>2. Sound([do |-> "removeCharge", by |-> u, of |-> c])
    BY <1>2, <2>1 DEF Sound, Job, ChargeJob, OnCharge, OnPayment, OnAdjustment
  <2> QED BY <1>4, <2>2, AcceptedTakes DEF LoadRemoveCharge
<1>5. ASSUME NEW u \in Users, NEW c \in Charges,
             LoadApproveCharge(h, u, c) \/ LoadReturnCharge(h, u, c)
      PROVE  Takes(h)
  <2>1. c \in Live(charge) /\ u \in Accounting
    BY <1>5 DEF LoadApproveCharge, LoadReturnCharge, MayVerify
  <2>2. ASSUME NEW to \in {"VERIFIED", "RETURNED"}
        PROVE  Sound([do |-> "decideCharge", by |-> u, of |-> c, to |-> to])
    BY <1>2, <2>1 DEF Sound, Job, ChargeJob, OnCharge, OnPayment, OnAdjustment
  <2> QED BY <1>5, <2>2, AcceptedTakes DEF LoadApproveCharge, LoadReturnCharge
<1>6. ASSUME NEW c \in Charges, AddCharge(h, c) PROVE Takes(h)
  <2> DEFINE row == [billed |-> j.put.billed, commissionable |-> j.put.commissionable,
                     stamp |-> VerificationOnWriteBy(j.by), live |-> TRUE, after |-> FALSE]
             new == [row EXCEPT !.after = Computed]
  <2>1. j.by \in Users /\ j.put \in ChargeInput
    BY <1>0, <1>6, JobShapes DEF AddCharge, At
  <2>2. GoodCharge(new)
    BY <2>1, WritesAreSigned DEF GoodCharge, ChargeRow, ChargeInput, Computed
  <2>3. WriteCharge(h, c, row)
    BY <1>6 DEF AddCharge
  <2> QED BY <2>2, <2>3, ChargeWritten DEF WriteCharge
<1>7. CASE UpdateCharge(h)
  <2> DEFINE row == [charge[j.of] EXCEPT !.billed = Named(j.put.billed, @),
                                         !.commissionable = ParsedCommissionable(j.put),
                                         !.stamp = VerificationOnWriteBy(j.by)]
             new == [row EXCEPT !.after = Computed]
  <2>1. j.do = "updateCharge" /\ j.by \in Users /\ j.of \in Charges /\ j.put \in ChargePatch
    BY <1>0, <1>7, JobShapes DEF UpdateCharge, At
  <2>2. charge[j.of] \in ChargeRow
    BY <1>0, <2>1 DEF Sound, OnCharge, GoodCharge
  <2>3. /\ Named(j.put.billed, charge[j.of].billed) \in Amounts
        /\ ParsedCommissionable(j.put) \in BOOLEAN
    BY <2>1, <2>2 DEF Named, ParsedCommissionable, ChargePatch, ChargeRow
  <2>4. GoodCharge(new)
    BY <2>1, <2>2, <2>3, WritesAreSigned DEF GoodCharge, ChargeRow, Computed
  <2>5. WriteCharge(h, j.of, row)
    BY <1>7 DEF UpdateCharge
  <2> QED BY <2>1, <2>4, <2>5, ChargeWritten DEF WriteCharge
<1>8. CASE RemoveCharge(h)
  <2>1. j.do = "removeCharge" /\ j.of \in Charges
    BY <1>0, <1>8, JobShapes DEF RemoveCharge, At
  <2>2. GoodCharge(charge[j.of])
    BY <1>0, <2>1 DEF Sound, OnCharge
  <2> DEFINE row == [charge[j.of] EXCEPT !.live = FALSE]
  <2>3. GoodCharge(row)
    BY <2>2 DEF GoodCharge, ChargeRow
  <2>4. charge' = [charge EXCEPT ![j.of] = row]
    BY <1>8 DEF RemoveCharge, Without
  <2> QED BY <1>8, <2>1, <2>3, <2>4, ChargeWritten DEF RemoveCharge
<1>9. CASE DecideCharge(h)
  <2>1. /\ j.do = "decideCharge" /\ j.by \in Accounting /\ j.of \in Charges
        /\ j.to \in {"VERIFIED", "RETURNED"}
    BY <1>0, <1>9, JobShapes DEF DecideCharge, At
  <2>2. charge[j.of] \in ChargeRow
    BY <1>0, <2>1 DEF Sound, OnCharge, GoodCharge
  <2> DEFINE row == [charge[j.of] EXCEPT !.stamp = [status |-> j.to, by |-> j.by]]
             new == [row EXCEPT !.after = Computed]
  <2>3. GoodCharge(new)
    BY <2>1, <2>2, VerdictsSigned DEF GoodCharge, ChargeRow, Computed
  <2>4. WriteCharge(h, j.of, row)
    BY <1>9 DEF DecideCharge
  <2> QED BY <2>1, <2>3, <2>4, ChargeWritten DEF WriteCharge
<1>10. CASE ChargeCalled(h)
  BY <1>1, <1>3, <1>4, <1>5, <1>10 DEF ChargeCalled
<1>11. Billables \subseteq Charges /\ Additionals \subseteq Charges
  BY DEF Charges
<1> QED
  BY <1>6, <1>7, <1>8, <1>9, <1>10, <1>11
     DEF ChargeStep, AddBillableExpense, AddAdditionalCharge

-----------------------------------------------------------------------------
(* Rates: what computeRateChain returns adds up whatever was agreed, and is *)
(* written as it was returned.                                              *)

LEMMA PercentIsNatural ==
    ASSUME NEW gross \in Nat, NEW percent \in Nat
    PROVE  PercentOf(gross, percent) \in Nat
<1>1. gross * percent \in Nat
  BY SMT
<1> DEFINE m == gross * percent
<1>2. m \in Nat
  BY <1>1
<1> HIDE DEF m
<1>3. (m + 50) \div 100 \in Nat
  BY <1>2
<1> QED BY <1>3 DEF PercentOf, m

\* What PercentOf returns is the nearest centavo, ties upwards.
LEMMA PercentIsNearest ==
    ASSUME NEW gross \in Nat, NEW percent \in Nat
    PROVE  NearestCentavo(PercentOf(gross, percent), gross * percent)
<1> DEFINE m == gross * percent
<1>1. m \in Nat
  BY SMT
<1> HIDE DEF m
<1>2. NearestCentavo((m + 50) \div 100, m)
  BY <1>1 DEF NearestCentavo
<1> QED BY <1>2 DEF PercentOf, m

LEMMA ChainAddsUp ==
    ASSUME NEW gross \in GrossRates, NEW percent \in Percents \cup {None}, NEW flat,
           flat # None => flat \in Nat,
           NetRateIsSane(ComputeRateChain(gross, percent, flat))
    PROVE  /\ ComputeRateChain(gross, percent, flat) \in Chain
           /\ AddsUp(ComputeRateChain(gross, percent, flat))
<1>1. gross \in Nat /\ (percent # None => percent \in Nat)
  BY AmountsAreNatural
<1>2. CutOf(gross, percent, flat) \in Nat
  BY <1>1, PercentIsNatural DEF CutOf
<1> DEFINE cut == CutOf(gross, percent, flat)
<1>3. percent # None => cut = PercentOf(gross, percent)
  BY DEF CutOf
<1> HIDE DEF cut
<1>4. ComputeRateChain(gross, percent, flat)
      = [gross |-> gross, percent |-> percent, cut |-> cut, net |-> gross - cut]
  BY DEF ComputeRateChain, cut
<1>5. cut \in Nat
  BY <1>2 DEF cut
<1> QED BY <1>1, <1>3, <1>4, <1>5 DEF Chain, AddsUp, NetRateIsSane

\* Writing a chain that adds up keeps the row's rates whole.
LEMMA PricedIsGood ==
    ASSUME NEW s, GoodShipment(s), NEW chain \in Chain, AddsUp(chain)
    PROVE  GoodShipment(Priced(s, chain))
<1>1. s \in ShipmentRow /\ (s.cutPaid # None => Signed(s.cutPaid))
  BY DEF GoodShipment
<1>2. /\ Priced(s, chain) \in ShipmentRow
      /\ Priced(s, chain).gross = chain.gross
      /\ Priced(s, chain).percent = chain.percent
      /\ Priced(s, chain).cut = chain.cut
      /\ Priced(s, chain).net = chain.net
      /\ Priced(s, chain).cutPaid = s.cutPaid
  BY <1>1 DEF Priced, ShipmentRow, Chain
<1> QED BY <1>1, <1>2 DEF GoodShipment, AddsUp

LEMMA EditLoadTakes ==
    ASSUME Inv, NEW h \in Handlers, NEW client \in Clients \cup {Unsaid}, NEW put \in Deal,
           LoadEditBooking(h, client, put)
    PROVE  Takes(h)
<1>1. shipment \in ShipmentRow
  BY DEF Inv, TablesOK, GoodShipment
<1> DEFINE chain == IF TouchesRates(put) THEN EditedChain(put) ELSE Unsaid
           j == [do |-> "editBooking", client |-> client, broker |-> put.broker,
                 chain |-> chain, moved |-> ScopeMoves(client)]
<1>2. ASSUME TouchesRates(put) PROVE chain \in Chain /\ AddsUp(chain)
  <2> DEFINE gross == Named(put.gross, shipment.gross)
             flat == IF Given(put.flat) THEN put.flat ELSE shipment.cut
  <2>1. gross \in GrossRates
    BY <1>1 DEF Named, Deal, ShipmentRow
  <2>2. Percent(put) \in Percents \cup {None}
    BY <1>1 DEF Percent, Named, Deal, ShipmentRow
  <2>3. flat # None => flat \in Nat
    BY <1>1, AmountsAreNatural DEF Given, Deal, ShipmentRow
  <2>4. NetRateIsSane(EditedChain(put))
    BY <1>2 DEF LoadEditBooking
  <2>5. EditedChain(put) = ComputeRateChain(gross, Percent(put), flat)
    BY DEF EditedChain
  <2> HIDE DEF gross, flat
  <2>6. EditedChain(put) \in Chain /\ AddsUp(EditedChain(put))
    BY <2>1, <2>2, <2>3, <2>4, <2>5, ChainAddsUp
  <2> QED BY <1>2, <2>6
<1>3. chain # Unsaid => chain \in Chain /\ AddsUp(chain)
  BY <1>2
<1>4. Accept(h, j)
  BY DEF LoadEditBooking
<1>5. put.broker \in Brokers \cup {None, Unsaid} /\ ScopeMoves(client) \in BOOLEAN
  BY DEF Deal, ScopeMoves
<1> HIDE DEF chain
<1>6. Sound(j)
  BY <1>3, <1>5 DEF Sound, Job, RateJob, OnCharge, OnPayment, OnAdjustment
<1> QED BY <1>4, <1>6, AcceptedTakes

LEMMA CorrectLoadTakes ==
    ASSUME Inv, NEW h \in Handlers, NEW put \in Deal, LoadCorrectRates(h, put)
    PROVE  Takes(h)
<1>1. shipment \in ShipmentRow
  BY DEF Inv, TablesOK, GoodShipment
<1> DEFINE chain == CorrectedChain(put)
           gross == Named(put.gross, shipment.gross)
           j == [do |-> "correctRates", broker |-> Broker(put), chain |-> chain]
<1>2. gross \in GrossRates
  BY <1>1 DEF Named, Deal, ShipmentRow
<1>3. NewPercent(put) \in Percents \cup {None}
  BY <1>1 DEF NewPercent, Named, Deal, ShipmentRow
<1>4. NewFlat(put) # None => NewFlat(put) \in Nat
  BY <1>1, AmountsAreNatural DEF NewFlat, Named, Deal, ShipmentRow
<1>5. NetRateIsSane(chain) /\ Accept(h, j)
  BY DEF LoadCorrectRates
<1>6. chain = ComputeRateChain(gross, NewPercent(put), NewFlat(put))
  BY DEF CorrectedChain
<1>7. Broker(put) \in Brokers \cup {None}
  BY <1>1 DEF Broker, Named, Deal, ShipmentRow
<1> HIDE DEF chain, gross
<1>8. chain \in Chain /\ AddsUp(chain)
  BY <1>2, <1>3, <1>4, <1>5, <1>6, ChainAddsUp
<1>9. Sound(j)
  BY <1>7, <1>8 DEF Sound, Job, RateJob, OnCharge, OnPayment, OnAdjustment
<1> QED BY <1>5, <1>9, AcceptedTakes

\* A write of the trip that leaves the four columns of the rate chain alone.
LEMMA CutPaidWritten ==
    ASSUME Inv, NEW h \in Handlers, NEW v \in Verification \cup {None},
           v # None => Signed(v), PutShipment(h, [shipment EXCEPT !.cutPaid = v])
    PROVE  Takes(h)
<1>1. shipment \in ShipmentRow /\ AddsUp(shipment)
  BY DEF Inv, TablesOK, GoodShipment
<1> DEFINE s == [shipment EXCEPT !.cutPaid = v]
<1>2. /\ s \in ShipmentRow /\ s.cutPaid = v
      /\ s.gross = shipment.gross /\ s.percent = shipment.percent
      /\ s.cut = shipment.cut /\ s.net = shipment.net
  BY <1>1 DEF ShipmentRow
<1>3. GoodShipment(s)
  BY <1>1, <1>2 DEF GoodShipment, AddsUp
<1> HIDE DEF s
<1>4. PutShipment(h, s)
  BY DEF s
<1> QED BY <1>3, <1>4, ShipmentWritten

LEMMA RateTakes ==
    ASSUME Inv, NEW h \in Handlers, RateStep(h)
    PROVE  Takes(h)
<1> DEFINE j == job[h]
<1>0. j \in Job /\ Sound(j) /\ job \in [Handlers -> Job]
  BY DEF Inv
<1>1. /\ GoodShipment(shipment) /\ shipment \in ShipmentRow /\ AddsUp(shipment)
      /\ shipment.cutPaid # None => Signed(shipment.cutPaid)
  BY DEF Inv, TablesOK, GoodShipment
<1>2. ASSUME NEW gas \in GasRates \cup {None}, LoadOverrideGas(h, gas) PROVE Takes(h)
  <2>1. Sound([do |-> "overrideGas", gas |-> gas])
    BY DEF Sound, Job, RateJob, OnCharge, OnPayment, OnAdjustment
  <2> QED BY <1>2, <2>1, AcceptedTakes DEF LoadOverrideGas
<1>3. ASSUME NEW gas \in GasRates, UpdateGasSetting(h, gas) PROVE Takes(h)
  <2>1. TablesOK' /\ RowsStay
    BY <1>3 DEF UpdateGasSetting, Inv, TablesOK, RowsStay
  <2>2. job' = [job EXCEPT ![h] = Idle]
    BY <1>0, <1>3 DEF UpdateGasSetting, Called
  <2> QED BY <2>1, <2>2, IdleIsSound DEF Takes
<1>4. ASSUME NEW u \in Users, LoadMarkCutPaid(h, u) \/ LoadUnmarkCut(h, u) PROVE Takes(h)
  <2>1. Sound([do |-> "markCutPaid", by |-> u]) /\ Sound([do |-> "unmarkCut", by |-> u])
    BY DEF Sound, Job, RateJob, OnCharge, OnPayment, OnAdjustment
  <2> QED BY <1>4, <2>1, AcceptedTakes DEF LoadMarkCutPaid, LoadUnmarkCut
<1>5. ASSUME NEW u \in Users, LoadVerifyCut(h, u) \/ LoadReturnCut(h, u) PROVE Takes(h)
  <2>1. u \in Accounting
    BY <1>5 DEF LoadVerifyCut, LoadReturnCut, MayVerify
  <2>2. ASSUME NEW to \in {"VERIFIED", "RETURNED"}
        PROVE  Sound([do |-> "decideCut", by |-> u, to |-> to])
    BY <2>1 DEF Sound, Job, RateJob, OnCharge, OnPayment, OnAdjustment
  <2> QED BY <1>5, <2>2, AcceptedTakes DEF LoadVerifyCut, LoadReturnCut
<1>6. CASE EditBooking(h)
  <2> DEFINE chain == Named(j.chain, CurrentChain)
             priced == Priced(shipment, chain)
             s == [priced EXCEPT !.client = Named(j.client, @), !.broker = Named(j.broker, @),
                                 !.moved = @ \/ j.moved]
  <2>1. /\ j.do = "editBooking" /\ j.client \in Clients \cup {Unsaid}
        /\ j.broker \in Brokers \cup {None, Unsaid}
        /\ j.chain \in Chain \cup {Unsaid} /\ j.moved \in BOOLEAN
    BY <1>0, <1>6, JobShapes DEF EditBooking, At
  <2>2. CurrentChain \in Chain /\ AddsUp(CurrentChain)
    BY <1>1 DEF CurrentChain, Chain, ShipmentRow, AddsUp
  <2>3. chain \in Chain /\ AddsUp(chain)
    BY <1>0, <2>1, <2>2 DEF Named, Sound
  <2> HIDE DEF chain
  <2>4. GoodShipment(priced)
    BY <1>1, <2>3, PricedIsGood
  <2> HIDE DEF priced
  <2>5. /\ Named(j.client, priced.client) \in Clients
        /\ Named(j.broker, priced.broker) \in Brokers \cup {None}
        /\ (priced.moved \/ j.moved) \in BOOLEAN
    BY <2>1, <2>4 DEF Named, GoodShipment, ShipmentRow
  <2>6. /\ s \in ShipmentRow /\ s.cutPaid = priced.cutPaid
        /\ s.gross = priced.gross /\ s.percent = priced.percent
        /\ s.cut = priced.cut /\ s.net = priced.net
    BY <2>4, <2>5 DEF GoodShipment, ShipmentRow
  <2>7. GoodShipment(s)
    BY <2>4, <2>6 DEF GoodShipment, AddsUp
  <2>8. PutShipment(h, s)
    BY <1>6 DEF EditBooking, priced, chain
  <2> HIDE DEF s
  <2> QED BY <2>7, <2>8, ShipmentWritten
<1>7. CASE CorrectRates(h)
  <2> DEFINE priced == Priced(shipment, j.chain)
             s == [priced EXCEPT !.broker = j.broker, !.moved = TRUE]
  <2>1. /\ j.do = "correctRates" /\ j.broker \in Brokers \cup {None} /\ j.chain \in Chain
        /\ AddsUp(j.chain)
    BY <1>0, <1>7, JobShapes DEF CorrectRates, At, Sound
  <2>2. GoodShipment(priced)
    BY <1>1, <2>1, PricedIsGood
  <2> HIDE DEF priced
  <2>3. /\ s \in ShipmentRow /\ s.cutPaid = priced.cutPaid
        /\ s.gross = priced.gross /\ s.percent = priced.percent
        /\ s.cut = priced.cut /\ s.net = priced.net
    BY <2>1, <2>2 DEF GoodShipment, ShipmentRow
  <2>4. GoodShipment(s)
    BY <2>2, <2>3 DEF GoodShipment, AddsUp
  <2>5. PutShipment(h, s)
    BY <1>7 DEF CorrectRates, priced
  <2> HIDE DEF s
  <2> QED BY <2>4, <2>5, ShipmentWritten
<1>8. CASE OverrideGas(h)
  <2> DEFINE s == [shipment EXCEPT !.gas = j.gas]
  <2>1. j.gas \in GasRates \cup {None}
    BY <1>0, <1>8, JobShapes DEF OverrideGas, At
  <2>2. /\ s \in ShipmentRow /\ s.cutPaid = shipment.cutPaid
        /\ s.gross = shipment.gross /\ s.percent = shipment.percent
        /\ s.cut = shipment.cut /\ s.net = shipment.net
    BY <1>1, <2>1 DEF ShipmentRow
  <2>3. GoodShipment(s)
    BY <1>1, <2>2 DEF GoodShipment, AddsUp
  <2>4. PutShipment(h, s)
    BY <1>8 DEF OverrideGas
  <2> HIDE DEF s
  <2> QED BY <2>3, <2>4, ShipmentWritten
<1>9. CASE MarkThirdPartyCommissionPaid(h)
  <2>1. j.by \in Users
    BY <1>0, <1>9, JobShapes DEF MarkThirdPartyCommissionPaid, At
  <2> QED BY <1>9, <2>1, WritesAreSigned, CutPaidWritten DEF MarkThirdPartyCommissionPaid
<1>10. CASE UnmarkThirdPartyCommissionPaid(h)
  BY <1>10, CutPaidWritten DEF UnmarkThirdPartyCommissionPaid
<1>11. CASE DecideCut(h)
  <2>1. j.by \in Accounting /\ j.to \in {"VERIFIED", "RETURNED"}
    BY <1>0, <1>11, JobShapes DEF DecideCut, At
  <2> QED BY <1>11, <2>1, VerdictsSigned, CutPaidWritten DEF DecideCut
<1>12. CASE DecideCutRefused(h)
  BY <1>12, RefusedTakes DEF DecideCutRefused
<1>13. CASE RateCalled(h)
  BY <1>2, <1>3, <1>4, <1>5, <1>13, EditLoadTakes, CorrectLoadTakes DEF RateCalled
<1> QED
  BY <1>6, <1>7, <1>8, <1>9, <1>10, <1>11, <1>12, <1>13 DEF RateStep

-----------------------------------------------------------------------------
(* Payments. *)

LEMMA PaymentTakes ==
    ASSUME Inv, NEW h \in Handlers, PaymentStep(h)
    PROVE  Takes(h)
<1> DEFINE j == job[h]
<1>0. j \in Job /\ Sound(j)
  BY DEF Inv
<1>1. ASSUME NEW p \in Live(payment) PROVE p \in Payments /\ GoodPayment(payment[p])
  BY <1>1 DEF Live, Exists, Inv, TablesOK
<1>2. ASSUME NEW u \in Users, NEW amount \in Amounts, LoadRecord(h, u, amount) PROVE Takes(h)
  <2>1. Sound([do |-> "recordPayment", by |-> u, amount |-> amount])
    BY DEF Sound, Job, PaymentJob, OnCharge, OnPayment, OnAdjustment
  <2> QED BY <1>2, <2>1, AcceptedTakes DEF LoadRecord
<1>3. ASSUME NEW u \in Users, NEW p \in Payments, NEW amount \in Amounts \cup {Unsaid},
             LoadUpdatePayment(h, u, p, amount)
      PROVE  Takes(h)
  <2>1. p \in Live(payment)
    BY <1>3 DEF LoadUpdatePayment, MayAlterPayment
  <2>2. Sound([do |-> "updatePayment", by |-> u, of |-> p, amount |-> amount])
    BY <1>1, <2>1 DEF Sound, Job, PaymentJob, OnCharge, OnPayment, OnAdjustment
  <2> QED BY <1>3, <2>2, AcceptedTakes DEF LoadUpdatePayment
<1>4. ASSUME NEW u \in Users, NEW p \in Payments, LoadRemovePayment(h, u, p) PROVE Takes(h)
  <2>1. p \in Live(payment)
    BY <1>4 DEF LoadRemovePayment, MayAlterPayment
  <2>2. Sound([do |-> "removePayment", by |-> u, of |-> p])
    BY <1>1, <2>1 DEF Sound, Job, PaymentJob, OnCharge, OnPayment, OnAdjustment
  <2> QED BY <1>4, <2>2, AcceptedTakes DEF LoadRemovePayment
<1>5. ASSUME NEW u \in Users, NEW p \in Payments,
             LoadVerifyPayment(h, u, p) \/ LoadReturnPayment(h, u, p)
      PROVE  Takes(h)
  <2>1. p \in Live(payment) /\ u \in Accounting
    BY <1>5 DEF LoadVerifyPayment, LoadReturnPayment, MayVerify
  <2>2. ASSUME NEW to \in {"VERIFIED", "RETURNED"}
        PROVE  Sound([do |-> "decidePayment", by |-> u, of |-> p, to |-> to])
    BY <1>1, <2>1 DEF Sound, Job, PaymentJob, OnCharge, OnPayment, OnAdjustment
  <2> QED BY <1>5, <2>2, AcceptedTakes DEF LoadVerifyPayment, LoadReturnPayment
<1>6. ASSUME NEW p \in Payments, RecordPayment(h, p) PROVE Takes(h)
  <2> DEFINE row == [amount |-> j.amount, live |-> TRUE, stamp |-> VerificationOnWriteBy(j.by)]
  <2>1. j.by \in Users /\ j.amount \in Amounts
    BY <1>0, <1>6, JobShapes DEF RecordPayment, At
  <2>2. GoodPayment(row)
    BY <2>1, WritesAreSigned DEF GoodPayment, PaymentRow
  <2> QED BY <1>6, <2>2, PaymentWritten DEF RecordPayment
<1>7. ASSUME j.do \in OnPayment PROVE j.of \in Payments /\ payment[j.of] \in PaymentRow /\ Signed(payment[j.of].stamp)
  BY <1>0, <1>7, JobShapes DEF Sound, OnPayment, GoodPayment
<1>8. CASE UpdatePayment(h)
  <2> DEFINE row == [payment[j.of] EXCEPT !.amount = Named(j.amount, @),
                                          !.stamp = VerificationOnWriteBy(j.by)]
  <2>1. j.do \in OnPayment /\ j.by \in Users /\ j.amount \in Amounts \cup {Unsaid}
    BY <1>0, <1>8, JobShapes DEF UpdatePayment, At, OnPayment
  <2>2. Named(j.amount, payment[j.of].amount) \in Amounts
    BY <1>7, <2>1 DEF Named, PaymentRow
  <2>3. GoodPayment(row)
    BY <1>7, <2>1, <2>2, WritesAreSigned DEF GoodPayment, PaymentRow
  <2>4. WritePayment(h, j.of, row)
    BY <1>8 DEF UpdatePayment
  <2> QED BY <1>7, <2>1, <2>3, <2>4, PaymentWritten
<1>9. CASE RemovePayment(h)
  <2> DEFINE row == [payment[j.of] EXCEPT !.live = FALSE]
  <2>1. j.do \in OnPayment
    BY <1>9 DEF RemovePayment, At, OnPayment
  <2>2. GoodPayment(row)
    BY <1>7, <2>1 DEF GoodPayment, PaymentRow
  <2>3. WritePayment(h, j.of, row)
    BY <1>9 DEF RemovePayment
  <2> QED BY <1>7, <2>1, <2>2, <2>3, PaymentWritten
<1>10. CASE DecidePayment(h)
  <2> DEFINE row == [payment[j.of] EXCEPT !.stamp = [status |-> j.to, by |-> j.by]]
  <2>1. j.do \in OnPayment /\ j.by \in Accounting /\ j.to \in {"VERIFIED", "RETURNED"}
    BY <1>0, <1>10, JobShapes DEF DecidePayment, At, OnPayment
  <2>2. GoodPayment(row)
    BY <1>7, <2>1, VerdictsSigned DEF GoodPayment, PaymentRow
  <2>3. WritePayment(h, j.of, row)
    BY <1>10 DEF DecidePayment
  <2> QED BY <1>7, <2>1, <2>2, <2>3, PaymentWritten
<1> QED
  BY <1>2, <1>3, <1>4, <1>5, <1>6, <1>8, <1>9, <1>10 DEF PaymentStep

-----------------------------------------------------------------------------
(* Pay: a computation and a payout write several rows in one transaction. *)

LEMMA ComputeLoadTakes ==
    ASSUME Inv, NEW h \in Handlers, LoadCompute(h)
    PROVE  Takes(h)
<1>1. shipment \in ShipmentRow /\ gasSetting \in GasRates
  BY DEF Inv, TablesOK, GoodShipment
<1>2. ASSUME NEW c \in Counted PROVE c \in Charges /\ charge[c].billed \in Amounts
  BY <1>2 DEF Counted, Live, Exists, Inv, TablesOK, GoodCharge, ChargeRow
<1>3. CommissionableCharges \in SUBSET (Charges \X Amounts)
  BY <1>2 DEF CommissionableCharges
<1>4. GasRate \in GasRates
  BY <1>1 DEF GasRate, ShipmentRow
<1>5. BasisNow \in Basis
  BY <1>1, <1>3, <1>4 DEF BasisNow, Basis, ShipmentRow
<1>6. Sound([do |-> "compute", basis |-> BasisNow])
  BY <1>5 DEF Sound, Job, PayJob, OnCharge, OnPayment, OnAdjustment
<1> QED BY <1>6, AcceptedTakes DEF LoadCompute

LEMMA ComputeTakes ==
    ASSUME Inv, NEW h \in Handlers, Compute(h)
    PROVE  Takes(h)
<1>1. job[h].basis \in Basis
  BY JobShapes DEF Inv, Compute, At
<1>2. commission' \in CommissionRow
  BY <1>1 DEF Compute, CommissionRow
<1>3. GoodShipment(shipment)'
  <2>1. shipment \in ShipmentRow /\ AddsUp(shipment) /\ (shipment.cutPaid # None => Signed(shipment.cutPaid))
    BY DEF Inv, TablesOK, GoodShipment
  <2>2. shipment' = [shipment EXCEPT !.moved = FALSE]
    BY DEF Compute
  <2>3. /\ shipment' \in ShipmentRow /\ shipment'.cutPaid = shipment.cutPaid
        /\ shipment'.gross = shipment.gross /\ shipment'.percent = shipment.percent
        /\ shipment'.cut = shipment.cut /\ shipment'.net = shipment.net
    BY <2>1, <2>2 DEF ShipmentRow
  <2> QED BY <2>1, <2>3 DEF GoodShipment, AddsUp
<1>4. ASSUME NEW c \in Charges, GoodCharge(charge[c])
      PROVE  GoodCharge([charge[c] EXCEPT !.after = FALSE])
  BY <1>4 DEF GoodCharge, ChargeRow
<1>5. charge' = [c \in Charges |-> IF charge[c] = None THEN None
                                   ELSE [charge[c] EXCEPT !.after = FALSE]]
  BY DEF Compute
<1>6. ASSUME NEW c \in Charges, charge'[c] # None PROVE GoodCharge(charge'[c])
  BY <1>4, <1>5, <1>6 DEF Inv, TablesOK
<1>7. ASSUME NEW c \in Charges, GoodCharge(charge[c]) PROVE GoodCharge(charge'[c])
  <2>1. CASE charge[c] = None
    BY <1>5, <1>7, <2>1
  <2>2. CASE charge[c] # None
    BY <1>4, <1>5, <1>7, <2>2
  <2> QED BY <2>1, <2>2
<1>8. charge' \in [Charges -> ChargeRow \cup {None}]
  BY <1>5, <1>6 DEF GoodCharge
<1>9. TablesOK'
  BY <1>2, <1>3, <1>6, <1>8 DEF Compute, Inv, TablesOK
<1>10. RowsStay
  BY <1>7 DEF Compute, RowsStay
<1> QED BY <1>9, <1>10, IdleIsSound DEF Compute, Done, Takes

LEMMA PayoutTakes ==
    ASSUME Inv, NEW h \in Handlers, PayoutStep(h)
    PROVE  Takes(h)
<1>1. PICK from \in {"none", "drafted"}, to \in {"none", "drafted", "paid"} : Vouchered(from, to)
  BY DEF PayoutStep
<1>2. commission' \in CommissionRow \cup {None}
  BY <1>1 DEF Vouchered, Computed, CommissionRow, Inv, TablesOK
<1>3. ASSUME NEW a \in Adjustments
      PROVE  /\ adjustment'[a] \in AdjustmentRow \cup {None}
             /\ adjustment[a] \in AdjustmentRow => adjustment'[a] \in AdjustmentRow
  <2>1. adjustment'[a] = IF a \in Live(adjustment) /\ adjustment[a].voucher = from
                         THEN [adjustment[a] EXCEPT !.voucher = to] ELSE adjustment[a]
    BY <1>1 DEF Vouchered
  <2>2. adjustment[a] \in AdjustmentRow \cup {None}
    BY DEF Inv, TablesOK
  <2>3. a \in Live(adjustment) => adjustment[a] \in AdjustmentRow
    BY <2>2 DEF Live, Exists
  <2>4. adjustment[a] \in AdjustmentRow => [adjustment[a] EXCEPT !.voucher = to] \in AdjustmentRow
    BY DEF AdjustmentRow
  <2> QED BY <2>1, <2>2, <2>3, <2>4
<1>4. adjustment' \in [Adjustments -> AdjustmentRow \cup {None}]
  <2>1. adjustment' = [a \in Adjustments |->
                          IF a \in Live(adjustment) /\ adjustment[a].voucher = from
                          THEN [adjustment[a] EXCEPT !.voucher = to] ELSE adjustment[a]]
    BY <1>1 DEF Vouchered
  <2> QED BY <1>3, <2>1
<1>5. TablesOK'
  BY <1>1, <1>2, <1>4 DEF Vouchered, Inv, TablesOK
<1>6. RowsStay
  BY <1>1, <1>3 DEF Vouchered, RowsStay
<1>7. job' = [job EXCEPT ![h] = Idle]
  BY <1>1 DEF Vouchered, PayoutStep, Called, Inv
<1> QED BY <1>5, <1>6, <1>7, IdleIsSound DEF Takes

LEMMA PayTakes ==
    ASSUME Inv, NEW h \in Handlers, PayStep(h)
    PROVE  Takes(h)
<1> DEFINE j == job[h]
<1>0. j \in Job /\ Sound(j)
  BY DEF Inv
<1>1. CASE ComputeRefused(h)
  BY <1>1, RefusedTakes DEF ComputeRefused
<1>2. ASSUME NEW amount \in Amounts, LoadAddAdjustment(h, amount) PROVE Takes(h)
  <2>1. Sound([do |-> "addAdjustment", amount |-> amount])
    BY DEF Sound, Job, PayJob, OnCharge, OnPayment, OnAdjustment
  <2> QED BY <1>2, <2>1, AcceptedTakes DEF LoadAddAdjustment
<1>3. ASSUME NEW a \in Adjustments, Unpaid(a) PROVE adjustment[a] \in AdjustmentRow
  BY <1>3 DEF Unpaid, Live, Exists, Inv, TablesOK
<1>4. ASSUME NEW a \in Adjustments, NEW amount \in Amounts, LoadUpdateAdjustment(h, a, amount)
      PROVE  Takes(h)
  <2>1. Unpaid(a)
    BY <1>4 DEF LoadUpdateAdjustment
  <2>2. Sound([do |-> "updateAdjustment", of |-> a, amount |-> amount])
    BY <1>3, <2>1 DEF Sound, Job, PayJob, OnCharge, OnPayment, OnAdjustment
  <2> QED BY <1>4, <2>2, AcceptedTakes DEF LoadUpdateAdjustment
<1>5. ASSUME NEW a \in Adjustments, LoadRemoveAdjustment(h, a) PROVE Takes(h)
  <2>1. Unpaid(a)
    BY <1>5 DEF LoadRemoveAdjustment
  <2>2. Sound([do |-> "removeAdjustment", of |-> a])
    BY <1>3, <2>1 DEF Sound, Job, PayJob, OnCharge, OnPayment, OnAdjustment
  <2> QED BY <1>5, <2>2, AcceptedTakes DEF LoadRemoveAdjustment
<1>6. ASSUME NEW a \in Adjustments, CreateAdjustment(h, a) PROVE Takes(h)
  <2>1. j.amount \in Amounts
    BY <1>0, <1>6, JobShapes DEF CreateAdjustment, At
  <2>2. [amount |-> j.amount, live |-> TRUE, voucher |-> "none"] \in AdjustmentRow
    BY <2>1 DEF AdjustmentRow
  <2> QED BY <1>6, <2>2, AdjustmentWritten DEF CreateAdjustment
<1>7. CASE UpdateAdjustment(h)
  <2>1. j.do \in OnAdjustment /\ j.of \in Adjustments /\ j.amount \in Amounts
    BY <1>0, <1>7, JobShapes DEF UpdateAdjustment, At, OnAdjustment
  <2>2. [adjustment[j.of] EXCEPT !.amount = j.amount] \in AdjustmentRow
    BY <1>0, <2>1 DEF Sound, AdjustmentRow
  <2> QED BY <1>7, <2>1, <2>2, AdjustmentWritten DEF UpdateAdjustment
<1>8. CASE RemoveAdjustment(h)
  <2>1. j.do \in OnAdjustment /\ j.of \in Adjustments
    BY <1>0, <1>8, JobShapes DEF RemoveAdjustment, At, OnAdjustment
  <2>2. [adjustment[j.of] EXCEPT !.live = FALSE] \in AdjustmentRow
    BY <1>0, <2>1 DEF Sound, AdjustmentRow
  <2> QED BY <1>8, <2>1, <2>2, AdjustmentWritten DEF RemoveAdjustment
<1> QED
  BY <1>1, <1>2, <1>4, <1>5, <1>6, <1>7, <1>8, ComputeLoadTakes, ComputeTakes, PayoutTakes
     DEF PayStep

-----------------------------------------------------------------------------
(* The trip's own steps, and the induction. *)

LEMMA MoveTakes ==
    ASSUME Inv, NEW h \in Handlers, MoveStep(h)
    PROVE  Takes(h)
<1> DEFINE j == job[h]
<1>1. ASSUME NEW to \in TripStatus, LoadTransition(h, to) PROVE Takes(h)
  <2>1. Sound([do |-> "transition", to |-> to])
    BY DEF Sound, Job, MoveJob, OnCharge, OnPayment, OnAdjustment
  <2> QED BY <1>1, <2>1, AcceptedTakes DEF LoadTransition
<1>2. CASE Transition(h)
  <2> DEFINE s == [shipment EXCEPT !.status = j.to]
  <2>1. j.to \in TripStatus
    BY <1>2, JobShapes DEF Transition, At, Inv
  <2>2. shipment \in ShipmentRow /\ AddsUp(shipment) /\ (shipment.cutPaid # None => Signed(shipment.cutPaid))
    BY DEF Inv, TablesOK, GoodShipment
  <2>3. /\ s \in ShipmentRow /\ s.cutPaid = shipment.cutPaid
        /\ s.gross = shipment.gross /\ s.percent = shipment.percent
        /\ s.cut = shipment.cut /\ s.net = shipment.net
    BY <2>1, <2>2 DEF ShipmentRow
  <2>4. GoodShipment(s)
    BY <2>2, <2>3 DEF GoodShipment, AddsUp
  <2>5. PutShipment(h, s)
    BY <1>2 DEF Transition
  <2> HIDE DEF s
  <2> QED BY <2>4, <2>5, ShipmentWritten
<1> QED BY <1>1, <1>2 DEF MoveStep

\* A new trip's chain is computed from what was agreed.
LEMMA Starts == Init => Inv
<1> SUFFICES ASSUME Init PROVE Inv
  OBVIOUS
<1>1. PICK client \in Clients, broker \in Brokers \cup {None}, gross \in GrossRates,
           percent \in Percents \cup {None}, flat \in Flats \cup {None} :
        LET rates == ComputeRateChain(gross, percent, flat) IN
        /\ NetRateIsSane(rates)
        /\ shipment = [status |-> "DRAFT", client |-> client, broker |-> broker,
                       gross |-> gross, percent |-> percent, cut |-> rates.cut,
                       net |-> rates.net, moved |-> FALSE, cutPaid |-> None, gas |-> None]
  BY DEF Init
<1> DEFINE rates == ComputeRateChain(gross, percent, flat)
<1>2. flat # None => flat \in Nat
  BY AmountsAreNatural
<1>3. rates \in Chain /\ AddsUp(rates)
  BY <1>1, <1>2, ChainAddsUp
<1>4. rates.gross = gross /\ rates.percent = percent
  BY DEF ComputeRateChain
<1> HIDE DEF rates
<1>5. shipment = [status |-> "DRAFT", client |-> client, broker |-> broker,
                  gross |-> gross, percent |-> percent, cut |-> rates.cut,
                  net |-> rates.net, moved |-> FALSE, cutPaid |-> None, gas |-> None]
  BY <1>1 DEF rates
<1>6. GoodShipment(shipment)
  BY <1>3, <1>4, <1>5 DEF GoodShipment, ShipmentRow, Chain, AddsUp, TripStatus
<1>7. TablesOK
  BY <1>6, AmountsAreNatural DEF Init, TablesOK
<1>8. job \in [Handlers -> {Idle, Off}]
  BY DEF Init
<1>9. Sound(Off)
  BY DEF Sound, Off, Job, OnCharge, OnPayment, OnAdjustment
<1> QED BY <1>7, <1>8, <1>9, IdleIsSound DEF Inv, Job

LEMMA Steps == Inv /\ [Next]_vars => Inv'
<1> SUFFICES ASSUME Inv, [Next]_vars PROVE Inv'
  OBVIOUS
<1>1. ASSUME NEW h \in Handlers, Crash(h) PROVE Inv'
  BY <1>1, RefusedTakes, TakesKeepsInv DEF Crash
<1>2. ASSUME NEW h \in Handlers,
             ChargeStep(h) \/ RateStep(h) \/ PaymentStep(h) \/ PayStep(h) \/ MoveStep(h)
      PROVE  Inv'
  BY <1>2, ChargeTakes, RateTakes, PaymentTakes, PayTakes, MoveTakes, TakesKeepsInv
<1>3. CASE UNCHANGED vars
  BY <1>3 DEF vars, tables, Inv, TablesOK, Sound
<1> QED BY <1>1, <1>2, <1>3 DEF Next, Working

LEMMA InvImpliesLedgersStand == Inv => LedgersStand
<1> SUFFICES ASSUME Inv PROVE LedgersStand
  OBVIOUS
<1>1. TypeOK
  BY DEF Inv, TablesOK, GoodShipment, TypeOK
<1>2. RatesAddUp
  <2>1. shipment \in ShipmentRow /\ AddsUp(shipment)
    BY DEF Inv, TablesOK, GoodShipment
  <2>2. shipment.percent # None => shipment.gross \in Nat /\ shipment.percent \in Nat
    BY <2>1, AmountsAreNatural DEF ShipmentRow
  <2> QED BY <2>1, <2>2, PercentIsNearest DEF AddsUp, RatesAddUp
<1>3. VerdictsAreSigned
  BY DEF Inv, TablesOK, GoodShipment, GoodCharge, GoodPayment, VerdictsAreSigned, Exists
<1> QED BY <1>1, <1>2, <1>3 DEF LedgersStand

\* However many requests overlap, and wherever they are cut off: every row is of its
\* type, the trip's rates add up (computeRateChain, assertNetRateIsSane) and every
\* verdict is signed by somebody in accounting (verificationOnWriteBy, decide).
THEOREM LedgersAlwaysStand == Spec => []LedgersStand
<1>1. Init => Inv
  BY Starts
<1>2. Inv /\ [Next]_vars => Inv'
  BY Steps
<1>3. Inv => LedgersStand
  BY InvImpliesLedgersStand
<1> QED BY <1>1, <1>2, <1>3, PTL DEF Spec

-----------------------------------------------------------------------------
(***************************************************************************)
(* What TripMoney keeps true while requests do not overlap.  With one      *)
(* handler, nothing moves between a check and the write it allows: Ready   *)
(* says that what a handler checked still holds, and Keeps what a write    *)
(* does to the trip on the strength of it.                                 *)
(***************************************************************************)
CutKept(chain) == shipment.cutPaid # None => chain.cut = shipment.cut

Ready(j) ==
    /\ j.do \in OnCharge \cup {"addCharge"} => ChargesEditable
    /\ j.do \in {"updateCharge", "removeCharge"} => MayAlter(charge[j.of].stamp, j.by)
    /\ j.do = "editBooking" =>
          /\ j.client \notin {Unsaid, shipment.client} => NothingPaid /\ j.moved
          /\ j.chain # Unsaid => shipment.status = "DRAFT" /\ CutKept(j.chain)
    /\ j.do = "correctRates" => NothingPaid /\ CutKept(j.chain)
    /\ j.do = "overrideGas" => NothingPaid
    /\ j.do \in {"markCutPaid", "unmarkCut"} => MayAlterCut(j.by)
    /\ j.do \in {"updatePayment", "removePayment"} => MayAlter(payment[j.of].stamp, j.by)
    /\ j.do = "compute" => Computable /\ NothingPaid /\ j.basis = BasisNow
    /\ j.do \in OnAdjustment => Unpaid(j.of)
    /\ j.do = "transition" =>
          IsAllowed(shipment.status, j.to) /\ (j.to = "COMPLETED" => ReadyToComplete)

\* What the computation was made from is what counts now, or a stamp is newer.
Covered ==
    Computed =>
        /\ \/ shipment.moved
           \/ commission.basis.client = shipment.client /\ commission.basis.net = shipment.net
        /\ \A c \in Counted : charge[c].commissionable =>
              charge[c].after \/ <<c, charge[c].billed>> \in commission.basis.charges

TripFacts ==
    /\ shipment.status = "DRAFT" => ~ Computed
    /\ shipment.status = "COMPLETED" => Waiting = {}
    /\ Covered

Alone == OneAtATime => TripFacts /\ \A h \in Handlers : Ready(job[h])

Keeps ==
    /\ TripFacts'
    /\ LeavesPaidPay /\ LeavesPaidBasis /\ LeavesSignedOff
    /\ LeavesPaidAdjustments /\ LeavesPaidCut

-----------------------------------------------------------------------------
(* Writes: one row at a time. *)

LEMMA NothingMoves ==
    ASSUME TripFacts, UNCHANGED <<shipment, charge, payment, commission, adjustment>>
    PROVE  Keeps
  BY DEF Keeps, TripFacts, Covered, Computed, Counted, Waiting, Live, Exists, LeavesPaidPay,
         LeavesPaidBasis, CommissionableCharges, LeavesSignedOff, LeavesPaidAdjustments,
         LeavesPaidCut

LEMMA ShipmentKeeps ==
    ASSUME TripFacts, NEW s, shipment' = s,
           UNCHANGED <<charge, payment, commission, adjustment>>,
           ~ NothingPaid => s.client = shipment.client /\ s.net = shipment.net /\ s.gas = shipment.gas,
           shipment.cutPaid # None /\ s.cutPaid # shipment.cutPaid =>
               (SignedOff(shipment.cutPaid) => ByAccounting),
           shipment.cutPaid # None /\ s.cutPaid # None => s.cut = shipment.cut,
           s.status = "DRAFT" => shipment.status = "DRAFT",
           s.status = "COMPLETED" => Waiting = {},
           Computed => \/ s.moved
                       \/ /\ s.moved = shipment.moved
                          /\ s.client = shipment.client /\ s.net = shipment.net
    PROVE  Keeps
<1>1. /\ Counted' = Counted /\ Waiting' = Waiting
      /\ CommissionableCharges' = CommissionableCharges
  BY DEF Counted, Waiting, Live, Exists, CommissionableCharges
<1>2. TripFacts'
  BY <1>1 DEF TripFacts, Covered, Computed
<1>3. LeavesPaidPay /\ LeavesPaidBasis
  BY <1>1 DEF LeavesPaidPay, LeavesPaidBasis
<1>4. LeavesSignedOff
  BY DEF LeavesSignedOff
<1>5. LeavesPaidAdjustments /\ LeavesPaidCut
  BY DEF LeavesPaidAdjustments, LeavesPaidCut, Live
<1> QED BY <1>2, <1>3, <1>4, <1>5 DEF Keeps

LEMMA ChargeKeeps ==
    ASSUME Inv, TripFacts, NEW c \in Charges, NEW r \in ChargeRow,
           charge' = [charge EXCEPT ![c] = r],
           UNCHANGED <<shipment, payment, commission, adjustment>>,
           ChargesEditable,
           r.live /\ Computed => r.after,
           c \in Live(charge) /\ SignedOff(charge[c].stamp) => ByAccounting
    PROVE  Keeps
<1>1. \A k \in Charges : charge'[k] = IF k = c THEN r ELSE charge[k]
  BY DEF Inv, TablesOK
<1>2. DOMAIN charge = Charges /\ DOMAIN charge' = Charges
  BY DEF Inv, TablesOK
<1>3. shipment.status # "COMPLETED" /\ NothingPaid
  BY DEF ChargesEditable
<1>4. ASSUME NEW k \in Counted'
      PROVE  (k = c /\ r.live) \/ (k \in Counted /\ charge'[k] = charge[k])
  <2>1. /\ k \in Charges /\ charge'[k] # None
        /\ charge'[k].live /\ charge'[k].stamp.status = "VERIFIED"
    BY <1>2, <1>4 DEF Counted, Live, Exists
  <2>2. CASE k = c
    BY <1>1, <2>1, <2>2
  <2>3. CASE k # c
    BY <1>1, <1>2, <2>1, <2>3 DEF Counted, Live, Exists
  <2> QED BY <2>2, <2>3
<1>5. TripFacts'
  <2>1. Computed => \A k \in Counted' : charge'[k].commissionable =>
           charge'[k].after \/ <<k, charge'[k].billed>> \in commission.basis.charges
    <3> SUFFICES ASSUME Computed, NEW k \in Counted', charge'[k].commissionable
                 PROVE  charge'[k].after \/ <<k, charge'[k].billed>> \in commission.basis.charges
      OBVIOUS
    <3>1. CASE k = c /\ r.live
      BY <1>1, <3>1
    <3>2. CASE k \in Counted /\ charge'[k] = charge[k]
      BY <3>2 DEF TripFacts, Covered
    <3> QED BY <1>4, <3>1, <3>2
  <2> QED BY <1>3, <2>1 DEF TripFacts, Covered, Computed
<1>6. LeavesPaidPay /\ LeavesPaidBasis
  BY <1>3 DEF LeavesPaidPay, LeavesPaidBasis
<1>7. LeavesSignedOff
  <2>1. ASSUME NEW k \in Live(charge), SignedOff(charge[k].stamp),
               [charge'[k] EXCEPT !.after = FALSE] # [charge[k] EXCEPT !.after = FALSE]
        PROVE  ByAccounting
    <3>1. k \in Charges
      BY <1>2 DEF Live, Exists
    <3>2. k = c
      BY <1>1, <2>1, <3>1
    <3> QED BY <2>1, <3>2
  <2> QED BY <2>1 DEF LeavesSignedOff
<1>8. LeavesPaidAdjustments /\ LeavesPaidCut
  BY DEF LeavesPaidAdjustments, LeavesPaidCut, Live
<1> QED BY <1>5, <1>6, <1>7, <1>8 DEF Keeps

LEMMA PaymentKeeps ==
    ASSUME Inv, TripFacts, NEW h, NEW p \in Payments, NEW r, WritePayment(h, p, r),
           p \in Live(payment) /\ SignedOff(payment[p].stamp) => ByAccounting
    PROVE  Keeps
<1>1. UNCHANGED <<shipment, charge, commission, adjustment>>
  BY DEF WritePayment
<1>2. TripFacts'
  BY <1>1 DEF TripFacts, Covered, Computed, Counted, Waiting, Live, Exists
<1>3. LeavesPaidPay /\ LeavesPaidBasis
  BY <1>1 DEF LeavesPaidPay, LeavesPaidBasis, CommissionableCharges, Counted, Live, Exists
<1>4. LeavesPaidAdjustments /\ LeavesPaidCut
  BY <1>1 DEF LeavesPaidAdjustments, LeavesPaidCut, Live
<1>5. \A k \in Live(payment) : k # p => payment'[k] = payment[k]
  BY DEF WritePayment, Live, Exists, Inv, TablesOK
<1>6. LeavesSignedOff
  BY <1>1, <1>5 DEF LeavesSignedOff
<1> QED BY <1>2, <1>3, <1>4, <1>6 DEF Keeps

LEMMA AdjustmentKeeps ==
    ASSUME Inv, TripFacts, NEW h, NEW a \in Adjustments, NEW r, PutAdjustment(h, a, r),
           a \in Live(adjustment) => adjustment[a].voucher = "none"
    PROVE  Keeps
<1>1. UNCHANGED <<shipment, charge, payment, commission>>
  BY DEF PutAdjustment
<1>2. TripFacts'
  BY <1>1 DEF TripFacts, Covered, Computed, Counted, Waiting, Live, Exists
<1>3. LeavesPaidPay /\ LeavesPaidBasis
  BY <1>1 DEF LeavesPaidPay, LeavesPaidBasis, CommissionableCharges, Counted, Live, Exists
<1>4. LeavesPaidCut /\ LeavesSignedOff
  BY <1>1 DEF LeavesPaidCut, LeavesSignedOff, Live
<1>5. \A k \in Live(adjustment) : k # a => adjustment'[k] = adjustment[k]
  BY DEF PutAdjustment, Live, Exists, Inv, TablesOK
<1>6. LeavesPaidAdjustments
  BY <1>5 DEF LeavesPaidAdjustments, Live
<1> QED BY <1>2, <1>3, <1>4, <1>6 DEF Keeps

-----------------------------------------------------------------------------
(* Writes: a computation and a payout. *)

LEMMA ComputeKeeps ==
    ASSUME Inv, TripFacts, NEW h \in Handlers, Compute(h), Ready(job[h])
    PROVE  Keeps
<1>1. Computable /\ NothingPaid /\ job[h].basis = BasisNow
  BY DEF Ready, Compute, At
<1>2. /\ commission' = [basis |-> BasisNow, voucher |-> "none"]
      /\ shipment' = [shipment EXCEPT !.moved = FALSE]
      /\ charge' = [c \in Charges |-> IF charge[c] = None THEN None
                                      ELSE [charge[c] EXCEPT !.after = FALSE]]
      /\ UNCHANGED <<payment, adjustment>>
  BY <1>1 DEF Compute
<1>3. shipment \in ShipmentRow /\ DOMAIN charge = Charges /\ DOMAIN charge' = Charges
  BY <1>2 DEF Inv, TablesOK, GoodShipment
<1>4. /\ shipment'.status = "DELIVERED" /\ shipment'.client = shipment.client
      /\ shipment'.net = shipment.net /\ shipment'.cut = shipment.cut
      /\ shipment'.cutPaid = shipment.cutPaid
  BY <1>1, <1>2, <1>3 DEF Computable, ShipmentRow
<1>5. ASSUME NEW c \in Charges, charge[c] # None
      PROVE  /\ charge[c] \in ChargeRow
             /\ charge'[c] = [charge[c] EXCEPT !.after = FALSE]
             /\ charge'[c].live = charge[c].live
             /\ charge'[c].stamp = charge[c].stamp
             /\ charge'[c].billed = charge[c].billed
             /\ charge'[c].commissionable = charge[c].commissionable
             /\ [charge'[c] EXCEPT !.after = FALSE] = [charge[c] EXCEPT !.after = FALSE]
  <2>1. charge[c] \in ChargeRow
    BY <1>5 DEF Inv, TablesOK, GoodCharge
  <2>2. charge'[c] = [charge[c] EXCEPT !.after = FALSE]
    BY <1>2, <1>5
  <2> QED BY <2>1, <2>2 DEF ChargeRow
<1>6. ASSUME NEW c \in Counted', charge'[c].commissionable
      PROVE  <<c, charge'[c].billed>> \in commission'.basis.charges
  <2>1. /\ c \in Charges /\ charge'[c] # None
        /\ charge'[c].live /\ charge'[c].stamp.status = "VERIFIED"
    BY <1>3, <1>6 DEF Counted, Live, Exists
  <2>2. charge[c] # None
    BY <1>2, <2>1
  <2>3. c \in Counted /\ charge[c].commissionable /\ charge'[c].billed = charge[c].billed
    BY <1>3, <1>5, <1>6, <2>1, <2>2 DEF Counted, Live, Exists
  <2>4. commission'.basis.charges = CommissionableCharges
    BY <1>2 DEF BasisNow
  <2> QED BY <2>3, <2>4 DEF CommissionableCharges
<1>7. TripFacts'
  <2>1. commission'.basis.client = shipment'.client /\ commission'.basis.net = shipment'.net
    BY <1>2, <1>4 DEF BasisNow
  <2> QED BY <1>4, <1>6, <2>1 DEF TripFacts, Covered, Computed
<1>8. LeavesPaidPay /\ LeavesPaidBasis
  BY <1>1 DEF LeavesPaidPay, LeavesPaidBasis, NothingPaid
<1>9. LeavesSignedOff
  BY <1>2, <1>3, <1>4, <1>5 DEF LeavesSignedOff, Live, Exists
<1>10. LeavesPaidAdjustments /\ LeavesPaidCut
  BY <1>2, <1>4 DEF LeavesPaidAdjustments, LeavesPaidCut, Live
<1> QED BY <1>7, <1>8, <1>9, <1>10 DEF Keeps

LEMMA PayoutKeeps ==
    ASSUME Inv, TripFacts, NEW h \in Handlers, PayoutStep(h)
    PROVE  Keeps
<1>1. PICK from \in {"none", "drafted"}, to \in {"none", "drafted", "paid"} : Vouchered(from, to)
  BY DEF PayoutStep
<1>2. UNCHANGED <<shipment, charge, payment>>
  BY <1>1 DEF Vouchered
<1>3. Computed /\ commission \in CommissionRow
  BY DEF PayoutStep, Computed, Inv, TablesOK
<1>4. commission'.basis = commission.basis /\ (commission.voucher = "paid" => commission' = commission)
  BY <1>1, <1>3 DEF Vouchered, CommissionRow
<1>5. /\ Counted' = Counted /\ Waiting' = Waiting
      /\ CommissionableCharges' = CommissionableCharges
  BY <1>2 DEF Counted, Waiting, Live, Exists, CommissionableCharges
<1>6. TripFacts'
  BY <1>2, <1>3, <1>4, <1>5 DEF TripFacts, Covered
<1>7. LeavesPaidPay /\ LeavesPaidBasis
  BY <1>2, <1>4, <1>5 DEF LeavesPaidPay, LeavesPaidBasis
<1>8. LeavesSignedOff /\ LeavesPaidCut
  BY <1>2 DEF LeavesSignedOff, LeavesPaidCut
<1>9. ASSUME NEW a \in Live(adjustment)
      PROVE  adjustment'[a].live /\ adjustment'[a].amount = adjustment[a].amount
  <2>1. a \in Adjustments /\ adjustment[a] \in AdjustmentRow /\ adjustment[a].live
    BY <1>9 DEF Live, Exists, Inv, TablesOK
  <2>2. adjustment'[a] = IF adjustment[a].voucher = from
                         THEN [adjustment[a] EXCEPT !.voucher = to] ELSE adjustment[a]
    BY <1>1, <1>9, <2>1 DEF Vouchered
  <2> QED BY <2>1, <2>2 DEF AdjustmentRow
<1> QED BY <1>6, <1>7, <1>8, <1>9 DEF Keeps, LeavesPaidAdjustments

-----------------------------------------------------------------------------
(* What a step does: it takes a request whose checks hold, or writes what   *)
(* one allows.                                                              *)

Moves(h) ==
    \/ \E j : j.do # "off" /\ Accept(h, j) /\ Ready(j)
    \/ Done(h) /\ Keeps
    \/ job[h] = Idle /\ job' = job /\ Keeps

LEMMA ByHand ==
    ASSUME Inv, NEW h \in Handlers, Done(h), job[h].do # "idle", job[h].by \in Accounting
    PROVE  ByAccounting
<1>1. job'[h] = Idle
  BY DEF Done, Inv
<1>2. job[h] # Idle
  BY DEF Idle
<1> QED BY <1>1, <1>2 DEF ByAccounting

LEMMA TakenMoves ==
    ASSUME NEW h \in Handlers, NEW j, j.do # "off", Accept(h, j), Ready(j)
    PROVE  Moves(h)
  BY DEF Moves

LEMMA ChargeMoves ==
    ASSUME Inv, TripFacts, NEW h \in Handlers, Ready(job[h]), ChargeStep(h)
    PROVE  Moves(h)
<1> DEFINE j == job[h]
<1>0. j \in Job /\ Sound(j)
  BY DEF Inv
<1>1. ASSUME ChargeCalled(h) PROVE Moves(h)
  <2>1. PICK u \in Users :
           \/ \E put \in ChargeInput : LoadAddCharge(h, u, put)
           \/ \E c \in Charges : \E put \in ChargePatch : LoadUpdateCharge(h, u, c, put)
           \/ \E c \in Charges : LoadRemoveCharge(h, u, c)
           \/ \E c \in Charges : LoadApproveCharge(h, u, c) \/ LoadReturnCharge(h, u, c)
    BY <1>1 DEF ChargeCalled
  <2>2. ASSUME NEW put, LoadAddCharge(h, u, put) PROVE Moves(h)
    <3>1. Ready([do |-> "addCharge", by |-> u, put |-> put])
      BY <2>2 DEF LoadAddCharge, Ready, OnCharge, OnAdjustment
    <3> QED BY <2>2, <3>1, TakenMoves DEF LoadAddCharge
  <2>3. ASSUME NEW c, NEW put, LoadUpdateCharge(h, u, c, put) PROVE Moves(h)
    <3>1. Ready([do |-> "updateCharge", by |-> u, of |-> c, put |-> put])
      BY <2>3 DEF LoadUpdateCharge, MayAlterCharge, Ready, OnCharge, OnAdjustment
    <3> QED BY <2>3, <3>1, TakenMoves DEF LoadUpdateCharge
  <2>4. ASSUME NEW c, LoadRemoveCharge(h, u, c) PROVE Moves(h)
    <3>1. Ready([do |-> "removeCharge", by |-> u, of |-> c])
      BY <2>4 DEF LoadRemoveCharge, MayAlterCharge, Ready, OnCharge, OnAdjustment
    <3> QED BY <2>4, <3>1, TakenMoves DEF LoadRemoveCharge
  <2>5. ASSUME NEW c, LoadApproveCharge(h, u, c) \/ LoadReturnCharge(h, u, c) PROVE Moves(h)
    <3>1. ASSUME NEW to PROVE Ready([do |-> "decideCharge", by |-> u, of |-> c, to |-> to])
      BY <2>5 DEF LoadApproveCharge, LoadReturnCharge, Ready, OnCharge, OnAdjustment
    <3> QED BY <2>5, <3>1, TakenMoves DEF LoadApproveCharge, LoadReturnCharge
  <2> QED BY <2>1, <2>2, <2>3, <2>4, <2>5
<1>2. ASSUME NEW c \in Charges, AddCharge(h, c) PROVE Moves(h)
  <2> DEFINE row == [billed |-> j.put.billed, commissionable |-> j.put.commissionable,
                     stamp |-> VerificationOnWriteBy(j.by), live |-> TRUE, after |-> FALSE]
             new == [row EXCEPT !.after = Computed]
  <2>1. j.do = "addCharge" /\ j.by \in Users /\ j.put \in ChargeInput
    BY <1>0, <1>2, JobShapes DEF AddCharge, At
  <2>2. new \in ChargeRow /\ new.after = Computed
    BY <2>1, WritesAreSigned DEF ChargeRow, ChargeInput, Computed
  <2>3. c \notin Live(charge) /\ ChargesEditable
    BY <1>2, <2>1 DEF AddCharge, Unused, Live, Exists, Ready
  <2>4. WriteCharge(h, c, row)
    BY <1>2 DEF AddCharge
  <2> HIDE DEF row
  <2> QED BY <2>2, <2>3, <2>4, ChargeKeeps DEF WriteCharge, Moves
<1>3. CASE UpdateCharge(h)
  <2> DEFINE row == [charge[j.of] EXCEPT !.billed = Named(j.put.billed, @),
                                         !.commissionable = ParsedCommissionable(j.put),
                                         !.stamp = VerificationOnWriteBy(j.by)]
             new == [row EXCEPT !.after = Computed]
  <2>1. j.do = "updateCharge" /\ j.by \in Users /\ j.of \in Charges /\ j.put \in ChargePatch
    BY <1>0, <1>3, JobShapes DEF UpdateCharge, At
  <2>2. charge[j.of] \in ChargeRow
    BY <1>0, <2>1 DEF Sound, OnCharge, GoodCharge
  <2>3. /\ Named(j.put.billed, charge[j.of].billed) \in Amounts
        /\ ParsedCommissionable(j.put) \in BOOLEAN
    BY <2>1, <2>2 DEF Named, ParsedCommissionable, ChargePatch, ChargeRow
  <2>4. new \in ChargeRow /\ new.after = Computed
    BY <2>1, <2>2, <2>3, WritesAreSigned DEF ChargeRow, Computed
  <2>5. WriteCharge(h, j.of, row)
    BY <1>3 DEF UpdateCharge
  <2>6. ChargesEditable /\ MayAlter(charge[j.of].stamp, j.by)
    BY <2>1 DEF Ready, OnCharge
  <2>7. SignedOff(charge[j.of].stamp) => ByAccounting
    BY <2>1, <2>5, <2>6, ByHand DEF SignedOff, MayAlter, MayVerify, WriteCharge
  <2> HIDE DEF row
  <2> QED BY <2>1, <2>4, <2>5, <2>6, <2>7, ChargeKeeps DEF WriteCharge, Moves
<1>4. CASE RemoveCharge(h)
  <2> DEFINE row == [charge[j.of] EXCEPT !.live = FALSE]
  <2>1. j.do = "removeCharge" /\ j.of \in Charges
    BY <1>0, <1>4, JobShapes DEF RemoveCharge, At
  <2>2. charge[j.of] \in ChargeRow
    BY <1>0, <2>1 DEF Sound, OnCharge, GoodCharge
  <2>3. row \in ChargeRow /\ ~ row.live
    BY <2>2 DEF ChargeRow
  <2>4. ChargesEditable /\ MayAlter(charge[j.of].stamp, j.by)
    BY <2>1 DEF Ready, OnCharge
  <2>5. Done(h) /\ charge' = [charge EXCEPT ![j.of] = row]
    BY <1>4 DEF RemoveCharge, Without
  <2>6. SignedOff(charge[j.of].stamp) => ByAccounting
    BY <2>1, <2>4, <2>5, ByHand DEF SignedOff, MayAlter, MayVerify
  <2> HIDE DEF row
  <2> QED BY <1>4, <2>1, <2>3, <2>4, <2>5, <2>6, ChargeKeeps DEF RemoveCharge, Moves
<1>5. CASE DecideCharge(h)
  <2> DEFINE row == [charge[j.of] EXCEPT !.stamp = [status |-> j.to, by |-> j.by]]
             new == [row EXCEPT !.after = Computed]
  <2>1. /\ j.do = "decideCharge" /\ j.by \in Accounting /\ j.of \in Charges
        /\ j.to \in {"VERIFIED", "RETURNED"}
    BY <1>0, <1>5, JobShapes DEF DecideCharge, At
  <2>2. charge[j.of] \in ChargeRow
    BY <1>0, <2>1 DEF Sound, OnCharge, GoodCharge
  <2>3. new \in ChargeRow /\ new.after = Computed
    BY <2>1, <2>2, VerdictsSigned DEF ChargeRow, Computed
  <2>4. WriteCharge(h, j.of, row)
    BY <1>5 DEF DecideCharge
  <2>5. ChargesEditable /\ ByAccounting
    BY <2>1, <2>4, ByHand DEF Ready, OnCharge, WriteCharge
  <2> HIDE DEF row
  <2> QED BY <2>1, <2>3, <2>4, <2>5, ChargeKeeps DEF WriteCharge, Moves
<1>6. Billables \subseteq Charges /\ Additionals \subseteq Charges
  BY DEF Charges
<1> QED
  BY <1>1, <1>2, <1>3, <1>4, <1>5, <1>6
     DEF ChargeStep, AddBillableExpense, AddAdditionalCharge

LEMMA RateRequestMoves ==
    ASSUME Inv, TripFacts, NEW h \in Handlers, job[h] = Idle, RateCalled(h)
    PROVE  Moves(h)
<1>1. ASSUME NEW client, NEW put, LoadEditBooking(h, client, put) PROVE Moves(h)
  <2> DEFINE chain == IF TouchesRates(put) THEN EditedChain(put) ELSE Unsaid
             r == [do |-> "editBooking", client |-> client, broker |-> put.broker,
                   chain |-> chain, moved |-> ScopeMoves(client)]
  <2>1. client \notin {Unsaid, shipment.client} => NothingPaid /\ ScopeMoves(client)
    BY <1>1 DEF LoadEditBooking, ScopeMoves
  <2>2. chain # Unsaid => shipment.status = "DRAFT" /\ CutKept(chain)
    BY <1>1 DEF LoadEditBooking, DraftOnly, CutNotSettled, CutKept
  <2>3. Accept(h, r)
    BY <1>1 DEF LoadEditBooking
  <2> HIDE DEF chain
  <2>4. Ready(r)
    BY <2>1, <2>2 DEF Ready, OnCharge, OnAdjustment
  <2>5. r.do # "off"
    OBVIOUS
  <2> HIDE DEF r
  <2> QED BY <2>3, <2>4, <2>5, TakenMoves
<1>2. ASSUME NEW put, LoadCorrectRates(h, put) PROVE Moves(h)
  <2> DEFINE chain == CorrectedChain(put)
             r == [do |-> "correctRates", broker |-> Broker(put), chain |-> chain]
  <2>1. NothingPaid /\ CutKept(chain) /\ Accept(h, r)
    BY <1>2 DEF LoadCorrectRates, CutNotSettled, CutKept
  <2> HIDE DEF chain
  <2>2. Ready(r) /\ r.do # "off"
    BY <2>1 DEF Ready, OnCharge, OnAdjustment
  <2> HIDE DEF r
  <2> QED BY <2>1, <2>2, TakenMoves
<1>3. ASSUME NEW gas, LoadOverrideGas(h, gas) PROVE Moves(h)
  <2>1. Ready([do |-> "overrideGas", gas |-> gas])
    BY <1>3 DEF LoadOverrideGas, Ready, OnCharge, OnAdjustment
  <2> QED BY <1>3, <2>1, TakenMoves DEF LoadOverrideGas
<1>4. ASSUME NEW gas, UpdateGasSetting(h, gas) PROVE Moves(h)
  <2>1. Keeps
    BY <1>4, NothingMoves DEF UpdateGasSetting
  <2> QED BY <1>4, <2>1 DEF UpdateGasSetting, Moves
<1>5. ASSUME NEW u, LoadMarkCutPaid(h, u) \/ LoadUnmarkCut(h, u) PROVE Moves(h)
  <2>1. ASSUME NEW op \in {"markCutPaid", "unmarkCut"} PROVE Ready([do |-> op, by |-> u])
    BY <1>5 DEF LoadMarkCutPaid, LoadUnmarkCut, Ready, OnCharge, OnAdjustment
  <2> QED BY <1>5, <2>1, TakenMoves DEF LoadMarkCutPaid, LoadUnmarkCut
<1>6. ASSUME NEW u, LoadVerifyCut(h, u) \/ LoadReturnCut(h, u) PROVE Moves(h)
  <2>1. ASSUME NEW to PROVE Ready([do |-> "decideCut", by |-> u, to |-> to])
    BY DEF Ready, OnCharge, OnAdjustment
  <2> QED BY <1>6, <2>1, TakenMoves DEF LoadVerifyCut, LoadReturnCut
<1> QED BY <1>1, <1>2, <1>3, <1>4, <1>5, <1>6 DEF RateCalled

LEMMA EditBookingMoves ==
    ASSUME Inv, TripFacts, NEW h \in Handlers, Ready(job[h]), EditBooking(h)
    PROVE  Moves(h)
<1> DEFINE j == job[h]
           chain == Named(j.chain, CurrentChain)
           s == [Priced(shipment, chain) EXCEPT !.client = Named(j.client, @),
                                                !.broker = Named(j.broker, @),
                                                !.moved = @ \/ j.moved]
<1>1. /\ j.do = "editBooking" /\ j.client \in Clients \cup {Unsaid}
      /\ j.broker \in Brokers \cup {None, Unsaid}
      /\ j.chain \in Chain \cup {Unsaid} /\ j.moved \in BOOLEAN
  BY JobShapes DEF EditBooking, At, Inv
<1>2. shipment \in ShipmentRow
  BY DEF Inv, TablesOK, GoodShipment
<1>3. /\ s.status = shipment.status /\ s.gas = shipment.gas /\ s.cutPaid = shipment.cutPaid
      /\ s.client = Named(j.client, shipment.client)
      /\ s.net = chain.net /\ s.cut = chain.cut
      /\ s.moved = (shipment.moved \/ j.moved)
  BY <1>2 DEF Priced, ShipmentRow
<1>4. /\ j.client \notin {Unsaid, shipment.client} => NothingPaid /\ j.moved
      /\ j.chain # Unsaid => ~ Computed /\ CutKept(j.chain)
  BY <1>1 DEF Ready, TripFacts
<1>5. j.chain = Unsaid => s.net = shipment.net /\ s.cut = shipment.cut
  BY <1>3 DEF Named, CurrentChain
<1>6. shipment.cutPaid # None => s.cut = shipment.cut
  BY <1>3, <1>4, <1>5 DEF Named, CutKept
<1>7. ~ NothingPaid => s.client = shipment.client /\ s.net = shipment.net
  BY <1>3, <1>4, <1>5 DEF Named, NothingPaid
<1>8. Computed => \/ s.moved
                  \/ /\ s.moved = shipment.moved
                     /\ s.client = shipment.client /\ s.net = shipment.net
  BY <1>1, <1>2, <1>3, <1>4, <1>5 DEF Named, ShipmentRow
<1>9. PutShipment(h, s)
  BY DEF EditBooking
<1> HIDE DEF s
<1>10. Keeps
  BY <1>3, <1>6, <1>7, <1>8, <1>9, ShipmentKeeps DEF PutShipment, TripFacts
<1> QED BY <1>9, <1>10 DEF PutShipment, Moves

LEMMA RateMoves ==
    ASSUME Inv, TripFacts, NEW h \in Handlers, Ready(job[h]), RateStep(h)
    PROVE  Moves(h)
<1> DEFINE j == job[h]
<1>0. j \in Job /\ shipment \in ShipmentRow
  BY DEF Inv, TablesOK, GoodShipment
<1>1. CASE CorrectRates(h)
  <2> DEFINE s == [Priced(shipment, j.chain) EXCEPT !.broker = j.broker, !.moved = TRUE]
  <2>1. NothingPaid /\ CutKept(j.chain)
    BY <1>1 DEF CorrectRates, At, Ready
  <2>2. /\ s.status = shipment.status /\ s.cutPaid = shipment.cutPaid
        /\ s.cut = j.chain.cut /\ s.moved
    BY <1>0 DEF Priced, ShipmentRow
  <2>3. PutShipment(h, s)
    BY <1>1 DEF CorrectRates
  <2> HIDE DEF s
  <2>4. Keeps
    BY <2>1, <2>2, <2>3, ShipmentKeeps DEF PutShipment, TripFacts, CutKept
  <2> QED BY <2>3, <2>4 DEF PutShipment, Moves
<1>2. CASE OverrideGas(h)
  <2> DEFINE s == [shipment EXCEPT !.gas = j.gas]
  <2>1. NothingPaid
    BY <1>2 DEF OverrideGas, At, Ready
  <2>2. /\ s.status = shipment.status /\ s.cutPaid = shipment.cutPaid /\ s.cut = shipment.cut
        /\ s.moved = shipment.moved /\ s.client = shipment.client /\ s.net = shipment.net
    BY <1>0 DEF ShipmentRow
  <2>3. PutShipment(h, s)
    BY <1>2 DEF OverrideGas
  <2> HIDE DEF s
  <2>4. Keeps
    BY <2>1, <2>2, <2>3, ShipmentKeeps DEF PutShipment, TripFacts
  <2> QED BY <2>3, <2>4 DEF PutShipment, Moves
<1>3. ASSUME NEW v, PutShipment(h, [shipment EXCEPT !.cutPaid = v]),
             shipment.cutPaid # None => (SignedOff(shipment.cutPaid) => ByAccounting)
      PROVE  Moves(h)
  <2> DEFINE s == [shipment EXCEPT !.cutPaid = v]
  <2>1. /\ s.status = shipment.status /\ s.cut = shipment.cut /\ s.gas = shipment.gas
        /\ s.moved = shipment.moved /\ s.client = shipment.client /\ s.net = shipment.net
    BY <1>0 DEF ShipmentRow
  <2>2. PutShipment(h, s)
    BY <1>3
  <2> HIDE DEF s
  <2>3. Keeps
    BY <1>3, <2>1, <2>2, ShipmentKeeps DEF PutShipment, TripFacts
  <2> QED BY <2>2, <2>3 DEF PutShipment, Moves
<1>4. ASSUME j.do \in {"markCutPaid", "unmarkCut"}, Done(h)
      PROVE  shipment.cutPaid # None => (SignedOff(shipment.cutPaid) => ByAccounting)
  <2>1. MayAlterCut(j.by)
    BY <1>4 DEF Ready
  <2> QED BY <1>4, <2>1, ByHand DEF MayAlterCut, MayAlter, MayVerify, SignedOff
<1>5. CASE MarkThirdPartyCommissionPaid(h)
  BY <1>3, <1>4, <1>5 DEF MarkThirdPartyCommissionPaid, At, PutShipment
<1>6. CASE UnmarkThirdPartyCommissionPaid(h)
  BY <1>3, <1>4, <1>6 DEF UnmarkThirdPartyCommissionPaid, At, PutShipment
<1>7. CASE DecideCut(h)
  <2>1. j.do = "decideCut" /\ j.by \in Accounting
    BY <1>0, <1>7, JobShapes DEF DecideCut, At
  <2>2. ByAccounting
    BY <1>7, <2>1, ByHand DEF DecideCut, PutShipment
  <2> QED BY <1>3, <1>7, <2>2 DEF DecideCut
<1>8. CASE DecideCutRefused(h)
  BY <1>8, NothingMoves DEF DecideCutRefused, Moves, tables
<1> QED
  BY <1>1, <1>2, <1>5, <1>6, <1>7, <1>8, RateRequestMoves, EditBookingMoves DEF RateStep

LEMMA PaymentMoves ==
    ASSUME Inv, TripFacts, NEW h \in Handlers, Ready(job[h]), PaymentStep(h)
    PROVE  Moves(h)
<1> DEFINE j == job[h]
<1>0. j \in Job
  BY DEF Inv
<1>1. ASSUME NEW u, NEW amount, LoadRecord(h, u, amount) PROVE Moves(h)
  <2>1. Ready([do |-> "recordPayment", by |-> u, amount |-> amount])
    BY DEF Ready, OnCharge, OnAdjustment
  <2> QED BY <1>1, <2>1, TakenMoves DEF LoadRecord
<1>2. ASSUME NEW u, NEW p, NEW amount, LoadUpdatePayment(h, u, p, amount) PROVE Moves(h)
  <2>1. Ready([do |-> "updatePayment", by |-> u, of |-> p, amount |-> amount])
    BY <1>2 DEF LoadUpdatePayment, MayAlterPayment, Ready, OnCharge, OnAdjustment
  <2> QED BY <1>2, <2>1, TakenMoves DEF LoadUpdatePayment
<1>3. ASSUME NEW u, NEW p, LoadRemovePayment(h, u, p) PROVE Moves(h)
  <2>1. Ready([do |-> "removePayment", by |-> u, of |-> p])
    BY <1>3 DEF LoadRemovePayment, MayAlterPayment, Ready, OnCharge, OnAdjustment
  <2> QED BY <1>3, <2>1, TakenMoves DEF LoadRemovePayment
<1>4. ASSUME NEW u, NEW p, LoadVerifyPayment(h, u, p) \/ LoadReturnPayment(h, u, p) PROVE Moves(h)
  <2>1. ASSUME NEW to PROVE Ready([do |-> "decidePayment", by |-> u, of |-> p, to |-> to])
    BY DEF Ready, OnCharge, OnAdjustment
  <2> QED BY <1>4, <2>1, TakenMoves DEF LoadVerifyPayment, LoadReturnPayment
<1>5. ASSUME NEW p \in Payments, RecordPayment(h, p) PROVE Moves(h)
  <2>1. p \notin Live(payment)
    BY <1>5 DEF RecordPayment, Unused, Live
  <2> DEFINE row == [amount |-> j.amount, live |-> TRUE, stamp |-> VerificationOnWriteBy(j.by)]
  <2>2. WritePayment(h, p, row)
    BY <1>5 DEF RecordPayment
  <2> HIDE DEF row
  <2>3. Keeps
    BY <2>1, <2>2, PaymentKeeps
  <2> QED BY <2>2, <2>3 DEF WritePayment, Moves
<1>6. ASSUME NEW row, WritePayment(h, j.of, row), j.of \in Payments, j.do # "idle",
             MayAlter(payment[j.of].stamp, j.by) \/ j.by \in Accounting
      PROVE  Moves(h)
  <2>1. SignedOff(payment[j.of].stamp) => ByAccounting
    BY <1>6, ByHand DEF MayAlter, MayVerify, SignedOff, WritePayment
  <2>2. Keeps
    BY <1>6, <2>1, PaymentKeeps
  <2> QED BY <1>6, <2>2 DEF WritePayment, Moves
<1>7. CASE UpdatePayment(h)
  <2>1. j.do = "updatePayment" /\ j.of \in Payments
    BY <1>0, <1>7, JobShapes DEF UpdatePayment, At
  <2> QED BY <1>6, <1>7, <2>1 DEF UpdatePayment, Ready
<1>8. CASE RemovePayment(h)
  <2>1. j.do = "removePayment" /\ j.of \in Payments
    BY <1>0, <1>8, JobShapes DEF RemovePayment, At
  <2> QED BY <1>6, <1>8, <2>1 DEF RemovePayment, Ready
<1>9. CASE DecidePayment(h)
  <2>1. j.do = "decidePayment" /\ j.of \in Payments /\ j.by \in Accounting
    BY <1>0, <1>9, JobShapes DEF DecidePayment, At
  <2> QED BY <1>6, <1>9, <2>1 DEF DecidePayment
<1> QED
  BY <1>1, <1>2, <1>3, <1>4, <1>5, <1>7, <1>8, <1>9 DEF PaymentStep

LEMMA PayMoves ==
    ASSUME Inv, TripFacts, NEW h \in Handlers, Ready(job[h]), PayStep(h)
    PROVE  Moves(h)
<1> DEFINE j == job[h]
<1>0. j \in Job
  BY DEF Inv
<1>1. CASE LoadCompute(h)
  <2>1. Ready([do |-> "compute", basis |-> BasisNow])
    BY <1>1 DEF LoadCompute, Ready, OnCharge, OnAdjustment
  <2> QED BY <1>1, <2>1, TakenMoves DEF LoadCompute
<1>2. CASE Compute(h)
  BY <1>2, ComputeKeeps DEF Compute, Moves
<1>3. CASE ComputeRefused(h)
  BY <1>3, NothingMoves DEF ComputeRefused, Moves, tables
<1>4. ASSUME NEW amount, LoadAddAdjustment(h, amount) PROVE Moves(h)
  <2>1. Ready([do |-> "addAdjustment", amount |-> amount])
    BY DEF Ready, OnCharge, OnAdjustment
  <2> QED BY <1>4, <2>1, TakenMoves DEF LoadAddAdjustment
<1>5. ASSUME NEW a, NEW amount, LoadUpdateAdjustment(h, a, amount) PROVE Moves(h)
  <2>1. Ready([do |-> "updateAdjustment", of |-> a, amount |-> amount])
    BY <1>5 DEF LoadUpdateAdjustment, Ready, OnCharge, OnAdjustment
  <2> QED BY <1>5, <2>1, TakenMoves DEF LoadUpdateAdjustment
<1>6. ASSUME NEW a, LoadRemoveAdjustment(h, a) PROVE Moves(h)
  <2>1. Ready([do |-> "removeAdjustment", of |-> a])
    BY <1>6 DEF LoadRemoveAdjustment, Ready, OnCharge, OnAdjustment
  <2> QED BY <1>6, <2>1, TakenMoves DEF LoadRemoveAdjustment
<1>7. ASSUME NEW a \in Adjustments, CreateAdjustment(h, a) PROVE Moves(h)
  <2> DEFINE row == [amount |-> j.amount, live |-> TRUE, voucher |-> "none"]
  <2>1. a \notin Live(adjustment)
    BY <1>7 DEF CreateAdjustment, Unused, Live
  <2>2. PutAdjustment(h, a, row)
    BY <1>7 DEF CreateAdjustment
  <2> HIDE DEF row
  <2>3. Keeps
    BY <2>1, <2>2, AdjustmentKeeps
  <2> QED BY <2>2, <2>3 DEF PutAdjustment, Moves
<1>8. ASSUME NEW row, PutAdjustment(h, j.of, row), j.do \in OnAdjustment PROVE Moves(h)
  <2>1. j.of \in Adjustments /\ Unpaid(j.of)
    BY <1>0, <1>8, JobShapes DEF Ready, OnAdjustment
  <2>2. Keeps
    BY <1>8, <2>1, AdjustmentKeeps DEF Unpaid
  <2> QED BY <1>8, <2>2 DEF PutAdjustment, Moves
<1>9. CASE UpdateAdjustment(h) \/ RemoveAdjustment(h)
  BY <1>8, <1>9 DEF UpdateAdjustment, RemoveAdjustment, At, OnAdjustment
<1>10. CASE PayoutStep(h)
  BY <1>10, PayoutKeeps DEF PayoutStep, Vouchered, Called, Moves
<1> QED
  BY <1>1, <1>2, <1>3, <1>4, <1>5, <1>6, <1>7, <1>9, <1>10 DEF PayStep

LEMMA MoveMoves ==
    ASSUME Inv, TripFacts, NEW h \in Handlers, Ready(job[h]), MoveStep(h)
    PROVE  Moves(h)
<1> DEFINE j == job[h]
           s == [shipment EXCEPT !.status = j.to]
<1>1. ASSUME NEW to, LoadTransition(h, to) PROVE Moves(h)
  <2>1. Ready([do |-> "transition", to |-> to])
    BY <1>1 DEF LoadTransition, Ready, OnCharge, OnAdjustment
  <2> QED BY <1>1, <2>1, TakenMoves DEF LoadTransition
<1>2. CASE Transition(h)
  <2>1. IsAllowed(shipment.status, j.to) /\ (j.to = "COMPLETED" => Waiting = {})
    BY <1>2 DEF Transition, At, Ready, ReadyToComplete
  <2>2. j.to # "DRAFT"
    BY <2>1 DEF IsAllowed, Follows
  <2>3. shipment \in ShipmentRow
    BY DEF Inv, TablesOK, GoodShipment
  <2>4. /\ s.status = j.to /\ s.cutPaid = shipment.cutPaid /\ s.cut = shipment.cut
        /\ s.gas = shipment.gas /\ s.moved = shipment.moved
        /\ s.client = shipment.client /\ s.net = shipment.net
    BY <2>3 DEF ShipmentRow
  <2>5. PutShipment(h, s)
    BY <1>2 DEF Transition
  <2> HIDE DEF s
  <2>6. Keeps
    BY <2>1, <2>2, <2>4, <2>5, ShipmentKeeps DEF PutShipment
  <2> QED BY <2>5, <2>6 DEF PutShipment, Moves
<1> QED BY <1>1, <1>2 DEF MoveStep

-----------------------------------------------------------------------------
(* The induction. *)

Step(h) == ChargeStep(h) \/ RateStep(h) \/ PaymentStep(h) \/ PayStep(h) \/ MoveStep(h) \/ Crash(h)

LEMMA StepTakes ==
    ASSUME Inv, NEW h \in Handlers, Step(h)
    PROVE  Takes(h)
  BY ChargeTakes, RateTakes, PaymentTakes, PayTakes, MoveTakes, RefusedTakes DEF Step, Crash

LEMMA StepMoves ==
    ASSUME Inv, TripFacts, NEW h \in Handlers, Ready(job[h]), Step(h)
    PROVE  Moves(h)
<1>1. CASE Crash(h)
  BY <1>1, NothingMoves DEF Crash, Moves, tables
<1> QED BY <1>1, ChargeMoves, RateMoves, PaymentMoves, PayMoves, MoveMoves DEF Step

LEMMA ReadyStays ==
    ASSUME NEW j, Ready(j), UNCHANGED tables
    PROVE  Ready(j)'
  BY DEF tables, Ready, ChargesEditable, NothingPaid, Computed, CutKept, MayAlterCut, Computable,
         BasisNow, CommissionableCharges, Counted, GasRate, Unpaid, Live, Exists, ReadyToComplete,
         Waiting

LEMMA RestingIsReady == Ready(Idle)' /\ Ready(Off)'
  BY DEF Ready, Idle, Off, OnCharge, OnAdjustment

LEMMA FactsStay ==
    ASSUME TripFacts, UNCHANGED tables
    PROVE  TripFacts'
  BY DEF tables, TripFacts, Covered, Computed, Counted, Waiting, Live, Exists

\* With one handler at work, the others are off before and after a step.
LEMMA OthersAreOff ==
    ASSUME Inv, NEW h \in Working, Takes(h), OneAtATime'
    PROVE  /\ OneAtATime
           /\ \A k \in Handlers : k # h => job[k] = Off /\ job'[k] = Off
<1>1. PICK j : j.do # "off" /\ job' = [job EXCEPT ![h] = j]
  BY DEF Takes
<1>2. \A k \in Handlers : job'[k] = IF k = h THEN j ELSE job[k]
  BY <1>1 DEF Inv
<1>3. j # Off
  BY <1>1 DEF Off
<1>4. h \in Handlers /\ h \in Working'
  BY <1>2, <1>3 DEF Working
<1>5. ASSUME NEW k \in Handlers, k # h PROVE job'[k] = Off /\ job[k] = Off
  <2>1. k \notin Working'
    BY <1>4, <1>5 DEF OneAtATime
  <2> QED BY <1>2, <1>5, <2>1 DEF Working
<1> QED BY <1>5 DEF OneAtATime, Working

LEMMA AloneKeeps ==
    ASSUME Inv, Alone, OneAtATime, [Next]_vars
    PROVE  Keeps
<1>1. TripFacts /\ \A h \in Handlers : Ready(job[h])
  BY DEF Alone
<1>2. ASSUME NEW h \in Working, Step(h) PROVE Keeps
  <2>1. h \in Handlers
    BY DEF Working
  <2>2. Moves(h)
    BY <1>1, <1>2, <2>1, StepMoves
  <2> QED BY <1>1, <2>2, NothingMoves DEF Moves, Accept, tables
<1>3. CASE UNCHANGED vars
  BY <1>1, <1>3, NothingMoves DEF vars, tables
<1> QED BY <1>2, <1>3 DEF Next, Step

LEMMA AloneStays == Inv /\ Alone /\ [Next]_vars => Alone'
<1> SUFFICES ASSUME Inv, Alone, [Next]_vars, OneAtATime'
             PROVE  TripFacts' /\ \A k \in Handlers : Ready(job[k])'
  BY DEF Alone
<1>1. CASE UNCHANGED vars
  <2>1. OneAtATime /\ UNCHANGED tables /\ job' = job
    BY <1>1 DEF vars, OneAtATime, Working
  <2>2. TripFacts /\ \A k \in Handlers : Ready(job[k])
    BY <2>1 DEF Alone
  <2>3. \A k \in Handlers : Ready(job[k])'
    BY <2>1, <2>2, ReadyStays
  <2> QED BY <2>1, <2>2, <2>3, FactsStay
<1>2. ASSUME NEW h \in Working, Step(h)
      PROVE  TripFacts' /\ \A k \in Handlers : Ready(job[k])'
  <2>1. h \in Handlers /\ Takes(h)
    BY <1>2, StepTakes DEF Working
  <2>2. OneAtATime /\ \A k \in Handlers : k # h => job'[k] = Off
    BY <2>1, OthersAreOff
  <2>3. TripFacts /\ Ready(job[h])
    BY <2>1, <2>2 DEF Alone
  <2>4. Moves(h)
    BY <1>2, <2>1, <2>3, StepMoves
  <2>5. ASSUME NEW k \in Handlers, k # h PROVE Ready(job[k])'
    BY <2>2, <2>5, RestingIsReady
  <2>6. Ready(job[h])'
    BY <2>1, <2>3, <2>4, ReadyStays, RestingIsReady DEF Moves, Accept, Done, Inv
  <2>7. TripFacts'
    BY <2>3, <2>4, FactsStay DEF Moves, Accept, Keeps
  <2> QED BY <2>5, <2>6, <2>7
<1> QED BY <1>1, <1>2 DEF Next, Step

LEMMA StartsAlone == Init => Alone
<1> SUFFICES ASSUME Init PROVE Alone
  OBVIOUS
<1>1. \A h \in Handlers : job[h] \in {Idle, Off}
  BY DEF Init
<1>2. \A h \in Handlers : Ready(job[h])
  BY <1>1 DEF Ready, Idle, Off, OnCharge, OnAdjustment
<1>3. ~ Computed /\ Waiting = {}
  BY DEF Init, Computed, Waiting, Live, Exists
<1> QED BY <1>2, <1>3 DEF Alone, TripFacts, Covered

LEMMA BothHold == Spec => [](Inv /\ Alone)
<1>1. Init => Inv /\ Alone
  BY Starts, StartsAlone
<1>2. Inv /\ Alone /\ [Next]_vars => (Inv /\ Alone)'
  BY Steps, AloneStays
<1> QED BY <1>1, <1>2, PTL DEF Spec

-----------------------------------------------------------------------------
(* The theorems. *)

\* While requests do not overlap, no charge is left waiting on a completed trip
\* (assertReadyToComplete asks, assertChargesEditable closes).
THEOREM NoChargeIsStranded == Spec => []NoChargeStranded
<1>1. Inv /\ Alone => NoChargeStranded
  BY DEF Alone, TripFacts, NoChargeStranded
<1> QED BY <1>1, BothHold, PTL

\* While requests do not overlap, pay that isComputationStale does not flag was
\* computed from this client, this net rate, and every charge that counts.
THEOREM PayAlwaysCovers == Spec => []PayCoversWhatCounts
<1>1. ASSUME Inv, TripFacts, Computed, ~ Stale
      PROVE  /\ commission.basis.client = shipment.client
             /\ commission.basis.net = shipment.net
             /\ CommissionableCharges \subseteq commission.basis.charges
  <2>1. ~ shipment.moved /\ \A c \in MayHaveMovedBase : ~ charge[c].after
    BY <1>1 DEF Stale
  <2>2. Counted \subseteq MayHaveMovedBase
    BY DEF Counted, MayHaveMovedBase
  <2>3. \A c \in Counted : charge[c].commissionable =>
           <<c, charge[c].billed>> \in commission.basis.charges
    BY <1>1, <2>1, <2>2 DEF TripFacts, Covered
  <2>4. CommissionableCharges \subseteq commission.basis.charges
    BY <2>3 DEF CommissionableCharges
  <2> QED BY <1>1, <2>1, <2>4 DEF TripFacts, Covered
<1>2. Inv /\ Alone => PayCoversWhatCounts
  BY <1>1 DEF Alone, PayCoversWhatCounts
<1> QED BY <1>2, BothHold, PTL

\* While requests do not overlap, what accounting has signed off changes by
\* accounting's hand only (assertMayAlter, assertMayAlterCutPayment).
THEOREM WhatIsSignedOffStands == Spec => SignedOffStands
<1>1. Inv /\ Alone /\ [Next]_vars => [OneAtATime => LeavesSignedOff]_vars
  BY AloneKeeps DEF Keeps
<1> QED BY <1>1, BothHold, PTL DEF Spec, SignedOffStands

\* While requests do not overlap, money paid out keeps its amount: an adjustment
\* on a voucher, and the broker's cut (assertUnpaid, assertCutNotSettled).
THEOREM WhatIsPaidOutStands == Spec => PaidRecordsStand
<1>1. Inv /\ Alone /\ [Next]_vars => [OneAtATime => LeavesPaidAdjustments /\ LeavesPaidCut]_vars
  BY AloneKeeps DEF Keeps
<1> QED BY <1>1, BothHold, PTL DEF Spec, PaidRecordsStand

\* A paid commission is never superseded, whatever overlaps: the trigger asks in
\* the transaction that writes (paid_commission_no_soft_delete).
LEMMA PaidPayStays == Inv /\ [Next]_vars => LeavesPaidPay
<1> SUFFICES ASSUME Inv, [Next]_vars, Computed, commission.voucher = "paid"
             PROVE  commission' = commission
  BY DEF LeavesPaidPay
<1>1. ASSUME NEW h \in Handlers, NEW j, Accept(h, j) PROVE commission' = commission
  BY <1>1 DEF Accept, tables
<1>2. ASSUME NEW h \in Handlers, ChargeStep(h) PROVE commission' = commission
  BY <1>1, <1>2 DEF ChargeStep, ChargeCalled, LoadAddCharge, LoadUpdateCharge, LoadRemoveCharge,
         LoadApproveCharge, LoadReturnCharge, AddBillableExpense, AddAdditionalCharge, AddCharge,
         UpdateCharge, RemoveCharge, DecideCharge, WriteCharge
<1>3. ASSUME NEW h \in Handlers, RateStep(h) PROVE commission' = commission
  BY <1>1, <1>3 DEF RateStep, RateCalled, LoadEditBooking, LoadCorrectRates, LoadOverrideGas,
         UpdateGasSetting, LoadMarkCutPaid, LoadUnmarkCut, LoadVerifyCut, LoadReturnCut,
         EditBooking, CorrectRates, OverrideGas, MarkThirdPartyCommissionPaid,
         UnmarkThirdPartyCommissionPaid, DecideCut, DecideCutRefused, PutShipment, tables
<1>4. ASSUME NEW h \in Handlers, PaymentStep(h) PROVE commission' = commission
  BY <1>1, <1>4 DEF PaymentStep, LoadRecord, LoadUpdatePayment, LoadRemovePayment,
         LoadVerifyPayment, LoadReturnPayment, RecordPayment, UpdatePayment, RemovePayment,
         DecidePayment, WritePayment
<1>5. ASSUME NEW h \in Handlers, PayStep(h) PROVE commission' = commission
  <2>1. ~ Compute(h)
    BY DEF Compute, MaySupersede
  <2>2. CASE PayoutStep(h)
    BY <2>2 DEF PayoutStep
  <2> QED BY <1>1, <1>5, <2>1, <2>2 DEF PayStep, LoadCompute, ComputeRefused, LoadAddAdjustment,
         LoadUpdateAdjustment, LoadRemoveAdjustment, CreateAdjustment, UpdateAdjustment,
         RemoveAdjustment, PutAdjustment, tables
<1>6. ASSUME NEW h \in Handlers, MoveStep(h) \/ Crash(h) PROVE commission' = commission
  BY <1>1, <1>6 DEF MoveStep, LoadTransition, Transition, PutShipment, Crash, tables
<1>7. CASE UNCHANGED vars
  BY <1>7 DEF vars, tables
<1> QED BY <1>2, <1>3, <1>4, <1>5, <1>6, <1>7 DEF Next, Working

\* Paid pay is never superseded; and while requests do not overlap, what paid or
\* drafted pay was computed from does not move either (assertNothingPaid).
THEOREM WhatPayRestsOnStands == Spec => PaidBasisStands
<1>1. Inv /\ Alone /\ [Next]_vars => [LeavesPaidPay /\ (OneAtATime => LeavesPaidBasis)]_vars
  BY AloneKeeps, PaidPayStays DEF Keeps
<1> QED BY <1>1, BothHold, PTL DEF Spec, PaidBasisStands
=============================================================================

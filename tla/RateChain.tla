------------------------------ MODULE RateChain -----------------------------
(***************************************************************************)
(* ShipmentsService over the figures of a trip: the booking edit, the      *)
(* correction of the rate chain, the gas override, and the broker's cut    *)
(* marked as paid.  gross - cut = net, and net is what crew pay is         *)
(* computed from.                                                          *)
(***************************************************************************)
EXTENDS MoneyTables

\* Mutant: the rest of a centavo is dropped.
PercentTruncated(gross, percent) == (gross * percent) \div 100

\* computeRateChain: a percentage of gross rounds half up to the smallest unit,
\* and wins over a figure; with neither there is no cut.
PercentOf(gross, percent) == (gross * percent + 50) \div 100
CutOf(gross, percent, flat) ==
    IF percent # None THEN PercentOf(gross, percent) ELSE IF flat # None THEN flat ELSE 0
ComputeRateChain(gross, percent, flat) ==
    [gross |-> gross, percent |-> percent, cut |-> CutOf(gross, percent, flat),
     net |-> gross - CutOf(gross, percent, flat)]

Chain == [gross : GrossRates, percent : Percents \cup {None}, cut : Nat, net : Int]
CurrentChain == [gross |-> shipment.gross, percent |-> shipment.percent,
                 cut |-> shipment.cut, net |-> shipment.net]

\* hasUnambiguousTpc and hasBrokerForTpc, on the merged deal.
Given(field) == field \notin {None, Unsaid}
UnambiguousTpc(percent, flat) == ~ (Given(percent) /\ Given(flat))
BrokerForTpc(broker, percent, flat) == broker # None \/ ~ (Given(percent) \/ Given(flat))

\* assertNetRateIsSane
NetRateIsSane(rates) == rates.net >= 0

\* Mutant: only the broker is compared.
BrokerNotSettled(broker, cut) == shipment.cutPaid # None => broker = shipment.broker

\* assertCutNotSettled: under a paid mark neither broker nor cut may move.
CutNotSettled(broker, cut) ==
    shipment.cutPaid # None => broker = shipment.broker /\ cut = shipment.cut
-----------------------------------------------------------------------------
Deal == [broker : Brokers \cup {None, Unsaid}, gross : GrossRates \cup {Unsaid},
         percent : Percents \cup {None, Unsaid}, flat : Flats \cup {None, Unsaid}]
TouchesRates(put) == put.gross # Unsaid \/ put.percent # Unsaid \/ put.flat # Unsaid
DraftOnly(put) == put.broker # Unsaid \/ TouchesRates(put)

RateJob ==
    [do : {"editBooking"}, client : Clients \cup {Unsaid}, broker : Brokers \cup {None, Unsaid},
     chain : Chain \cup {Unsaid}, moved : BOOLEAN]
    \cup [do : {"correctRates"}, broker : Brokers \cup {None}, chain : Chain]
    \cup [do : {"overrideGas"}, gas : GasRates \cup {None}]
    \cup [do : {"markCutPaid"}, by : Users]
    \cup [do : {"unmarkCut"}, by : Users]
    \cup [do : {"decideCut"}, by : Accounting, to : {"VERIFIED", "RETURNED"}]

\* Mutant: the broker as sent, not merged with the one on the trip.
BrokerAsSent(put) == put.broker

\* update: the merged broker and percentage; without a figure in the PATCH, a
\* deal that is not a percentage keeps the cut it has.
Broker(put) == Named(put.broker, shipment.broker)
Percent(put) == Named(put.percent, shipment.percent)
EditedChain(put) ==
    ComputeRateChain(Named(put.gross, shipment.gross), Percent(put),
                     IF Given(put.flat) THEN put.flat ELSE shipment.cut)
ScopeMoves(client) == client \notin {Unsaid, shipment.client}

LoadEditBooking(h, client, put) ==
    /\ Called(h, "editBooking")
    /\ shipment.status # "COMPLETED"
    /\ DraftOnly(put) => shipment.status = "DRAFT"
    /\ ScopeMoves(client) => NothingPaid
    /\ UnambiguousTpc(Percent(put), put.flat)
    /\ BrokerForTpc(Broker(put), Percent(put), put.flat)
    /\ TouchesRates(put) =>
          NetRateIsSane(EditedChain(put)) /\ CutNotSettled(Broker(put), EditedChain(put).cut)
    /\ Accept(h, [do |-> "editBooking", client |-> client, broker |-> put.broker,
                  chain |-> IF TouchesRates(put) THEN EditedChain(put) ELSE Unsaid,
                  moved |-> ScopeMoves(client)])

Priced(row, chain) == [row EXCEPT !.gross = chain.gross, !.percent = chain.percent,
                                  !.cut = chain.cut, !.net = chain.net]
PutShipment(h, row) ==
    /\ shipment' = row
    /\ Done(h)
    /\ UNCHANGED <<charge, payment, commission, adjustment, gasSetting>>

\* Only a moved client or route stamps rateChainUpdatedAt here.
EditBooking(h) ==
    /\ At(h, "editBooking")
    /\ PutShipment(h, [Priced(shipment, Named(job[h].chain, CurrentChain)) EXCEPT
                           !.client = Named(job[h].client, @),
                           !.broker = Named(job[h].broker, @),
                           !.moved = @ \/ job[h].moved])
-----------------------------------------------------------------------------
\* updateRateChain: a cut belongs to the broker it was agreed with, so a new
\* broker has to state it again, and a direct client keeps none.
Restated(put) == put.percent # Unsaid \/ put.flat # Unsaid
BrokerChanged(put) == Broker(put) # shipment.broker
Inherits(put) == ~ Restated(put) /\ ~ BrokerChanged(put) /\ shipment.broker # None
NewPercent(put) ==
    IF Restated(put) THEN Named(put.percent, None)
    ELSE IF Inherits(put) THEN shipment.percent ELSE None
NewFlat(put) ==
    IF Restated(put) THEN Named(put.flat, None)
    ELSE IF Inherits(put) /\ shipment.percent = None THEN shipment.cut ELSE None
CorrectedChain(put) ==
    ComputeRateChain(Named(put.gross, shipment.gross), NewPercent(put), NewFlat(put))

LoadCorrectRates(h, put) ==
    /\ Called(h, "correctRates")
    /\ shipment.status # "COMPLETED"
    /\ NothingPaid
    /\ BrokerChanged(put) /\ Broker(put) # None => Restated(put)
    /\ UnambiguousTpc(NewPercent(put), NewFlat(put))
    /\ BrokerForTpc(Broker(put), NewPercent(put), NewFlat(put))
    /\ NetRateIsSane(CorrectedChain(put))
    /\ CutNotSettled(Broker(put), CorrectedChain(put).cut)
    /\ Accept(h, [do |-> "correctRates", broker |-> Broker(put), chain |-> CorrectedChain(put)])

CorrectRates(h) ==
    /\ At(h, "correctRates")
    /\ PutShipment(h, [Priced(shipment, job[h].chain) EXCEPT
                           !.broker = job[h].broker, !.moved = TRUE])
-----------------------------------------------------------------------------
\* setGasRateOverride: whatever the status; it writes the input column only.
LoadOverrideGas(h, gas) ==
    /\ Called(h, "overrideGas")
    /\ NothingPaid
    /\ Accept(h, [do |-> "overrideGas", gas |-> gas])

OverrideGas(h) ==
    /\ At(h, "overrideGas")
    /\ PutShipment(h, [shipment EXCEPT !.gas = job[h].gas])

\* SettingsService.update, one transaction; a rate that is not new is not written.
UpdateGasSetting(h, gas) ==
    /\ Called(h, "updateSetting")
    /\ gas # gasSetting
    /\ gasSetting' = gas
    /\ UNCHANGED <<shipment, charge, payment, commission, adjustment, job>>
-----------------------------------------------------------------------------
\* Mutant: whoever may mark the cut may change a mark accounting has verified.
MayAlwaysAlterCut(u) == u \in Users

\* assertMayAlterCutPayment
MayAlterCut(u) == shipment.cutPaid # None => MayAlter(shipment.cutPaid, u)

LoadMarkCutPaid(h, u) ==
    /\ Called(h, "markCutPaid")
    /\ shipment.broker # None /\ shipment.cut # 0
    /\ MayAlterCut(u)
    /\ Accept(h, [do |-> "markCutPaid", by |-> u])

MarkThirdPartyCommissionPaid(h) ==
    /\ At(h, "markCutPaid")
    /\ PutShipment(h, [shipment EXCEPT !.cutPaid = VerificationOnWriteBy(job[h].by)])

LoadUnmarkCut(h, u) ==
    /\ Called(h, "unmarkCut")
    /\ MayAlterCut(u)
    /\ Accept(h, [do |-> "unmarkCut", by |-> u])

UnmarkThirdPartyCommissionPaid(h) ==
    /\ At(h, "unmarkCut")
    /\ PutShipment(h, [shipment EXCEPT !.cutPaid = None])

\* loadMarkedPaid; a verified payment is not verified again.
LoadVerifyCut(h, u) ==
    /\ Called(h, "verifyCut")
    /\ MayVerify(u)
    /\ shipment.cutPaid # None /\ shipment.cutPaid.status # "VERIFIED"
    /\ Accept(h, [do |-> "decideCut", by |-> u, to |-> "VERIFIED"])

LoadReturnCut(h, u) ==
    /\ Called(h, "returnCut")
    /\ MayVerify(u)
    /\ shipment.cutPaid # None
    /\ Accept(h, [do |-> "decideCut", by |-> u, to |-> "RETURNED"])

\* shipment_tpc_verification CHECK: no verdict on a cut nobody marked paid.
DecideCut(h) ==
    /\ At(h, "decideCut")
    /\ shipment.cutPaid # None
    /\ PutShipment(h, [shipment EXCEPT !.cutPaid = [status |-> job[h].to, by |-> job[h].by]])

DecideCutRefused(h) ==
    /\ At(h, "decideCut")
    /\ shipment.cutPaid = None
    /\ Done(h)
    /\ UNCHANGED tables

RateCalled(h) ==
    \/ \E put \in Deal :
          \/ \E client \in Clients \cup {Unsaid} : LoadEditBooking(h, client, put)
          \/ LoadCorrectRates(h, put)
    \/ \E gas \in GasRates : LoadOverrideGas(h, gas) \/ UpdateGasSetting(h, gas)
    \/ LoadOverrideGas(h, None)
    \/ \E u \in Users :
          \/ LoadMarkCutPaid(h, u) \/ LoadUnmarkCut(h, u)
          \/ LoadVerifyCut(h, u) \/ LoadReturnCut(h, u)

RateStep(h) ==
    \/ job[h] = Idle /\ RateCalled(h)
    \/ EditBooking(h) \/ CorrectRates(h) \/ OverrideGas(h)
    \/ MarkThirdPartyCommissionPaid(h) \/ UnmarkThirdPartyCommissionPaid(h)
    \/ DecideCut(h) \/ DecideCutRefused(h)
=============================================================================

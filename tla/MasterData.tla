----------------------------- MODULE MasterData -----------------------------
(***************************************************************************)
(* One record of master data - a client, a route, a truck, a broker, a     *)
(* payee, an expense category or a person - edited and removed while rows  *)
(* that name it come and go.  Removal asks first who names the record, and *)
(* deactivates it if anybody does (removal.ts).                            *)
(***************************************************************************)
EXTENDS DeskTables

\* Whom each removal asks, a list per service.
ClientProbes == {"shipment", "rule"}
RouteProbes == {"shipment", "rule"}
TruckProbes == {"shipment"}
ThirdPartyProbes == {"shipment"}
\* Billable expenses are not among them.
PayeeProbes == {"line", "companyPaid", "operation"}
CategoryProbes == {"line", "billable", "companyPaid", "operation"}
StaffProbes == {"shipment", "user", "liquidation", "adjustment"}
Probes ==
    [client |-> ClientProbes, route |-> RouteProbes, truck |-> TruckProbes,
     thirdParty |-> ThirdPartyProbes, payee |-> PayeeProbes,
     category |-> CategoryProbes, staff |-> StaffProbes]
\* The one table whose rows may really be deleted.
Deletable == {"category"}
\* Only an active person is put aboard.  A truck must be active to be assigned, but a
\* booking may come with one that is not; of the others nobody asks.
OffersOnlyActive == {"staff"}

RecordJob ==
    [do : {"insertNaming"}, from : UNION {NamedBy[e] : e \in Entity}]
    \cup [do : {"removeNaming"}, of : Names]
    \cup [do : {"patchRecord"}, active : BOOLEAN \cup {None}]
    \cup [do : {"count"}, left : SUBSET UNION {Probes[e] : e \in Entity}, found : BOOLEAN]
    \cup [do : {"deactivateRecord", "softDeleteRecord", "hardDeleteRecord"}]

RecordIsLive == record # None /\ record.live
NamedFrom(table) == \E n \in Live(naming) : naming[n].from = table

\* A row that is to name the record: does it exist?
LoadName(h, table) ==
    /\ Waiting(h, "records")
    /\ table \in NamedBy[entity]
    /\ RecordIsLive
    /\ entity \in OffersOnlyActive /\ table = "shipment" => record.active
    /\ Begin(h, [do |-> "insertNaming", from |-> table])
\* Mutant: no foreign key.
NoForeignKey == TRUE
\* ON DELETE RESTRICT looks at every row, removed or not, from both sides.
KeyHolds == record # None
InsertNaming(h, n) ==
    /\ At(h, "insertNaming")
    /\ KeyHolds
    /\ IsNew(naming, n)
    /\ naming' = [naming EXCEPT ![n] = [from |-> job[h].from, live |-> TRUE]]
    /\ Done(h)
    /\ UNCHANGED <<trip, record, rule, winner>>
InsertNamingRefused(h) == At(h, "insertNaming") /\ ~ KeyHolds /\ Refuse(h)

LoadRemoveNaming(h, n) ==
    /\ Waiting(h, "records")
    /\ n \in Live(naming)
    /\ Begin(h, [do |-> "removeNaming", of |-> n])
RemoveNaming(h) ==
    /\ At(h, "removeNaming")
    /\ naming' = [naming EXCEPT ![job[h].of].live = FALSE]
    /\ Done(h)
    /\ UNCHANGED <<trip, record, rule, winner>>
-----------------------------------------------------------------------------
LoadPatchRecord(h, active) ==
    /\ Waiting(h, "records")
    /\ RecordIsLive
    /\ Begin(h, [do |-> "patchRecord", active |-> active])
\* A patch that does not say is read as one that says TRUE, because the default
\* stays under .partial(); the schema of categories is written to avoid it.
ActiveAfter(active) ==
    IF active # None THEN active ELSE IF entity = "category" THEN record.active ELSE TRUE
PatchRecord(h) ==
    /\ At(h, "patchRecord")
    /\ record # None
    /\ record' = [record EXCEPT !.active = ActiveAfter(job[h].active)]
    /\ Done(h)
    /\ UNCHANGED <<trip, naming, rule, winner>>

\* remove begins alike in the service of every table: get, then the plan.
LoadRemoveRecord(h) ==
    /\ Waiting(h, "records")
    /\ RecordIsLive
    /\ Begin(h, [do |-> "count", left |-> Probes[entity], found |-> FALSE])
\* collectReferences: the counts run side by side.
Count(h, table) ==
    /\ At(h, "count")
    /\ table \in job[h].left
    /\ GoOn(h, [do |-> "count", left |-> job[h].left \ {table},
                found |-> job[h].found \/ NamedFrom(table)])
\* Mutant: removed whoever names it.
RemoveAnyway(h) ==
    /\ At(h, "count") /\ job[h].left = {}
    /\ GoOn(h, [do |-> IF entity \in Deletable THEN "hardDeleteRecord" ELSE "softDeleteRecord"])
\* removeRecord
Decide(h) ==
    /\ At(h, "count") /\ job[h].left = {}
    /\ GoOn(h, [do |-> IF job[h].found THEN "deactivateRecord"
                       ELSE IF entity \in Deletable THEN "hardDeleteRecord"
                       ELSE "softDeleteRecord"])
DeactivateRecord(h) ==
    /\ At(h, "deactivateRecord")
    /\ record # None
    /\ record' = [record EXCEPT !.active = FALSE]
    /\ Done(h)
    /\ UNCHANGED <<trip, naming, rule, winner>>
SoftDeleteRecord(h) ==
    /\ At(h, "softDeleteRecord")
    /\ record' = [record EXCEPT !.live = FALSE]
    /\ Done(h)
    /\ UNCHANGED <<trip, naming, rule, winner>>
HardDeleteRecord(h) ==
    /\ At(h, "hardDeleteRecord")
    /\ record # None /\ Exists(naming) = {}
    /\ record' = None
    /\ Done(h)
    /\ UNCHANGED <<trip, naming, rule, winner>>
\* The foreign key refuses, or the row is gone already.
WriteRecordRefused(h) ==
    /\ \/ At(h, "hardDeleteRecord") /\ (record = None \/ Exists(naming) # {})
       \/ (At(h, "patchRecord") \/ At(h, "deactivateRecord")) /\ record = None
    /\ Refuse(h)

RecordStep(h) ==
    \/ \E table \in UNION {NamedBy[e] : e \in Entity} : LoadName(h, table) \/ Count(h, table)
    \/ \E n \in Names : InsertNaming(h, n) \/ LoadRemoveNaming(h, n)
    \/ \E active \in BOOLEAN \cup {None} : LoadPatchRecord(h, active)
    \/ InsertNamingRefused(h) \/ RemoveNaming(h) \/ PatchRecord(h) \/ LoadRemoveRecord(h)
    \/ Decide(h) \/ DeactivateRecord(h) \/ SoftDeleteRecord(h) \/ HardDeleteRecord(h)
    \/ WriteRecordRefused(h)
=============================================================================

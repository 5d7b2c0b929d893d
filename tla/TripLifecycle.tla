---------------------------- MODULE TripLifecycle ---------------------------
(***************************************************************************)
(* ShipmentsService on one trip, with the opening, numbering and naming of *)
(* its liquidation accounts and the commissions its crew are paid.         *)
(*                                                                         *)
(* What an account carries and how it is approved is TripCash's subject:   *)
(* here an account carries cash or does not, and approval is one step.     *)
(*                                                                         *)
(* As in TripTables, job[h] is the statement handler h executes next with  *)
(* what it has read so far.  A $transaction that reads between its writes  *)
(* takes several steps: its reads see what is committed, an UPDATE waits   *)
(* for the shipment row if another transaction has updated it, and what it *)
(* writes is seen at the commit.  The INSERT is taken with the commit: who *)
(* meets the uncommitted row in a unique index waits for it anyway.        *)
(***************************************************************************)
EXTENDS Integers

CONSTANTS
    Handlers,       \* API requests that may be in flight at the same time
    Accounts,       \* liquidation ids
    Staff,          \* people who may drive, help or hold the trip's cash
    OfficeHolders,  \* those who may hold it without being on the truck
    Attempts,       \* ACCOUNT_NUMBER_ATTEMPTS
    Workload,       \* the handlers clients call in this instance
    None            \* SQL NULL, and a row that does not exist

ASSUME StaffAreKnown == OfficeHolders \subseteq Staff /\ None \notin Staff \cup Accounts
ASSUME SomeAttempts == Attempts \in Nat \ {0}

VARIABLES
    trip,        \* the shipment row
    account,     \* the trip's liquidation rows
    commission,  \* its live commission rows, or None
    job          \* the statement each running handler executes next

tables == <<trip, account, commission>>
vars == <<tables, job>>

-----------------------------------------------------------------------------
Rank == [DRAFT |-> 0, DISPATCHED |-> 1, IN_TRANSIT |-> 2, DELIVERED |-> 3, COMPLETED |-> 4]
Status == DOMAIN Rank
Person == Staff \cup {None}

\* "computed" is commissionsComputedAt IS NOT NULL, "truck" truckId IS NOT NULL.
Trip == [live : BOOLEAN, status : Status, driver : Person, helper : Person,
         truck : BOOLEAN, computed : BOOLEAN]

\* "carries" stands for the live releases, claims, waiting asks and rebills.
Account == [live : BOOLEAN, sequence : Nat \ {0}, custodian : Person,
            approved : BOOLEAN, carries : BOOLEAN]

\* One row for each filled slot.  "voucher" is whether payoutLineId links them
\* to a payout line, and whether its run is PAID.
Commission == [driver : Person, helper : Person, voucher : {"none", "draft", "paid"}]

ASSUME NoneIsNoAccount == None \notin Account /\ None \notin Commission

Op == {"idle", "assignCrew", "crew.number", "crew.commit", "assignTruck", "transition",
       "deliver.number", "deliver.commit", "open", "open.insert", "setCustodian",
       "removeAccount", "compute", "remove"}

Job == [op : Op, to : Status \cup {None}, acct : Accounts \cup {None}, driver : Person,
        who : Person, flag : BOOLEAN, seq : Nat, tries : Nat]

TypeOK ==
    /\ trip \in Trip
    /\ account \in [Accounts -> Account \cup {None}]
    /\ commission \in Commission \cup {None}
    /\ job \in [Handlers -> Job]

-----------------------------------------------------------------------------
(* Reads and handlers. *)

Rows == {a \in Accounts : account[a] # None}
Live == {a \in Rows : account[a].live}
Open(a) == a \in Live /\ ~ account[a].approved
Unnamed(a) == account[a].custodian = None

\* assertNothingPaid counts the rows that name a payout line, paid or not.
NothingPaid == commission # None => commission.voucher = "none"

Idle == [op |-> "idle", to |-> None, acct |-> None, driver |-> None, who |-> None,
         flag |-> FALSE, seq |-> 0, tries |-> 0]

Called(h, op) == job[h] = Idle /\ op \in Workload
At(h, op) == job[h].op = op
GoOn(h, next) == job' = [job EXCEPT ![h] = next]
Return(h) == GoOn(h, Idle)

\* A transaction that has updated the shipment row holds its lock to the end.
HoldsTrip(h) == job[h].op \in {"crew.number", "crew.commit", "deliver.number", "deliver.commit"}
TripUnlocked == \A h \in Handlers : ~ HoldsTrip(h)

\* The process dies, or the database refuses and the handler gives up.  What
\* a transaction had done so far is rolled back with it.
Crash(h) ==
    /\ job[h] # Idle
    /\ Return(h)
    /\ UNCHANGED tables

-----------------------------------------------------------------------------
(* Account numbers. *)

\* findFirst ordered by sequence desc, deleted rows included; 0 if none.
Latest ==
    IF Rows = {} THEN {0}
    ELSE {account[a].sequence :
             a \in {b \in Rows : \A c \in Rows : account[c].sequence <= account[b].sequence}}

\* Mutant: the number of the latest account.
SameNumber(h, op) == \E n \in Latest : GoOn(h, [job[h] EXCEPT !.op = op, !.seq = n])

\* nextSequence: read the latest number, and add one.
NextSequence(h, op) == \E n \in Latest : GoOn(h, [job[h] EXCEPT !.op = op, !.seq = n + 1])

\* Mutant: no unique index on numbers.
NoNumberKey(n) == n > 0

\* liquidation_shipment_sequence_key, which is not partial.
NumberFree(n) == \A a \in Rows : account[a].sequence # n

\* Mutant: no unique index on unnamed accounts.
NoUnnamedKey(others, c) == others \subseteq Accounts /\ (c = None \/ c # None)

\* liquidation_shipment_unnamed_live_key: may a live account have custodian c
\* beside these others?
MayBear(others, c) == c = None => \A b \in others : ~ Unnamed(b)

NewAccount(n, c) == [live |-> TRUE, sequence |-> n, custodian |-> c,
                     approved |-> FALSE, carries |-> FALSE]

\* An INSERT that both indexes accept.
MayInsert(n, c) == NumberFree(n) /\ MayBear(Live, c)
Insert(n, c) ==
    \E a \in Accounts \ Rows : account' = [account EXCEPT ![a] = NewAccount(n, c)]

-----------------------------------------------------------------------------
(* LiquidationService.createForShipment: allocate and retry. *)

\* assertMayHoldTripCash: the crew of the trip, or an office cash holder.
MayHold(c) ==
    /\ trip.live
    /\ c \in {trip.driver, trip.helper} \cup OfficeHolders

LoadOpen(h, c) ==
    /\ Called(h, "open")
    /\ MayHold(c)
    /\ GoOn(h, [Idle EXCEPT !.op = "open", !.who = c])
    /\ UNCHANGED tables

NumberOpen(h) ==
    /\ At(h, "open")
    /\ NextSequence(h, "open.insert")
    /\ UNCHANGED tables

InsertOpen(h) ==
    /\ At(h, "open.insert")
    /\ MayInsert(job[h].seq, job[h].who)
    /\ Insert(job[h].seq, job[h].who)
    /\ Return(h)
    /\ UNCHANGED <<trip, commission>>

RetryOpen(h) ==
    /\ At(h, "open.insert")
    /\ ~ NumberFree(job[h].seq)
    /\ IF job[h].tries + 1 >= Attempts
          THEN Return(h)
          ELSE GoOn(h, [job[h] EXCEPT !.op = "open", !.tries = @ + 1])
    /\ UNCHANGED tables

-----------------------------------------------------------------------------
(* LiquidationService.setCustodian and remove. *)

LoadName(h, a, c) ==
    /\ Called(h, "setCustodian")
    /\ Open(a)
    /\ IF c = None THEN MayBear(Live \ {a}, None) ELSE MayHold(c)
    /\ GoOn(h, [Idle EXCEPT !.op = "setCustodian", !.acct = a, !.who = c])
    /\ UNCHANGED tables

\* By id, whatever has become of the account; a deleted one is in no index.
Name(h) ==
    LET a == job[h].acct IN
    /\ At(h, "setCustodian")
    /\ a \in Live => MayBear(Live \ {a}, job[h].who)
    /\ account' = [account EXCEPT ![a].custodian = job[h].who]
    /\ Return(h)
    /\ UNCHANGED <<trip, commission>>

LoadRemoveAccount(h, a) ==
    /\ Called(h, "removeAccount")
    /\ Open(a)
    /\ ~ account[a].carries
    /\ GoOn(h, [Idle EXCEPT !.op = "removeAccount", !.acct = a])
    /\ UNCHANGED tables

RemoveAccount(h) ==
    /\ At(h, "removeAccount")
    /\ account' = [account EXCEPT ![job[h].acct].live = FALSE]
    /\ Return(h)
    /\ UNCHANGED <<trip, commission>>

-----------------------------------------------------------------------------
(* What TripCash models statement by statement, in one step each: a        *)
(* release, a claim or an ask is booked on an account or taken off it (a   *)
(* claim even when the trip is completed), accounting approves the account *)
(* or reverses that (when, as TripCash says, it is submitted and nothing   *)
(* has moved; here, at any time before completion).                        *)

Book(h, a) ==
    /\ Called(h, "book")
    /\ Open(a)
    /\ account' = [account EXCEPT ![a].carries = ~ @]
    /\ UNCHANGED <<trip, commission, job>>

Decide(h, a) ==
    /\ Called(h, "decide")
    /\ a \in Live
    /\ account[a].approved => trip.status # "COMPLETED"
    /\ account' = [account EXCEPT ![a].approved = ~ @]
    /\ UNCHANGED <<trip, commission, job>>

-----------------------------------------------------------------------------
(* ShipmentsService.assignCrew and assignTruck. *)

\* Mutant: paid commissions do not stop it.
AssignPaidCrew(h, d, p) ==
    /\ Called(h, "assignCrew")
    /\ trip.live
    /\ trip.status # "COMPLETED"
    /\ d # None => d # p
    /\ GoOn(h, [Idle EXCEPT !.op = "assignCrew", !.driver = d, !.who = p])
    /\ UNCHANGED tables

LoadAssignCrew(h, d, p) ==
    /\ Called(h, "assignCrew")
    /\ trip.live
    /\ trip.status # "COMPLETED"
    /\ NothingPaid
    /\ d # None => d # p
    /\ GoOn(h, [Idle EXCEPT !.op = "assignCrew", !.driver = d, !.who = p])
    /\ UNCHANGED tables

\* Mutant: the lookup sees soft-deleted accounts.
EverHolds(p) == \E a \in Rows : account[a].custodian = p

\* ensureAccountForCustodian's lookup, approved accounts included.
Holds(p) == \E a \in Live : account[a].custodian = p

\* The transaction updates the shipment row, which locks it, and looks for the
\* helper's account.
EnsureForHelper(h) ==
    /\ At(h, "assignCrew")
    /\ TripUnlocked
    /\ GoOn(h, [job[h] EXCEPT !.op = IF job[h].who = None \/ Holds(job[h].who)
                                     THEN "crew.commit" ELSE "crew.number"])
    /\ UNCHANGED tables

NumberForHelper(h) ==
    /\ At(h, "crew.number")
    /\ NextSequence(h, "crew.commit")
    /\ UNCHANGED tables

\* seq = 0: an account was found, or there is nobody to open one for.
CommitCrew(h) ==
    LET n == job[h].seq  p == job[h].who IN
    /\ At(h, "crew.commit")
    /\ IF n = 0 THEN UNCHANGED account ELSE MayInsert(n, p) /\ Insert(n, p)
    /\ trip' = [trip EXCEPT !.driver = job[h].driver, !.helper = p]
    /\ Return(h)
    /\ UNCHANGED commission

LoadAssignTruck(h, truck) ==
    /\ Called(h, "assignTruck")
    /\ trip.live
    /\ trip.status # "COMPLETED"
    /\ ~ truck => trip.status = "DRAFT"
    /\ GoOn(h, [Idle EXCEPT !.op = "assignTruck", !.flag = truck])
    /\ UNCHANGED tables

AssignTruck(h) ==
    /\ At(h, "assignTruck")
    /\ TripUnlocked
    /\ trip' = [trip EXCEPT !.truck = job[h].flag]
    /\ Return(h)
    /\ UNCHANGED <<account, commission>>

-----------------------------------------------------------------------------
(* ShipmentsService.transition. *)

\* Mutant: any move out of a status that is not the last.
AnywhereButCompleted(to) == trip.status # "COMPLETED" /\ to \in Status

\* isAllowedManualTransition: one step forward.
IsAllowed(to) == Rank[to] = Rank[trip.status] + 1

\* assertReadyToComplete; asks and charges are TripCash's.
ReadyToComplete == trip.computed /\ \A a \in Live : account[a].approved

ReadyFor(to) ==
    /\ to = "DISPATCHED" => trip.driver # None /\ trip.truck
    /\ to = "COMPLETED" => ReadyToComplete

LoadTransition(h, to) ==
    /\ Called(h, "transition")
    /\ trip.live
    /\ IsAllowed(to)
    /\ ReadyFor(to)
    /\ GoOn(h, [Idle EXCEPT !.op = "transition", !.to = to])
    /\ UNCHANGED tables

\* By id: the status is not tested again.
Transition(h) ==
    /\ At(h, "transition")
    /\ job[h].to # "DELIVERED"
    /\ TripUnlocked
    /\ trip' = [trip EXCEPT !.status = job[h].to]
    /\ Return(h)
    /\ UNCHANGED <<account, commission>>

\* ensurePendingLiquidation's lookup: any account at all.
AnyAccount == Live # {}

\* Delivery updates the shipment row in a transaction and looks for an account.
EnsureOnDelivery(h) ==
    /\ At(h, "transition")
    /\ job[h].to = "DELIVERED"
    /\ TripUnlocked
    /\ GoOn(h, [job[h] EXCEPT !.op = IF AnyAccount THEN "deliver.commit" ELSE "deliver.number"])
    /\ UNCHANGED tables

NumberOnDelivery(h) ==
    /\ At(h, "deliver.number")
    /\ NextSequence(h, "deliver.commit")
    /\ UNCHANGED tables

CommitDelivery(h) ==
    LET n == job[h].seq IN
    /\ At(h, "deliver.commit")
    /\ IF n = 0 THEN UNCHANGED account ELSE MayInsert(n, None) /\ Insert(n, None)
    /\ trip' = [trip EXCEPT !.status = "DELIVERED"]
    /\ Return(h)
    /\ UNCHANGED commission

-----------------------------------------------------------------------------
(* CommissionService.computeForShipment, as far as it decides whose pay is *)
(* on record, and a payout run (external), which drafts it on a voucher,   *)
(* drops the draft, or pays it.                                            *)

LoadCompute(h) ==
    /\ Called(h, "compute")
    /\ trip.live
    /\ trip.status = "DELIVERED"
    /\ NothingPaid
    /\ {trip.driver, trip.helper} # {None}
    /\ GoOn(h, [Idle EXCEPT !.op = "compute", !.driver = trip.driver, !.who = trip.helper,
                            !.flag = commission # None])
    /\ UNCHANGED tables

\* Mutant: no trigger on paid commissions.
DropAnyPay == commission \in Commission \cup {None}

\* paid_commission_no_soft_delete.
MayDropPay == commission # None => commission.voucher # "paid"

\* commission_shipment_role_live_key: no second live row for a slot.
SlotsFree(d, p) ==
    commission # None => (d # None => commission.driver = None) /\ (p # None => commission.helper = None)

\* A recomputation replaces the rows, a first computation adds to them.
MayPay(recomputed, d, p) == IF recomputed THEN MayDropPay ELSE SlotsFree(d, p)

Kept(recomputed) ==
    IF recomputed \/ commission = None
       THEN [driver |-> None, helper |-> None, voucher |-> "none"]
       ELSE commission

\* One transaction.
Compute(h) ==
    LET d == job[h].driver  p == job[h].who  kept == Kept(job[h].flag) IN
    /\ At(h, "compute")
    /\ TripUnlocked
    /\ MayPay(job[h].flag, d, p)
    /\ commission' = [kept EXCEPT !.driver = IF d = None THEN @ ELSE d,
                                  !.helper = IF p = None THEN @ ELSE p]
    /\ trip' = [trip EXCEPT !.computed = TRUE]
    /\ Return(h)
    /\ UNCHANGED account

PayoutStep(h) ==
    /\ Called(h, "payout")
    /\ commission # None
    /\ \E from, to \in {"none", "draft", "paid"} :
          /\ commission.voucher = from
          /\ <<from, to>> \in {<<"none", "draft">>, <<"draft", "none">>, <<"draft", "paid">>}
          /\ commission' = [commission EXCEPT !.voucher = to]
    /\ UNCHANGED <<trip, account, job>>

-----------------------------------------------------------------------------
(* ShipmentsService.remove. *)

\* assertNothingMoved for everyone; dispatch only removes a draft that carries
\* nothing (removalProbes).
MayRemove(admin) ==
    /\ NothingPaid
    /\ admin \/ (trip.status = "DRAFT" /\ \A a \in Live : ~ account[a].carries)

LoadRemove(h, admin) ==
    /\ Called(h, "remove")
    /\ trip.live
    /\ MayRemove(admin)
    /\ GoOn(h, [Idle EXCEPT !.op = "remove"])
    /\ UNCHANGED tables

\* Mutant: accounts that carry cash are left behind.
EmptyAccounts == {a \in Live : ~ account[a].carries}

\* softDeleteWithDependants reads the accounts and deletes all of them.
Dependants == Live

Remove(h) ==
    /\ At(h, "remove")
    /\ MayDropPay
    /\ trip' = [trip EXCEPT !.live = FALSE]
    /\ account' = [a \in Accounts |->
          IF a \in Dependants THEN [account[a] EXCEPT !.live = FALSE] ELSE account[a]]
    /\ commission' = None
    /\ Return(h)

-----------------------------------------------------------------------------
\* A unique index or a trigger refuses what h was going to write, and the
\* handler gives up; a transaction takes everything back.
Refused(h) ==
    /\ \/ /\ job[h].op \in {"crew.commit", "deliver.commit"}
          /\ job[h].seq # 0
          /\ ~ MayInsert(job[h].seq, IF At(h, "crew.commit") THEN job[h].who ELSE None)
       \/ /\ At(h, "setCustodian")
          /\ job[h].acct \in Live
          /\ ~ MayBear(Live \ {job[h].acct}, job[h].who)
       \/ At(h, "compute") /\ ~ MayPay(job[h].flag, job[h].driver, job[h].who)
       \/ At(h, "remove") /\ ~ MayDropPay
    /\ Return(h)
    /\ UNCHANGED tables

\* ShipmentsService.create books a draft with no crew and no account; its truck
\* may be chosen already.
Init ==
    /\ \E truck \in BOOLEAN :
          trip = [live |-> TRUE, status |-> "DRAFT", driver |-> None, helper |-> None,
                  truck |-> truck, computed |-> FALSE]
    /\ account = [a \in Accounts |-> None]
    /\ commission = None
    /\ job = [h \in Handlers |-> Idle]

AccountStep(h) ==
    \/ \E c \in Staff : LoadOpen(h, c)
    \/ NumberOpen(h) \/ InsertOpen(h) \/ RetryOpen(h)
    \/ \E a \in Accounts, c \in Person : LoadName(h, a, c)
    \/ Name(h)
    \/ \E a \in Accounts : LoadRemoveAccount(h, a) \/ Book(h, a) \/ Decide(h, a)
    \/ RemoveAccount(h)

CrewStep(h) ==
    \/ \E d, p \in Person : LoadAssignCrew(h, d, p)
    \/ EnsureForHelper(h) \/ NumberForHelper(h) \/ CommitCrew(h)
    \/ \E truck \in BOOLEAN : LoadAssignTruck(h, truck)
    \/ AssignTruck(h)

MoveStep(h) ==
    \/ \E to \in Status : LoadTransition(h, to)
    \/ Transition(h)
    \/ EnsureOnDelivery(h) \/ NumberOnDelivery(h) \/ CommitDelivery(h)
    \/ \E admin \in BOOLEAN : LoadRemove(h, admin)
    \/ Remove(h)

PayStep(h) == LoadCompute(h) \/ Compute(h) \/ PayoutStep(h)

Next ==
    \E h \in Handlers :
        AccountStep(h) \/ CrewStep(h) \/ MoveStep(h) \/ PayStep(h) \/ Refused(h) \/ Crash(h)

Spec == Init /\ [][Next]_vars

-----------------------------------------------------------------------------
(* What holds however requests interleave. *)

\* No two accounts of a trip ever have the same number, removed accounts
\* included, and the numbers have no gaps: "account 2" means one pile of cash
\* for ever (nextSequence, liquidation_shipment_sequence_key).
NumberedOnce ==
    /\ \A a, b \in Rows : account[a].sequence = account[b].sequence => a = b
    /\ \A a \in Rows : \A n \in 1 .. account[a].sequence :
          \E b \in Rows : account[b].sequence = n

\* Two live accounts with nobody named to them could not be told apart
\* (liquidation_shipment_unnamed_live_key, assertOnlyUnnamedAccount).
OneUnnamed == \A a, b \in Live : Unnamed(a) /\ Unnamed(b) => a = b

\* However requests interleave, a trip's accounts can be told apart.
AccountsStand == TypeOK /\ NumberedOnce /\ OneUnnamed

\* Pay that was handed over stays on record, for whom it was handed to, however
\* late a recomputation or a removal that read it as unpaid writes
\* (assertNothingPaid, paid_commission_no_soft_delete).
PaidStays ==
    commission # None /\ commission.voucher = "paid" =>
        /\ commission' # None /\ commission'.voucher = "paid"
        /\ commission.driver \in {None, commission'.driver}
        /\ commission.helper \in {None, commission'.helper}
PaidStands == [][PaidStays]_vars

(* What holds while requests do not overlap. *)

\* The workflow only moves forward (isAllowedManualTransition, transition).
MovesForward == Rank[trip'.status] >= Rank[trip.status]
OnlyForward == [][MovesForward]_vars

\* The step that delivers a trip leaves it an account, and the step that puts a
\* helper on it leaves them one (ensurePendingLiquidation,
\* ensureAccountForCustodian).
Ensures ==
    /\ trip.status # "DELIVERED" /\ trip'.status = "DELIVERED" => Live' # {}
    /\ trip'.helper \notin {None, trip.helper} =>
          \E a \in Live' : account'[a].custodian = trip'.helper
EnsuredAccount == [][Ensures]_vars

\* Nothing of a removed trip is left in accounting's queue or the next payout
\* run (softDeleteWithDependants).
NothingOutlives == ~ trip.live => Live = {} /\ commission = None

\* What money was decided on does not change under it: the crew, and the trip,
\* behind commissions that a payout line names; the custodian of an account
\* that stays approved, which goes only with the whole trip (assertNothingPaid,
\* setCustodian).
PayStands ==
    ~ NothingPaid =>
        /\ trip'.live
        /\ trip'.driver = trip.driver /\ trip'.helper = trip.helper
        /\ commission' # None
        /\ commission'.driver = commission.driver /\ commission'.helper = commission.helper
ApprovalStands ==
    \A a \in Live : account[a].approved /\ account'[a].approved =>
        /\ a \in Live' \/ ~ trip'.live
        /\ account'[a].custodian = account[a].custodian
DecidedStands == [][PayStands /\ ApprovalStands]_vars

(* What the code does not keep. *)

\* assertReadyToComplete refuses a trip without computed commissions because
\* "completing it would strand the crew's pay"; a completed trip's commissions
\* would then name its crew.
NobodyStranded ==
    trip.live /\ trip.status = "COMPLETED" =>
        /\ commission # None
        /\ <<commission.driver, commission.helper>> = <<trip.driver, trip.helper>>
=============================================================================

# eztruckr: specifications of a trucking company's trips, cash and pay

eztruckr is a NestJS API over one Postgres database (Prisma), with a Next.js client. A dispatcher
books a *shipment* (a trip), cash is *released* to the crew against one of the trip's *liquidation
accounts*, the crew *claim* what they spent, accounting *approves* the account, and the variance
becomes a *settlement* that is cleared in cash or carried into a *crew deduction* that payout runs
recover from pay. When every account is approved and the commissions are computed the trip is
*completed* and nothing on it may change again.

The API takes **no locks and runs almost no multi-statement transactions**. A handler reads what it
needs to refuse, awaits, and later writes by id without testing again; the isolation level is
Postgres' default, READ COMMITTED. What keeps the books right is a mixture of those checks (good
while requests do not overlap), a few `$transaction` blocks, and unique indexes, CHECKs and triggers
in the database (good always). These specifications say which property rests on which.

Paths below are relative to `src/apps/api/src` unless they start with `packages/`.

## 1. Inventory

| Component | Keeps | Operations | What is hard | Modelled |
|---|---|---|---|---|
| Trip tables (`packages/db/prisma`, soft delete) | rows of liquidation, liquidation_line, allowance, allowance_request, settlement, crew_deduction(_recovery) | insert, patch by id, soft delete | rows are never removed; reads skip deleted rows, updates by id do not | `TripTables` |
| `liquidation/liquidation.service.ts` | account status, stored totals, claims | addLine, updateLine, removeLine, submit, returnToCrew, approve, reverse, createForShipment, remove, refreshTotals, setCustodian/Reference/Description | approval freezes a figure read earlier; reversal unwinds three tables; stored totals refreshed after the fact | `Liquidation`; numbers and custodians in `TripLifecycle`; labels are left out |
| `liquidation/allowances.service.ts` | releases | issue, update (also between accounts), remove | two accounts refreshed one after the other | `Allowances` |
| `liquidation/allowance-requests.service.ts` | asks and decisions | create, update, approve, decline, withdraw | a decision races an edit, a withdrawal or another decision | `AllowanceRequests` |
| `liquidation/settlement.service.ts` | settlements, debts | record, carryToPayout, clearRecoveredCarryovers, outstanding | two ways to clear one balance; a job that clears rows it read earlier | `Settlement` |
| Payout runs (no service yet: triggers in `packages/db/prisma/migrations/00000000000000_init`, `packages/db/src/payout-idempotency.test.ts`) | runs, lines, recovery slices | take, drop and pay | over-recovery is tested by a trigger that cannot see uncommitted slices | `Settlement` (debts), `TripLifecycle` and `CommissionPay` (commissions, adjustments) |
| `shipments/shipments.service.ts` | trip status, crew, truck, rates, number | create, update, updateRateChain, assignCrew, assignTruck, transition, setGasRateOverride, mark, unmark, verify and return the broker's cut, remove (a cascade over 14 tables) | completion gate read before its write; numbers retried on a clash; removal racing a payout | `Bookings` (numbers), `TripLifecycle` (crew, truck, status, removal, with `pending-liquidation.ts` and `trip-cash-participants.ts`), `RateChain` (figures and the cut); the gate in `TripCash` and `TripMoney` |
| `shipments/shipment-charges.service.ts` | billable expenses, additional charges | add, update, remove, approve, returnForCorrection | verification lock; a rebill defers its cost to a claim that may be going away | `ShipmentCharges`; rebills of claims in `TripCash` |
| `shipments/client-payments.service.ts`, `receivables.ts` | payments, their verification | record, change, remove, verify, return | the same lock | `ClientPayments`; the report is a sum and left out |
| `commission/commission.service.ts`, `rule-resolver.ts`, `commission-coverage.service.ts`, `commission-chain.ts`, strategies, formula, rational | commissions, frozen rates | computeForShipment, coverage, preview | recompute replaces rows unless paid; staleness; which rule pays | `CommissionPay` (what pay was computed from), `TripLifecycle` (whose it is), `CommissionRules` (by which rule). What a method pays of a base is left to its unit tests |
| `commission/adjustments.service.ts` | one-off pay adjustments | create, update, remove | closed once on a voucher, but by no trigger | `CommissionPay` |
| `shipments/gross-profit.service.ts`, `company-paid-expenses`, `profit-and-loss`, `operation-expenses/` | overhead rows | sums; rows edited one at a time | none beyond a row | the company-paid expense card in `Screens`; otherwise no |
| `users/`, `system/`, sign-in gate of `auth/`, `mail/` | logins, invitations, `initializedAt`, sessions | initialize and its undo, create, resend, revoke, accept, sign in, remove | two first-time setups; accept against revoke; a mail that does not go out | `Logins`; `users.update` and an administrator's setPassword are left out |
| `master-data/` | clients, routes, trucks, third parties, payees, categories, staff, rules | create, edit, deactivate, remove | a removal counts who names the record, then removes it | `MasterData`, `CommissionRules` |
| `apps/web`, a trip's page | what each card has read | who is shown which card and button, what a write has read again | lists copied by hand from the API; a page out of date; an answer that is lost; a read that fails and is given up | `TripPolicy`, `TripRoutes`, `TripCards`, `Screens`; other pages list or report and are left out |
| `liquidation/receipts.service.ts`, `storage/` | files | upload, attach | object store beside a table | no: I/O |
| `settings/`, `health/`, `config/` | one settings row | edit | none | `TripMoney` has the gas rate, `Office` the stamp of setup |

How the modelled parts interact: `AllowancesService` and `AllowanceRequestsService` call
`LiquidationService.refreshTotals` after their write; the request service borrows
`AllowancesService.assertMayRelease`; approval inserts the settlement `SettlementService` moves on;
reversal soft-deletes that settlement and the deduction it was carried into; `removeLine` and
`ShipmentChargesService.resolveClaim` each look at the other's table; the completion gate of
`ShipmentsService` counts asks and accounts. `ShipmentsService` opens accounts inside its own transactions
(a helper put on the trip, a delivery without any) and removes them with the trip; `CommissionService` replaces
the rows a payout run links to its lines. `ShipmentChargesService` and `ShipmentsService` decide by a timestamp whether what
`CommissionService` computed is stale. `SystemService` calls `UsersService.provision`, which calls `InvitationsService.issue`,
which mails. Master data is named by foreign key from everywhere. The web client calls the routes and reads its queries again
when a write was accepted. Everything else they share is rows.

The hazards this gives rise to are listed, each at its line, under `hazards` in `PROJECT.json`.

## 2. The modules

Six specifications, each over its own tables. They are cut where the code shares few rows: what crosses a cut is named below.

| Specification | Modules it is composed of | What it follows |
|---|---|---|
| `TripCash` | `TripTables`; `Liquidation`, `Allowances`, `AllowanceRequests`, `Settlement` | the cash of one trip: releases, claims, approvals, balances, rebills, the cash half of the completion gate |
| `AccountBook` | | the abstract specification `TripCash` implements: what accounting is promised of each account |
| `TripLifecycle` | | one trip from booking to completion or removal: crew, accounts and their numbers, commissions |
| `TripMoney` | `MoneyTables`; `ShipmentCharges`, `RateChain`, `ClientPayments`, `CommissionPay` | the money of one trip: rates, the broker's cut, charges, payments, what pay was computed from, adjustments |
| `Desk` | `DeskTables`; `Bookings`, `MasterData`, `CommissionRules` | the numbers of a day, one record of any master-data table and the rows that name it, the commission rules |
| `Office` | `OfficeTables`; `Logins` | first-run setup, logins, invitations, sessions |
| `Screens` | `TripPolicy`, `TripRoutes`, `TripCards` | a person at a trip's page, while everybody else writes to the trip |

`TripCashProofs`, `TripLifecycleProofs`, `TripMoneyProofs`, `DeskProofs`, `OfficeProofs` and
`ScreensProofs` hold the theorems, `AccountBook` its own, and `FiniteSums` the facts about finite sets and sums several of them need; the `MC` modules
give TLC symmetry and definitions.

### TripCash

**State.** Each table is a function from row ids to rows; a row that has not been inserted is `None`
and `live` is `deletedAt IS NULL`. `liquidation[a].row` is `absent`, `live` or `deleted`. Two records
abstract columns: `settlement.disbursed` is `disbursementMode IS NOT NULL`, and a deduction's `due`
and `paid` add up its live recovery slices on runs that are not yet, and that are, PAID. `rebilled`
is the set of claims that a live billable expense names. `shipment` is `OPEN` for every status before
COMPLETED: no handler of `TripCash` tells those apart (`TripLifecycle` does). `allowance.ask` is not a column; it remembers which
request's approval inserted the release, so that properties can count them.

**Actions.** A handler is a chain of awaited statements. `job[h]` is what handler `h` executes next and
what it has read so far. Its first action takes the reads that only refuse (a handler that is refused
changes nothing); each later action is one statement, or one `$transaction`, which commits or rolls
back as a whole. So `approve` is `LoadApprove` (status), `ComputeApprove` (the sums), then `Approve` or
`ApproveRolledBack`; `issue` is `Issue`, `InsertAllowance`, then the three statements of
`refreshTotals`. `Crash` drops a running handler between any two of them. With one handler in
`Handlers` requests are served one at a time; with two, every interleaving is explored.

**What the database refuses.** `MaySettle` (unique index on live settlements), `MayRecord` and
`MayCarry` (two CHECKs on a settlement), `MayBecome` (the CHECK on a decision), `ApprovedAtMatches`
(status and `approvedAt` of an account), `Remaining` (the over-recovery trigger). An UPDATE that
violates one leaves the tables as they were.

**Abstractions.** Amounts are naturals in the smallest unit, as `money.ts` computes them. Who may call,
whose float it is, receipts, payees, categories, dates, remarks and history rows are left out: they
refuse calls or describe rows, and no property depends on them; a call they refuse is one the model's
client does not make. Reads that only refuse are taken at the same instant, which drops the
interleavings between two refusals of one handler but none between a check and its write. Re-pointing a
rebill from one claim to another is `Unrebill` and `Rebill`. Each pass of the loop in
`clearRecoveredCarryovers` is a handler of its own (`LoadClear`, `Clear`), which allows every order the
loop has. Removal of a whole trip is an action of `TripLifecycle`, not of `TripCash`.

**External code.** `Crash` stands for the process or its connection dying. No payout service exists, so
what a run may do (`TakeSlice`, `CommitSlice`, `PaySlices`, `DropSlices`) is what the triggers permit
and `clearRecoveredCarryovers` expects. The slice is inserted and tested by one statement and committed by a
later one, because that is all READ COMMITTED promises of it.

**The abstract specification.** `AccountBook` knows accounts and balances only: exactly the approved
accounts carry a balance, a balance is handed over or recovered out of pay, and an approval is undone
only while nothing has moved. `TripCash` maps to it with `Standing` (status of the account) and
`BalanceOf` (its live settlement and how far clearing has come); `KeepsTheBook == Book!Spec` is checked by
TLC in `TripCashSettling`.

### TripLifecycle

The same scheme on another cut of the system: `trip` is the shipment row, an account is its number,
its custodian, whether it is approved and whether anything hangs on it (`carries`), and `commission` holds the live
commissions, one per crew slot, with `voucher` for the payout line they are linked to and whether its run is PAID.
`Book` and `Decide` stand, in one step each, for what `TripCash` models statement by statement; they allow at least
what it allows. `createForShipment` is `LoadOpen`, then `NumberOpen` (read the latest number) and `InsertOpen` or
`RetryOpen` up to `Attempts` times. `assignCrew` and a delivery are a `$transaction` that reads between its writes, and
take several steps: after the shipment row is updated it is locked (`HoldsTrip`), so any other update of it waits
(`TripUnlocked`), while reads see only what is committed. The INSERT that ends such a transaction is taken with its commit:
a competitor for the same unique index would wait for that anyway. `Refused` is a unique index or trigger refusing
it, which rolls everything back. `remove` and `computeForShipment` write in one step each. The licence of a driver, roles,
the rate chain and the truck's own status only refuse and are left out.

### TripMoney

`shipment` carries status, client, broker, the rate chain, the mark on the broker's cut (`cutPaid`) and the gas override; `charge`
holds both kinds of charge; `commission` is the one live computation, with the `basis` it was computed from and whether a run
has drafted or paid it. Time is what is compared with `commissionsComputedAt` and nothing else: a charge's `after` is
`updatedAt > commissionsComputedAt`, `moved` the same of the rate chain. A handler makes its checks in `Load...`, keeps what it
will write in `job[h].put`, and writes by id in a second step, a PATCH writing only the fields that are not `Unsaid`
(`Named`). A behaviour has one handler or several (`Off`): with one, clients make the requests of `Workload`, with several those
of `Racing`, a bound. Every sum of money is in the smallest unit; a percentage rounds half up (`PercentOf`, from `money.ts`).
`RatesAddUp` states the rounding for itself, as the centavo nearest
to the product, ties upwards. The trip only moves forward here, as `TripLifecycle` shows of serial requests, and the crew are not told apart.

### Desk

The three parts share no row, so `desk` picks one at the start and a behaviour follows it. In `Bookings` a number is read in
one statement and written in another; `Attempts` stands for `SHIPMENT_NUMBER_ATTEMPTS`. `MasterData` follows one record of
the table `entity`, the rows that name it (`naming`, each from one of the tables that hold a foreign key to `entity`), and the lists of
probes each service hands to `removeRecord`; the probes run side by side (`Count`), the decision and the write follow. Of
the nine tables that name a person, the four are kept whose rows name somebody afresh. The record exists from the
start: creating one writes a row nobody names yet. `CommissionRules` follows the rules for one trip of one client and
route, dispatched on `dispatched`; what a rule pays is not told apart, `Resolve` is which rule wins. `overlapped` is a history
variable: whether two requests were ever in flight together.

### Office

`provision` is a chain of awaited calls (`SignUp`, `Provision`, `RevokeOpen`, `CreateLink`, `Mail`, `RecordDelivery`), the same
for a setup, a new login and a resend; a setup goes on with `CheckDelivered` and `Claim`, and takes its
administrator back with `Undo` if it lost, nothing was delivered, or the claim failed with an error (`ClaimFails`, which may have committed all the same).
`FindLogin` is `issue` looking the new login up: one that was removed in the meantime is not found, and `provision` undoes what it began. Addresses are not kept: `SignUpRefused` may happen whenever a
live login exists. `secret` tells the random password nobody kept from one that somebody chose. A handler that dies
is `Dead` for good, so that an abandoned request can be told from an unfinished one. Better Auth, the mail service and the
inbox are external: a mail the service gave up on may have arrived all the same (`mailed` against `delivery`).

### Screens

`TripPolicy` is `role-policy.ts` and what each controller names on its routes; `TripRoutes` what the services accept of
a trip as it stands, and what they leave (`Accepts`, `After`); `TripCards` what the page mounts for a role, which
buttons each card shows of the trip as last read (`Offers`) and which query keys it invalidates (`Invalidates`), each against the queries its
write alters (`Alters`). A trip is followed through one card at a time (`kind`). Up to a click's answer the model compares page and trip;
from then on it watches one query of those mounted, which stands for all of them, as each is read for itself. A button of a form
also needs the queries of what is picked in it (`PickLists`); the coverage banner is on the commission rules' page, not here.

TanStack Query is external, as `providers.tsx` sets it up: a read that failed is tried once more (`RetriedOnce`), not when the API refused it with a 4xx, and never
for the settlements, whose card says `retry: false`. The accounts are read by the liquidation card, which says so too, and by other cards, which do not. After
that nothing reads again by itself: `refetchOnWindowFocus` is false, and with `networkMode: 'always'` there is no reconnecting. `FailRead` is such a
failure, of the request, of its answer, or by the API. What stays is either an error, or nothing, in place of the card (`HidesOnError`: the page itself, the
accounts, the settlements), or the old rows without a word. `Recompute` is the button of the gross profit card, the one way on the page to have reads begun again without writing.
That the whole page goes when the read of the trip fails is not crossed with the queries of its cards. `Answer` is one step: the page against the API
is its subject, not the API against itself, whose own checks and writes come apart in `TripCash`, `TripLifecycle`, `TripMoney` and `Desk`.

## 3. What the runs check

All runs use `CHECK_DEADLOCK FALSE`: nobody is obliged to call the API, and ids are bounded, so an instance really may come to rest.

| Run | Instance | Distinct states | What it shows |
|---|---|---|---|
| `TripCashBooks` | 1 handler, 2 accounts, 1 claim, 1 release, 2 settlements, amounts 1-2 | 1,772,100 | `TypeOK`; `FrozenFigureStands`: an approved figure is the sum of its live rows and its settlement; `OnlyApprovedIsOwed`: a reversal forgets what was owed |
| `TripCashSettling` | 1 handler, 2 accounts, 2 claims, 1 release, 2 settlements, 2 debts | 328,389 | `DebtsAddUp`: every debt explains a carried balance, is never over-recovered, and is cleared by pay; `MovedMoneyStands`; `KeepsTheBook`: refinement of `AccountBook` |
| `TripCashAsking` | 1 handler, 2 accounts, 1 claim, 2 releases, 1 ask, 2 settlements | 630,146 | `OneReleasePerRequest`, `ReleasesWhatWasAsked`, `DecisionStands`, `CompletedSquare`; `NothingLeftHanging`: no ask, rebill or release outlives what it names |
| `TripCashRacing` | 2 handlers, 1 account, 1 release, 1 ask, 2 settlements, 2 debts, amounts 1-2 | 1,253,667 | `RacesStayOnRecord`: approvals, releases and balances have one record each; `SettledIsFinal` |
| `AccountBook` | 3 accounts, variances -1, 0, 1 | 364 | `MovedIsForGood` |
| `TripLifecycle` | 1 handler, 2 accounts, 2 people, one of them in the office | 672,354 | `OnlyForward`; `EnsuredAccount`: delivery and a new helper leave an account; `NothingOutlives`: nothing live on a removed trip; `DecidedStands`: crew behind drafted or paid commissions, and custodians of approved accounts, do not change |
| `TripRacing` | 2 handlers, 2 accounts, 1 person, 2 attempts | 361,277 | `AccountsStand`: numbers are not shared, reused or skipped, and one account at most is unnamed; `PaidStands`: paid commissions stay |
| `TripPay` | 2 charges, 2 gross rates, 2 clients, 1 gas rate; 1 request at a time, or computations and payouts with 2 handlers | 1,200,576 | `NoChargeStranded`; `PayCoversWhatCounts`: pay that is not marked stale is that of this client and net rate, and has every charge that counts; `PaidBasisStands`: what drafted pay was computed from does not move, and paid pay is not superseded |
| `TripReceivables` | 1 payment, 1 adjustment, 2 brokers, gross 2-3, a percentage and a flat cut; 1 request at a time, or corrections, marks and verdicts with 2 handlers | 467,320 | `LedgersStand`: rates add up, a percentage to the nearest centavo, and verdicts are signed; `SignedOffStands`; `PaidRecordsStand`: a paid cut or adjustment keeps its amount |
| `Office` | 2 handlers, 2 logins, 2 links | 617,233 | `LinksStand`: one open link, one outcome each; `NobodyLockedOut`; `ClaimedOnce`; `NoSecondAdministrator` (liveness) |
| `Desk` | 2 handlers, 3 trips, 2 attempts; 1 record, 2 rows naming it; 2 rules of 4 forms, days 0-2 | 939,811 | `LabelsTellTrips`, `TurnedAwayByOthers`: numbers; `WhatIsNamedStays`: removal; `KeepsCoverage`, `CoveredIsPayable`, `StaysPriced`: rules |
| `Screens` | 6 roles, 10 cards, no bounds | 177,144 | `PageAgreesWithApi`: every page and its pick lists load, what it offers is accepted and what is accepted is offered; `MovedAsShown`; `OwnChangesShow`; `EndsUpShown` (liveness), the last two except for a read that was given up |

Where a run's property is a conjunction, its parts are definitions of their own, each with its comment in the module; they are checked together.

*Why the bounds are enough.* Two accounts are needed for a release to move between them and for completion
to see one approved and one not; two settlements for a reversal and a re-approval; two debts for a carry
after a reversed carry; two amounts for an edit that matters and for a debt recovered in two slices; two
releases for an ask paid twice. In `TripLifecycle` two people let the crew be swapped and an account change hands, and
two accounts let one be removed, approved or unnamed beside another; in `TripRacing` two accounts and two attempts are enough
for an opening that loses its number twice and gives up. In `TripPay` one charge of each kind lets one move while
the other stands, two clients change the rules, two gross rates the net; in `TripReceivables` the gross rates 2 and 3
make a cut of 50 % round, two brokers change hands under a mark. In `Office` two of everything let two setups, two resends
or an acceptance and a withdrawal race, with an administrator from before or none. In `Desk` three trips make a booking lose
its number twice, the forms give one role a rule that ends, one that follows on it and one for a client, and days 0 to 2 lie before,
at and after that boundary; the horizon of one day stands for the code's thirty. `Screens` is finite as it
is: the only abstraction is one card and one click at a time.

One handler is not a weakness of the serial runs but their question:
they ask what holds when requests do not overlap, including after a crash between any two statements.
Every property has a mutant of the code (the operators marked *Mutant*, listed in `PROJECT.json`) under which
the same run fails, so no bound hides the case the property is about.

*Fairness.* `TripCash`, `TripLifecycle`, `TripMoney` and `Desk` assume none and state no liveness: no background worker
exists in this code, every step waits for a client to ask for it, and a handler may die at any await. `Office` assumes
`WF(LoginGoesOn(h))`: a request that was taken is served, as Node runs every continuation, unless its process dies (`Crash` is
not fair, and a dead handler is done). That is what the undo of a lost setup needs. `Screens` assumes that a request under way
is answered or its connection breaks, which the browser sees to, and that a read that was begun succeeds or fails (`WF` of `ReadRows`, `ShowRows` and `FailRead` together): which of the two is
not assumed, so no read has to succeed.
Nobody has to click, and nobody else has to write.

## 4. What holds always, what holds without overlap, what does not hold

*However requests interleave and wherever they die* (checked with two handlers and proved for any number):

- an APPROVED account has one live settlement, a balance is never both handed over and carried, a release made for an ask
  answers an APPROVED ask (`RacesStayOnRecord`), and a SETTLED settlement is final (`SettledIsFinal`);
- account numbers are never shared, reused or skipped, and one account at most is unnamed (`AccountsStand`);
- pay that was handed over stays on record (`PaidStands`);
- a system is set up once (`ClaimedOnce`), a link has one fate (`LinksStand`), nobody is locked out (`NobodyLockedOut`);
- rates add up, verdicts are signed (`LedgersStand`), and paid pay is not superseded (`LeavesPaidPay`);
- no two trips on the list share a number (`LabelsTellTrips`), a booking is turned away by others only (`TurnedAwayByOthers`), nothing names a
  record that is gone (`NoNameDangles`), a role without a reported gap can be paid (`CoveredIsPayable`), and rules off the day of departure do
  not re-price a trip (`StaysPriced`).

These rest on transactions, unique indexes, foreign keys, CHECKs, triggers and single conditional UPDATEs.

*While requests do not overlap* the properties of the runs with one handler hold, crashes included, those of `TripMoney` that
say `OneAtATime`, and those of `Desk` that say `~ overlapped`; all of them are proved too.

*When two requests overlap* each of these is lost, because a check is not repeated at the write. Set
`Handlers = {h1, h2}` in the run named and TLC prints the trace (for `TripMoney`, let `Racing` name the requests and drop
`OneAtATime` from the property; for `Desk`, drop `overlapped`):

| Property | Run | Race |
|---|---|---|
| `FrozenFigureStands` | `TripCashBooks` | a release or claim checked before an approval and inserted after it lands on a frozen account |
| `OnlyApprovedIsOwed` | `TripCashBooks` | a second `reverse`, read before a re-approval, lands after it and leaves the new settlement live |
| `MovedMoneyStands` | `TripCashSettling` | `reverse` soft-deletes a settlement that was recorded as handed over after it was read |
| `DebtsAddUp` | `TripCashSettling` | a carry between the read and the write of `reverse`, two carries, or two uncommitted slices that do not see each other |
| `OneReleasePerRequest` | `TripCashAsking` | two approvals of one ask release the cash twice |
| `ReleasesWhatWasAsked`, `DecisionStands` | `TripCashAsking` | an edit or withdrawal that read the ask as pending lands around its approval |
| `NothingLeftHanging` | `TripCashAsking` | `removeLine` and `addBillableExpense` look at each other's table, then write; a new ask between the completion gate and its write |
| `CompletedSquare` | `TripCashAsking` | a reversal or a new account between the completion gate and its write |
| `OnlyForward` | `TripLifecycle` | a transition that waited is written after the trip has moved on, and takes it back |
| `EnsuredAccount` | `TripLifecycle` | the account that delivery or a crew change found is removed, or given to someone else, before they commit |
| `NothingOutlives` | `TripLifecycle` | an opening, a crew change or a computation that read the trip before its removal writes after it |
| `DecidedStands` | `TripLifecycle` | a `setCustodian` that read the account before its approval is written after it; a crew change or a recomputation that found nothing on a voucher lands after a run has drafted it (once it is paid the trigger holds: `PaidStands`) |
| `NoChargeStranded` | `TripPay` | a charge added between the completion gate and its write |
| `PayCoversWhatCounts`, `PaidBasisStands` | `TripPay` | a charge or rate written between what a computation read and its stamp, which then looks newer; an edit that found nothing on a voucher lands after a run drafted it |
| `SignedOffStands`, `PaidRecordsStand` | `TripReceivables` | an edit by dispatch of a row that was verified meanwhile; a correction of the rates that found no mark on the cut |
| `LabelsTellTrips` | `Desk` | the index leaves out removed trips: a trip booked and removed between another booking's read and its insert gives its number away |
| `WhatIsNamedStays` | `Desk` | a row that names the record is inserted after the count; a rule is paid by while it is being removed |
| `KeepsCoverage` | `Desk` | two removals each count the other's rule as the survivor |

`Office` runs with two handlers; what it does not promise is listed next.

*What the code does not keep, overlap or not.* These are definitions no run checks, or cases a property names as excepted:

- `TripLifecycle!NobodyStranded`. `assertReadyToComplete` guards against stranding the crew's pay by asking that commissions were
  computed (`shipments.service.ts:1458`); `assignCrew` may replace the crew after that, the trip completes with commissions that name the
  crew that was replaced, and `computeForShipment` refuses a completed trip.
- `TripMoney!StaleSaysSo`. `setGasRateOverride` promises that "the shipment will report itself stale until somebody recomputes" (`shipments.service.ts:868-871`), but
  `isComputationStale` does not look at the override. Nor does it see that a charge the computation counted was removed.
- `TripMoney!PaidBrokerStands`. `assertCutNotSettled` refuses a change of broker under a paid mark, because the record would describe "a payment that no longer
  matches the deal" (`shipments.service.ts:1029-1033`), but the booking edit asks it only when the rates are touched (541-554), so a change of broker alone goes through.
- `TripMoney!UnnamedFlagStands`. `.partial()` keeps `.default(false)` under `isCommissionable`, so a PATCH that does not name it clears it. The schema of
  expense categories is written to avoid exactly this (`expense-category.ts:158` and its test); clients, routes, trucks, third parties, payees, staff and commission rules are not, so a PATCH of a deactivated
  record that leaves out `isActive` brings it back (`ActiveAfter`).
- `MovedAsShown` takes a route's check and write as one step. The API's own check is not repeated at its write, so a decision may still land on a row that
  another request moved between the two (`DecisionStands`, above).
- A verdict names a row by id, not what it said: accounting verifies the figure that is there by then. Recording a balance as paid from an old page may
  settle a balance that was re-approved with the opposite sign. Neither route carries a version (`MovedAsShown` is about what the status does protect).
- No request carries an idempotency key: an add whose answer was lost is added again.
- A pending ask on an approved account is still offered for editing and approval, and refused (`LeftToServer`). A member of the crew may write on an
  unnamed account of a trip they are aboard, but is not shown it (`NotOnScreen`).
- A change of route alters the suggested allowance and does not have it read again (`OldAllowance`; `booking-details-dialog.tsx:148-172`).
- A change that was accepted may never show: when the read that follows it fails and is given up, most cards go on with the rows they had and say nothing
  (`GivenUp`; the allowances card is one, `allowances-card.tsx:114-140`). It is shown when the page is opened again, or something else has the query read. `OwnChangesShow` and `EndsUpShown` except it by name.
- The fields of an account that save themselves (`liquidation-card.tsx:440-530`) commit the text that was loaded over a newer one.
- `payees.service.ts` asks all who may name a payee but billable expenses (`NothingNamesRemoved`). An expense category named only by removed rows can
  never be deleted: the probes skip them and the foreign key does not.
- A booking may be created on, or changed to, a deactivated truck; `assignTruck` alone refuses it.
- The coverage report looks at the day of the report and at the end of the horizon, and misses a hole between (`NoGap`). `assertRoleKeepsCoverage`
  asks about the role a rule has, not the one a PATCH gives it. A back-dated rule re-prices a trip under way at its next computation; `effectiveDate` promises it of rules changed mid-journey only.
- A crash between a lost claim and its undo leaves a second administrator (`Settled` excepts it). A claim that commits and whose answer is lost is undone
  as a failed one: the system is stamped, and its only administrator taken back (`ClaimFails`); `NobodyLockedOut` asks only that somebody was sent a link. An acceptance that races a withdrawal may store
  the password before it is refused. A first invitation that was delivered and then lapsed leaves a system nobody can enter.

Some comments no longer match the code around them and were not used: the note on `approve` that mentions a
LIQUIDATED shipment status, and the note on `remove` that credits a foreign key with what the counts do.
`removalProbes` says of settlements that none can exist before DELIVERED, but an account can be approved on a draft (the cascade
removes them all the same). `clearRecoveredCarryovers` has no caller yet.

## 5. What is proved

TLAPS checks, for every set of handlers, ids and amounts, every safety property the runs check and the refinement:

| Theorem | Statement |
|---|---|
| `TripCashProofs!TypeCorrect` | `Spec => []TypeOK` |
| `TripCashProofs!ApprovalIsOnRecord` | `Spec => []ApprovedIsOnRecord` |
| `TripCashProofs!ReleasesAreAnswers` | `Spec => []ReleaseAnswersApproval` |
| `TripCashProofs!ClearedOneWay` | `Spec => []NeverBothWays` |
| `TripCashProofs!RacesAreOnRecord` | `Spec => []RacesStayOnRecord`, the three above |
| `TripCashProofs!SettledStands` | `Spec => SettledIsFinal` |
| `TripCashProofs!ApprovedFigureStands`, `OwedOnlyIfApproved` | under `OneAtATime`: `Spec => []FrozenFigureStands`, `[]OnlyApprovedIsOwed` |
| `TripCashProofs!DebtsAlwaysAddUp`, `MovedMoneyIsKept` | under `OneAtATime`: `Spec => []DebtsAddUp`, `[]MovedMoneyStands` |
| `TripCashProofs!AtMostOneRelease`, `NothingIsLeftHanging` | under `OneAtATime`: `Spec => []OneReleasePerRequest`, `[]NothingLeftHanging` |
| `TripCashProofs!DecisionsStand`, `ReleasesAreAsAsked`, `CompletesOnlySquare` | under `OneAtATime`: `Spec => DecisionStands`, `ReleasesWhatWasAsked`, `CompletedSquare` |
| `TripCashProofs!TablesKeepTheBook` | under `OneAtATime`: `Spec => KeepsTheBook`, that is `Book!Spec` |
| `TripCashProofs!BookPromisesAreKept` | under `OneAtATime`: `Spec => []Book!OwedWhileApproved /\ Book!MovedIsForGood` |
| `AccountBook!ApprovedOwe` | `Spec => []OwedWhileApproved` |
| `AccountBook!MovedStands` | `Spec => MovedIsForGood` |
| `TripLifecycleProofs!TypeCorrect` | `Spec => []TypeOK` |
| `TripLifecycleProofs!NumbersAreUnique` | `Spec => []NumberedOnce` |
| `TripLifecycleProofs!UnnamedIsAlone` | `Spec => []OneUnnamed` |
| `TripLifecycleProofs!AccountsAreToldApart` | `Spec => []AccountsStand`, the three above |
| `TripLifecycleProofs!PaidIsFinal` | `Spec => PaidStands` |
| `TripLifecycleProofs!ForwardAlone`, `EnsuredAlone`, `OutlivesAlone`, `DecidedAlone` | under `OneAtATime`: `Spec => OnlyForward`, `EnsuredAccount`, `[]NothingOutlives`, `DecidedStands` |
| `TripMoneyProofs!LedgersAlwaysStand` | `Spec => []LedgersStand` |
| `TripMoneyProofs!NoChargeIsStranded`, `PayAlwaysCovers` | `Spec => []NoChargeStranded`, `[]PayCoversWhatCounts`, which say `OneAtATime` themselves |
| `TripMoneyProofs!WhatPayRestsOnStands` | `Spec => PaidBasisStands`; its half `LeavesPaidPay` without `OneAtATime` |
| `TripMoneyProofs!WhatIsSignedOffStands`, `WhatIsPaidOutStands` | `Spec => SignedOffStands`, `PaidRecordsStand`, which say `OneAtATime` themselves |
| `OfficeProofs!LinksAlwaysStand` | `Spec => []LinksStand` |
| `OfficeProofs!NobodyIsLockedOut` | `Spec => []NobodyLockedOut` |
| `OfficeProofs!SetUpOnce` | `Spec => ClaimedOnce` |
| `DeskProofs!NamedStays`, `LabelsAlwaysTellTrips` | `Spec => []WhatIsNamedStays`, `[]LabelsTellTrips`, whose serial halves say `~ overlapped` themselves |
| `DeskProofs!CoveredIsAlwaysPayable`, `OthersTurnAway`, `PriceStays` | `Spec => []CoveredIsPayable`, `TurnedAwayByOthers`, `StaysPriced` |
| `DeskProofs!CoverageIsKept` | `Spec => KeepsCoverage`, which excepts `overlapped` itself |
| `ScreensProofs!PageAlwaysAgrees`, `ChangesAlwaysShow` | `Spec => []PageAgreesWithApi`, `[]OwnChangesShow` |
| `ScreensProofs!MovesAreAsShown` | `Spec => MovedAsShown` |
| `FiniteSums!SumIsNatural` | the sum of naturals over a finite set is a natural |

*From which assumptions.* Amounts are positive naturals (`AmountsArePositive`, the request schemas); `None` is no
id, no row and no entry of the book (`NoneIsNoId`, `NoneIsNoRow`, `NoneIsNoEntry`); the id sets are disjoint (`TablesAreDistinct`); and there are
finitely many ids (`TablesAreFinite`: they are UUIDs). In `Office`, `None` is no row and
the marker the migration leaves in `initializedBy` is no user's id (`MigrationIsNobody`). In `Desk` a booking has at least one attempt, days are
naturals, `None` is no row and no rule, and the forms of rules are of the shape the schema gives them (`RuleFormsAssumption`). In `Screens`, `None` is no
trip, status, query or write (`NoneIsNothing`). TLC evaluates each of them in the runs of its specification.

*Sums.* The stored totals are folds over sets of rows (`SumFunctionOnSet`), whose recursion runs over subsets. `FiniteSums` shows that the recursion has a
solution and that the solution is a natural without an induction rule: among the finite sets for which it failed one would be smallest
(`SmallestSet`, from the library's well-founded orderings), and that one has an element too many. `DeskProofs` uses the same descent for the
highest number of a day and for the best of some rules.

*Types.* `TypeOK` is not inductive: an action writes what `job[h]` carries, so the invariant needs, for each handler,
that it carries what its next statement uses (`Sound`: an account, a row that exists, an amount, a pair of totals).
`Takes(h)` is what every step does for it: the tables stay typed, rows that exist stay, and the handler's next job
is sound.

*Safety.* `Safe` strengthens the four properties with what racing handlers rely on: at most one live settlement per
account (`OneLive`), an approved account has one (`ApprovedOwes`), a settlement handed over is SETTLED
(`HandedOverIsSettled`), what a handler carries is still on record (`Recorded`), an ask with a release is APPROVED
and stays so (`Answered`), and a `reverse` in flight names the settlement it read (`Unwinds`). The last is what makes
`ApprovedIsOnRecord` survive a late reversal: it takes the account out of APPROVED even when the settlement it
deletes is an old one. Each conjunct has its lemma per service, and each action its step.

*A trip's accounts.* In `TripLifecycleProofs`, `Sound` says of a handler that is about to insert account n that every number
below n is taken (`TakenUpTo`); rows are never removed (`RowsStay`), so that stays true while others insert, and with the
unique index it makes an insertion keep the numbers distinct and without gaps. That is the strengthening `NumberedOnce`
needs; `OneUnnamed` is inductive with the index alone, and `PaidStands` follows from it, the trigger and the index on slots.

*One request at a time.* `OneAtATime == \A h, k \in Handlers : h = k`. `Fresh` says, for every statement, which of the checks
made before it still hold when it runs (the status a transition starts from, the account a transaction found, nothing paid);
`Keeps(h)` is what each action does for it. `Alone` is the invariant these add up to, and the four theorems follow from it.
The races of section 4 show that the hypothesis cannot be dropped.

*A trip's cash, one request at a time.* The last part of `TripCashProofs` adds to `Safe` what holds because nothing moves between a check and its write. `Ready` says of each
statement that what the handler checked still holds when it runs: the account is open, the ask undecided, the settlement still owed, the sums those of
the rows as they are. `Facts` is what the tables keep on the strength of it: `Books` (only approved accounts owe, and their figures are the sums), `Debts`, `OneRelease` and
`NothingLeftHanging`. The run's properties about debts were not inductive; `Told` says what a settlement and the debt it was carried into know of each other
(both live or both deleted, the same amount, SETTLED only when all of it was paid), `Within` that a deleted debt has no slices, and no two settlements
share a debt. `Deeds` are the three facts about a single step, and `KeepsAlone(h)` is what every statement of every handler is shown to do.

*The refinement.* `BookMoves` says that a step is one of `AccountBook` or leaves `Standing` and `BalanceOf` of every account alone. Statements on
releases, claims and asks touch neither. Those on an account alone are one of five turns (`AccountMoves`), those on a settlement or its debt one of six ways to move
clearing on (`BalanceMoves`), approval and reversal are both at once. With it the two theorems of `AccountBook` hold of the tables (`BookPromisesAreKept`).

*A trip's money.* In `TripMoneyProofs`, the rates add up because `computeRateChain` hands its three figures on together, and `PercentIsNearest` that what it rounds to is the nearest centavo: the
invariant says of a handler that will write a chain that the chain in its hands adds up (`Sound`), and the row takes all of it or none. Verdicts are
signed because a stamp is made whole by whoever writes it.

Of requests that do not overlap the invariant is `Alone`: with one handler at work, what each handler has checked still holds when it writes (`Ready`, one
conjunct per check: nothing paid, the charges open, the mark on the cut), and the trip's facts stand (`TripFacts`). Of these `Covered` is the one that
`PayCoversWhatCounts` had to be strengthened by: what the computation was made from is what counts now *or* a stamp is newer, for each charge by itself.
`Keeps` is what every write does on the strength of `Ready`. That paid pay is never superseded needs none of this: the trigger sees to it.

*The office.* The database decides these races, so `Inv` of `OfficeProofs` is mostly the properties: one index, one `CHECK` and two conditional `UPDATE`s.
What has to be added is `OwnLinks`, that the link a handler is about to mail is no other handler's, and that it has no answer yet (`Sound`). Without it,
the failure of one mail could be written over the delivery of another, and a system that is set up lose the invitation it was set up by.

*The desk.* `Inv` of `DeskProofs` has one part for what the database sees to (`TablesOK`, `Good`) and one that is claimed until requests overlap (`Serial`:
`SerialTables`, one handler busy at most, and what that one has checked, `Ready`). `overlapped` is never reset, so a step that keeps it
down also found the tables `Serial`. That a booking is turned away by others only is counted: `Good` says that as many trips came to be as the
handler has attempts behind it. A removal is safe because `Replaced` holds between the count of survivors and the write.

*The page.* `Inv` of `ScreensProofs` says that what was sent is what the page offered (`SentAsOffered`), and that the page is behind only on what its own
accepted write changed, and once that was heard a reading is under way or was given up (`Following`); `FormsLoad` holds the pick lists against the routes that read them. `PageAlwaysAgrees` compares each card's conditions with its service's (`Agree`),
after `WhoMayCall` has put the roles of the routes in the cards' words, and shows that whatever the API takes leaves a trip there can be (`MayBe`). `Screens` is
finite as it is, so TLC's check of it is already complete; the proof is the argument, card by card, that a change to one of the lists must be held against.

*Out of the prover's reach, so left to TLC:* the liveness properties `NoSecondAdministrator` and `EndsUpShown`.

## 6. Not modelled

- What a commission method pays of a base (`commission-strategies.ts`, `formula.ts`, `rational.ts`), gross profit, receivables, profit and loss and the
  dashboards: functions of rows without state of their own, which unit tests reach.
- Receipts and the object store, health, configuration, logging: I/O.
- `users.update`, an administrator's `setPassword`, the creation of master data, operation expenses: one row written, which nothing else waits for.
- Every page but a trip's: lists, queues and forms over the same routes.
- The order in which a transaction takes its locks. A transaction is one step, except where two could see half of each other; one that PostgreSQL aborts is a `Crash`.
- `ON UPDATE` and identifiers, descriptions, remarks, dates and history rows, but for those named in section 2.

## 7. Plan

1. *(done)* Trip cash, its book, its races; the trip's lifecycle; the trip's money; the desk; the office; the trip's page.
2. *(done)* Proofs of every safety property of the runs: for any number of handlers, or for requests that do not overlap; and that `TripCash`
   implements `AccountBook`.
3. An abstract specification of the trip's money, as `AccountBook` is of its cash: what a client owes and what of it is signed, and `TripMoney` shown to implement it.
4. An abstract life of a trip, which `TripLifecycle` implements, with the completion gates of `TripCash` and `TripMoney` as its guards.

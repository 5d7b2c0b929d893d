----------------------------- MODULE DeskTables -----------------------------
(***************************************************************************)
(* The tables of the booking desk: the trips of a day and their numbers,   *)
(* one master-data record and the rows that name it, the commission rules; *)
(* and the requests running against them.                                  *)
(*                                                                         *)
(* The three share no row, so a behaviour follows one of them: desk says   *)
(* which.  As elsewhere a row is None until it is inserted, and job[h] is  *)
(* what handler h does next.                                               *)
(***************************************************************************)
EXTENDS Integers, FiniteSets

CONSTANTS
    Handlers,   \* API requests that may be in flight at the same time
    Trips,      \* ids of trips booked on the day
    Attempts,   \* SHIPMENT_NUMBER_ATTEMPTS
    Names,      \* ids of rows that may name the record
    Rules,      \* ids of commission rules
    RuleForms,  \* what a rule may say: see RuleForm
    LastDay,    \* bound: days are 0 .. LastDay
    Horizon,    \* days the coverage report looks ahead
    None        \* SQL NULL, and a row that does not exist

ASSUME AttemptsAssumption == Attempts \in Nat \ {0}
ASSUME DaysAssumption == LastDay \in Nat /\ Horizon \in Nat
ASSUME NoneAssumption == None \notin Rules

VARIABLES
    desk,       \* which of the three is followed
    trip,       \* the trips of the day
    entity,     \* the table of the record followed
    record,     \* the record
    naming,     \* the rows that name it
    rule,       \* the commission rules
    winner,     \* the rule the trip's live commission names
    dispatched, \* the day one trip was dispatched on, from the followed client and route
    job,        \* what each handler does next
    overlapped  \* not in the code: whether two requests were ever in flight together

tables == <<trip, record, naming, rule, winner>>
still == <<desk, entity, dispatched>>
vars == <<still, tables, job, overlapped>>
-----------------------------------------------------------------------------
Desks == {"numbers", "records", "rules"}
Day == 0 .. LastDay

TripRow == [number : Nat \ {0}, live : BOOLEAN]

\* The tables that hold a foreign key to each table of master data.  Of a person's, the
\* four whose rows are named afresh: commissions, allowances, requests, deductions and
\* payout lines name somebody a trip, an account or an adjustment names already.
NamedBy ==
    [client     |-> {"shipment", "rule"},
     route      |-> {"shipment", "rule"},
     truck      |-> {"shipment"},
     thirdParty |-> {"shipment"},
     payee      |-> {"line", "billable", "companyPaid", "operation"},
     category   |-> {"line", "billable", "companyPaid", "operation"},
     staff      |-> {"shipment", "user", "liquidation", "adjustment"}]
Entity == DOMAIN NamedBy

RecordRow == [active : BOOLEAN, live : BOOLEAN]
NamingRow == [from : UNION {NamedBy[e] : e \in Entity}, live : BOOLEAN]

CrewRole == {"DRIVER", "HELPER"}

\* A rule is for everybody, or for the client followed, its route, or both;
\* it stands from one day to before another.  What it pays is not told apart.
RuleForm == [role : CrewRole, client : BOOLEAN, route : BOOLEAN,
             priority : Nat, from : Day, to : Day \cup {None}]
ASSUME RuleFormsAssumption == RuleForms \subseteq RuleForm
RuleRow == [form : RuleForms, active : BOOLEAN, live : BOOLEAN]

ASSUME NoneIsNoRow ==
    None \notin TripRow /\ None \notin RecordRow /\ None \notin NamingRow /\ None \notin RuleRow

Exists(table) == {x \in DOMAIN table : table[x] # None}
Live(table) == {x \in Exists(table) : table[x].live}
\* Rows get ids nobody has, and ids tell nothing: the next one is as good as any.
IsNew(table, x) ==
    /\ Exists(table) # DOMAIN table
    /\ x = CHOOSE y \in DOMAIN table : table[y] = None
-----------------------------------------------------------------------------
Idle == [do |-> "idle"]
At(h, what) == job[h].do = what
Waiting(h, at) == desk = at /\ job[h] = Idle

\* A request comes, has its first rows read, and goes on with next.
Begin(h, next) ==
    /\ job' = [job EXCEPT ![h] = next]
    /\ overlapped' = (overlapped \/ \E g \in Handlers \ {h} : job[g] # Idle)
    /\ UNCHANGED <<still, tables>>
\* A handler reads something, and goes on with next.
GoOn(h, next) ==
    /\ job' = [job EXCEPT ![h] = next]
    /\ UNCHANGED <<still, tables, overlapped>>
\* A handler's last statement; the caller says what it writes.
Done(h) ==
    /\ job' = [job EXCEPT ![h] = Idle]
    /\ UNCHANGED <<still, overlapped>>
Refuse(h) == Done(h) /\ UNCHANGED tables
=============================================================================

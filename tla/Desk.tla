-------------------------------- MODULE Desk --------------------------------
(***************************************************************************)
(* The booking desk: bookings, master data and commission rules, each with *)
(* as many requests in flight as there are handlers.  None of the three    *)
(* runs in one transaction: what a request read may have changed by the    *)
(* time it writes, and what then still holds is said below.                *)
(***************************************************************************)
EXTENDS Bookings, MasterData, CommissionRules

Init ==
    /\ desk \in Desks
    /\ entity \in (IF desk = "records" THEN Entity ELSE {"client"})
    /\ dispatched \in (IF desk = "rules" THEN Day ELSE {0})
    /\ trip = [t \in Trips |-> None]
    /\ record = [active |-> TRUE, live |-> TRUE]
    /\ naming = [n \in Names |-> None]
    /\ rule = [r \in Rules |-> None]
    /\ winner = None
    /\ job = [h \in Handlers |-> Idle]
    /\ overlapped = FALSE

Next == \E h \in Handlers : BookingStep(h) \/ RecordStep(h) \/ RuleStep(h)

Spec == Init /\ [][Next]_vars
-----------------------------------------------------------------------------
\* Type correctness: every table keeps rows of its own shape, every request is at
\* one of its own statements, and tables of another desk stay as they were.
TypeOK ==
    /\ desk \in Desks /\ entity \in Entity /\ dispatched \in Day
    /\ trip \in [Trips -> TripRow \cup {None}]
    /\ record \in RecordRow \cup {None}
    /\ naming \in [Names -> NamingRow \cup {None}]
    /\ rule \in [Rules -> RuleRow \cup {None}]
    /\ winner \in Exists(rule) \cup {None}
    /\ \A h \in Handlers : job[h] \in {Idle} \cup BookingJob \cup RecordJob \cup RuleJob
    /\ overlapped \in BOOLEAN
    /\ record = None => entity \in Deletable

\* A shipment number on paper leads to one trip (generateShipmentNumber with
\* shipment_number_live_key): never to two of those on the list, and while
\* requests come one at a time not even to a trip removed since.
LabelsTellTrips ==
    /\ \A t, u \in Live(trip) : trip[t].number = trip[u].number => t = u
    /\ ~ overlapped => \A t, u \in Exists(trip) : trip[t].number = trip[u].number => t = u

\* A booking is turned away for want of a number (the 409 of create) only after as
\* many other trips as it has attempts were booked while it ran.
TurnedAwayByOthers ==
    [][\A h \in Handlers :
          At(h, "insertTrip") /\ job'[h] = Idle /\ trip' = trip
             => Cardinality(Exists(trip)) >= job[h].seen + Attempts]_vars

\* What master data removes, nothing in use names (removeRecord): while requests come
\* one at a time, a record somebody names is at most deactivated.  Only a payee named
\* on a billable expense alone escapes its service's list of who to ask.
NothingNamesRemoved ==
    ~ overlapped /\ ~ RecordIsLive
       => \A n \in Live(naming) : entity = "payee" /\ naming[n].from = "billable"

\* Whatever runs together, no row, removed or not, is left naming a record that is gone
\* (ON DELETE RESTRICT): its screens could not be drawn.
NoNameDangles == record = None => Exists(naming) = {}

\* A role that can be paid keeps a rule to be paid by (assertRoleKeepsCoverage), unless
\* two requests race or a rule is handed to the other role.
KeepsCoverage ==
    [][\A role \in CrewRole :
          /\ ActiveRules(role) # {} /\ ActiveRules(role)' = {}
          => \/ overlapped
             \/ \E r \in ActiveRules(role) : rule'[r].form.role # role]_vars

\* The rule a live commission names can be looked up (appliedRuleId): while requests
\* come one at a time it is never removed, only deactivated.
PaidRuleStays == ~ overlapped /\ winner # None => rule[winner].live

\* Whatever names a record or a rule can go on naming it.
WhatIsNamedStays == TypeOK /\ NothingNamesRemoved /\ NoNameDangles /\ PaidRuleStays

\* What the coverage report promises the office (CommissionCoverageService): with no gap
\* for a role, its crew on any client's trip over any route can be paid, today and at
\* the end of the horizon.  Of the days between it says nothing.
CoveredIsPayable ==
    \A role \in CrewRole, on \in Day :
       NoGap(role, on) => \A scope \in Scope, day \in {on, on + Horizon} : Resolve(role, scope, day) # None

\* A trip is paid by the rules of the day it set off (effectiveDate): a request that only
\* touches rules whose window ended by that day, or starts after it, before and after
\* the change, leaves the trip with the rule it had.
IsAbout(row, day) == row # None /\ row.form.from <= day /\ (row.form.to # None => day < row.form.to)
StaysPriced ==
    [][(\A r \in Rules : rule'[r] # rule[r] => ~ IsAbout(rule[r], dispatched) /\ ~ IsAbout(rule'[r], dispatched))
          => \A role \in CrewRole :
                Resolve(role, Followed, dispatched)' = Resolve(role, Followed, dispatched)]_vars
=============================================================================

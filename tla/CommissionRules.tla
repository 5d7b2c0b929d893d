-------------------------- MODULE CommissionRules --------------------------
(***************************************************************************)
(* The commission rules: which one pays a trip (rule-resolver.ts), what    *)
(* the coverage report says of them, their editing and removal, and the    *)
(* commission that names the rule it was computed by.                      *)
(*                                                                         *)
(* One trip is followed, of one client and route, and its driver's pay.    *)
(***************************************************************************)
EXTENDS DeskTables

RuleWrite == [do : {"patchRule"}, of : Rules, form : RuleForms, active : BOOLEAN]
RuleRemoval == [do : {"commissions", "deactivateRule", "softDeleteRule"}, of : Rules]
\* What is to be done if the role keeps a rule is in next.
RuleJob ==
    [do : {"createRule"}, form : RuleForms] \cup RuleWrite \cup RuleRemoval
    \cup [do : {"survivors"}, role : CrewRole, next : RuleWrite \cup RuleRemoval]
    \cup [do : {"pay"}, of : Rules]

\* Mutant: a rule still pays on the day it ends.
CoversClosed(form, on) == form.from <= on /\ (form.to # None => on <= form.to)
\* The window is half-open.
Covers(form, on) == form.from <= on /\ (form.to # None => on < form.to)
Specificity(form) == (IF form.client THEN 2 ELSE 0) + (IF form.route THEN 1 ELSE 0)

\* What a trip brings to its rules; every trip has a client, not every one a route.
Scope == [client : BOOLEAN, route : BOOLEAN]
Followed == [client |-> TRUE, route |-> TRUE]
ActiveRules(role) == {r \in Live(rule) : rule[r].active /\ rule[r].form.role = role}
Matching(role, scope, on) ==
    {r \in ActiveRules(role) : /\ Covers(rule[r].form, on)
                               /\ rule[r].form.client => scope.client
                               /\ rule[r].form.route => scope.route}
\* compareRules; the last tie, by id, is CHOOSE's.
NotWorse(a, b) ==
    \/ Specificity(a) > Specificity(b)
    \/ /\ Specificity(a) = Specificity(b)
       /\ \/ a.priority > b.priority
          \/ a.priority = b.priority /\ a.from >= b.from
\* The first in that order, of some rules given by what they say.
Best(form) == CHOOSE r \in DOMAIN form : \A q \in DOMAIN form : NotWorse(form[r], form[q])
Resolve(role, scope, on) ==
    LET matching == Matching(role, scope, on)
    IN  IF matching = {} THEN None ELSE Best([r \in matching |-> rule[r].form])

Baselines(role) == {rule[r].form : r \in {q \in ActiveRules(role) : Specificity(rule[q].form) = 0}}
\* Mutant: only the day of the report is looked at.
CoveredNow(role, on) == \E form \in Baselines(role) : Covers(form, on)
\* gapsForRole finds nothing to report.
NoGap(role, on) ==
    /\ \E form \in Baselines(role) : Covers(form, on)
    /\ \E form \in Baselines(role) : Covers(form, on + Horizon)
-----------------------------------------------------------------------------
LoadCreateRule(h, form) ==
    /\ Waiting(h, "rules")
    /\ Begin(h, [do |-> "createRule", form |-> form])
CreateRule(h, r) ==
    /\ At(h, "createRule")
    /\ IsNew(rule, r)
    /\ rule' = [rule EXCEPT ![r] = [form |-> job[h].form, active |-> TRUE, live |-> TRUE]]
    /\ Done(h)
    /\ UNCHANGED <<trip, record, naming, winner>>

\* The role asked about is the one the rule has, not the one it is given.
AsksForSurvivors(r, active) == ~ active /\ rule[r].active
\* The form is sent whole; a request that leaves isActive out says TRUE.  Bound:
\* no request gives a rule another form and deactivates it in one.
LoadPatchRule(h, r, form, active) ==
    /\ Waiting(h, "rules")
    /\ r \in Live(rule)
    /\ active \/ form = rule[r].form
    /\ LET write == [do |-> "patchRule", of |-> r, form |-> form, active |-> active]
       IN  Begin(h, IF AsksForSurvivors(r, active)
                    THEN [do |-> "survivors", role |-> rule[r].form.role, next |-> write]
                    ELSE write)
PatchRule(h) ==
    /\ At(h, "patchRule")
    /\ rule' = [rule EXCEPT ![job[h].of] = [@ EXCEPT !.form = job[h].form, !.active = job[h].active]]
    /\ Done(h)
    /\ UNCHANGED <<trip, record, naming, winner>>

LoadRemoveRule(h, r) ==
    /\ Waiting(h, "rules")
    /\ r \in Live(rule)
    /\ Begin(h, [do |-> "survivors", role |-> rule[r].form.role,
                 next |-> [do |-> "commissions", of |-> r]])
\* Mutant: the rule itself is counted among the survivors.
AnySurvivors(r, role) == ActiveRules(role) # {}
\* assertRoleKeepsCoverage
Survivors(r, role) == ActiveRules(role) \ {r} # {}
CountSurvivors(h) ==
    /\ At(h, "survivors")
    /\ Survivors(job[h].next.of, job[h].role)
    /\ GoOn(h, job[h].next)
LastOfItsRole(h) ==
    /\ At(h, "survivors")
    /\ ~ Survivors(job[h].next.of, job[h].role)
    /\ Refuse(h)
\* Mutant: the commissions are not asked.
SoftDeleteAnyway(h) ==
    /\ At(h, "commissions")
    /\ GoOn(h, [do |-> "softDeleteRule", of |-> job[h].of])
\* removeRecord; only a live commission is counted.
CountCommissions(h) ==
    /\ At(h, "commissions")
    /\ GoOn(h, [do |-> IF winner = job[h].of THEN "deactivateRule" ELSE "softDeleteRule",
                of |-> job[h].of])
DeactivateRule(h) ==
    /\ At(h, "deactivateRule")
    /\ rule' = [rule EXCEPT ![job[h].of].active = FALSE]
    /\ Done(h)
    /\ UNCHANGED <<trip, record, naming, winner>>
SoftDeleteRule(h) ==
    /\ At(h, "softDeleteRule")
    /\ rule' = [rule EXCEPT ![job[h].of].live = FALSE]
    /\ Done(h)
    /\ UNCHANGED <<trip, record, naming, winner>>
-----------------------------------------------------------------------------
\* computeForShipment, whose date is the day of dispatch.
LoadPay(h) ==
    /\ Waiting(h, "rules")
    /\ Resolve("DRIVER", Followed, dispatched) # None
    /\ Begin(h, [do |-> "pay", of |-> Resolve("DRIVER", Followed, dispatched)])
\* The commission computed before is superseded, and names nothing any more.
Pay(h) ==
    /\ At(h, "pay")
    /\ winner' = job[h].of
    /\ Done(h)
    /\ UNCHANGED <<trip, record, naming, rule>>

RuleStep(h) ==
    \/ \E form \in RuleForms : LoadCreateRule(h, form)
    \/ \E r \in Rules :
          \/ CreateRule(h, r) \/ LoadRemoveRule(h, r)
          \/ \E form \in RuleForms, active \in BOOLEAN : LoadPatchRule(h, r, form, active)
    \/ PatchRule(h) \/ CountSurvivors(h) \/ LastOfItsRole(h) \/ CountCommissions(h)
    \/ DeactivateRule(h) \/ SoftDeleteRule(h) \/ LoadPay(h) \/ Pay(h)
=============================================================================

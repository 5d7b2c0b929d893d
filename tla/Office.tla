------------------------------- MODULE Office -------------------------------
(***************************************************************************)
(* The office: setting the system up, who may enter, who may administer.      *)
(***************************************************************************)
EXTENDS Logins

Job == {Idle, Dead} \cup LoginJob

\* A new database, ...
Fresh ==
    /\ user = [u \in Users |-> None]
    /\ initializedBy = None

FirstUser == CHOOSE u \in Users : TRUE

\* ... or one that had an administrator before there were stamps or invitations,
\* which the migration has stamped.
SetUpEarlier ==
    /\ user = [u \in Users |->
           IF u = FirstUser THEN [role |-> "ADMINISTRATOR", active |-> TRUE, live |-> TRUE,
                                  secret |-> "chosen"]
           ELSE None]
    /\ initializedBy = "migration"

Init ==
    /\ Fresh \/ SetUpEarlier
    /\ invitation = [i \in Links |-> None]
    /\ session = {}
    /\ job = [h \in Handlers |-> Idle]

Next ==
    \E h \in Handlers : LoginGoesOn(h) \/ LoginCalled(h) \/ Crash(h)

\* A request that was accepted is served: Node runs every continuation, the
\* database answers each statement and the mail service each call.
Fairness == \A h \in Handlers : WF_vars(LoginGoesOn(h))
Spec == Init /\ [][Next]_vars /\ Fairness
-----------------------------------------------------------------------------
TypeOK ==
    /\ user \in [Users -> UserRow \cup {None}]
    /\ invitation \in [Links -> InvitationRow \cup {None}]
    /\ \A i \in Exists(invitation) : invitation[i].of \in Exists(user)
    /\ session \subseteq Users
    /\ initializedBy \in Users \cup {None, "migration"}
    /\ job \in [Handlers -> Job]

\* Setup happens once: however many setups race, whoever the stamp names it
\* names for good (claimInitialization).
StampStays == initializedBy # None => initializedBy' = initializedBy
ClaimedOnce == [][StampStays]_vars

\* A system that has been set up has invited somebody: the administrator it
\* was set up for had a link that was sent (assertTheInviteWasDelivered).  That
\* the administrator is still there is not said: a claim that is committed and
\* whose answer is lost is undone like one that failed.
SetupCanBeEntered ==
    initializedBy \in Users =>
        \E i \in InvitationsOf(initializedBy) : invitation[i].delivery = "sent"

\* At most one link of a login is open, whoever resends it at the same time
\* (issue, staff_invitation_pending_user_live_key).
OneOpenLink == \A u \in Users : Cardinality(OpenOf(u)) <= 1

\* A link was taken up or withdrawn, never both, however the two race
\* (accept, revoke, issue, staff_invitation_outcome_exclusive).
OneOutcome == \A i \in Exists(invitation) : ~ (invitation[i].accepted /\ invitation[i].revoked)

\* Every link has one fate, and a login one link at a time.
LinksStand == TypeOK /\ OneOpenLink /\ OneOutcome

\* Whoever has taken up a link can enter: the password is there before the link
\* is used up, even when the request dies between the two (accept).
TakenUpCanEnter ==
    \A i \in Exists(invitation) :
        invitation[i].accepted => user[invitation[i].of].secret # "random"

\* Nobody is locked out by a link: of a new system, or of their own login.
NobodyLockedOut == SetupCanBeEntered /\ TakenUpCanEnter

\* A setup that lost leaves nobody behind: the administrator it made is the one
\* the system was set up for, or is gone again, unless the request died
\* (initialize, undo).
SettingUp(u) == \E h \in Handlers : At(h, "claim") /\ job[h].of = u
Settled(u) ==
    initializedBy = u \/ u \notin Live(user) \/ \E h \in Handlers : job[h] = Dead
NoSecondAdministrator == \A u \in Users : SettingUp(u) ~> Settled(u)
=============================================================================

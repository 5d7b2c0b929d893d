---------------------------- MODULE OfficeTables ----------------------------
(***************************************************************************)
(* The tables of the office: logins, the invitations that open them, who   *)
(* is signed in, and the stamp of first-run setup; and the requests        *)
(* running against them.                                                   *)
(*                                                                         *)
(* As in TripTables a row is None until it is inserted, and job[h] is what *)
(* handler h does next.  A handler that dies stays "dead", so that the     *)
(* properties can tell an unfinished request from an abandoned one.        *)
(***************************************************************************)
EXTENDS Integers, FiniteSets

CONSTANTS
    Handlers,      \* API requests that may be in flight at the same time
    Users,         \* user ids
    Links,         \* staff_invitation ids: a link is mailed for each
    Workload,      \* the requests clients make in this instance
    None           \* SQL NULL, and a row that does not exist

VARIABLES
    user,          \* logins
    invitation,    \* invitations
    session,       \* the users who are signed in
    initializedBy, \* SystemSetting.initializedAt, and whom setup, or the migration, stamped it for
    job            \* what each handler does next

tables == <<user, invitation, session, initializedBy>>
vars == <<tables, job>>
-----------------------------------------------------------------------------
\* Two of the roles: what the office tells apart is who may administer it.
Role == {"ADMINISTRATOR", "CREW"}

\* What opens the account: 32 random bytes nobody kept, or a password that
\* somebody has chosen.
Secret == {"random", "chosen"}

\* Addresses are not kept: see SignUp.
UserRow == [role : Role, active : BOOLEAN, live : BOOLEAN, secret : Secret]

\* mailed is not a column: the link may be in an inbox, whatever the mail service
\* answered; the answer is what sentAt and deliveryError record.
InvitationRow == [of : Users, accepted : BOOLEAN, revoked : BOOLEAN,
                  mailed : BOOLEAN, delivery : {"none", "sent", "failed"}]

ASSUME NoneIsNoRow == None \notin Users \cup UserRow \cup InvitationRow
ASSUME MigrationIsNobody == "migration" \notin Users

Exists(table) == {x \in DOMAIN table : table[x] # None}
Live(table) == {x \in Exists(table) : table[x].live}
\* Rows get ids nobody has, and ids tell nothing: the next one is as good as any.
IsNew(table, x) ==
    /\ Exists(table) # DOMAIN table
    /\ x = CHOOSE y \in DOMAIN table : table[y] = None

InvitationsOf(u) == {i \in Exists(invitation) : invitation[i].of = u}
\* Neither accepted nor revoked; it may have lapsed.
Open(i) == ~ invitation[i].accepted /\ ~ invitation[i].revoked
OpenOf(u) == {i \in InvitationsOf(u) : Open(i)}
-----------------------------------------------------------------------------
Idle == [do |-> "idle"]
Dead == [do |-> "dead"]
Called(h, op) == op \in Workload /\ job[h] = Idle
At(h, op) == job[h].do = op
GoOn(h, next) == job' = [job EXCEPT ![h] = next]
Accept(h, next) == GoOn(h, next) /\ UNCHANGED tables
Done(h) == GoOn(h, Idle)

\* Handlers that have written something and have more to write.
HalfWay == {"provision", "issue", "revokeOpen", "createLink", "mail", "recordDelivery",
            "checkDelivered", "claim", "undo", "markAccepted"}

\* The process ends: what is written stays, and nobody goes on from there.  A
\* request that had written nothing might as well not have come.
Crash(h) ==
    /\ "crash" \in Workload
    /\ job[h].do \in HalfWay
    /\ GoOn(h, Dead)
    /\ UNCHANGED tables
=============================================================================

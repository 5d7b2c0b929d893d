------------------------------- MODULE Logins -------------------------------
(***************************************************************************)
(* SystemService, UsersService, InvitationsService and the sign-in gate:   *)
(* how the first administrator comes to be, how logins are provisioned and *)
(* invited, taken up and removed, and who may sign in.                     *)
(***************************************************************************)
EXTENDS OfficeTables

\* A handler that provisions remembers for whom ("setup" or "create"), with
\* which role, and, once they exist, the user and the link.
Purpose == {"setup", "create"}
LoginJob ==
    [do : {"signUp"}, for : Purpose, role : Role]
    \cup [do : {"provision"}, for : Purpose, of : Users, role : Role]
    \cup [do : {"issue"}, for : Purpose, of : Users]
    \cup [do : {"revokeOpen"}, for : Purpose \cup {"resend"}, of : Users]
    \cup [do : {"createLink"}, for : Purpose \cup {"resend"}, of : Users, open : SUBSET Links]
    \cup [do : {"mail"}, for : Purpose \cup {"resend"}, of : Users, link : Links]
    \cup [do : {"recordDelivery"}, for : Purpose \cup {"resend"}, of : Users, link : Links,
          delivery : {"sent", "failed"}]
    \cup [do : {"checkDelivered", "claim", "undo"}, of : Users]
    \cup [do : {"setPassword", "markAccepted"}, of : Users, link : Links]
    \cup [do : {"revoke"}, link : Links]
    \cup [do : {"openSession"}, of : Users]
    \cup [do : {"deactivate", "softDelete"}, of : Users]

\* AuthenticatedGuard and RolesGuard: a live, active administrator is signed in.
MayAdminister(a) ==
    /\ a \in session \cap Live(user)
    /\ user[a].active
    /\ user[a].role = "ADMINISTRATOR"
AdministratorCalls(h, op) == Called(h, op) /\ \E a \in Users : MayAdminister(a)

PutUser(h, u, row, next) ==
    /\ user' = [user EXCEPT ![u] = row]
    /\ GoOn(h, next)
    /\ UNCHANGED <<invitation, session, initializedBy>>
PutLink(h, i, row, next) ==
    /\ invitation' = [invitation EXCEPT ![i] = row]
    /\ GoOn(h, next)
    /\ UNCHANGED <<user, session, initializedBy>>
-----------------------------------------------------------------------------
(* First-run setup, and provisioning. *)

\* initialize: a cheap look; the claim below is what decides.
LoadInitialize(h) ==
    /\ Called(h, "initialize")
    /\ initializedBy = None
    /\ Accept(h, [do |-> "signUp", for |-> "setup", role |-> "ADMINISTRATOR"])

LoadCreateUser(h, role) ==
    /\ AdministratorCalls(h, "createUser")
    /\ Accept(h, [do |-> "signUp", for |-> "create", role |-> role])

\* signUpEmail: the account starts with the least privilege and a password that
\* is thrown away.
SignUp(h, u) ==
    /\ At(h, "signUp")
    /\ IsNew(user, u)
    /\ PutUser(h, u, [role |-> "CREW", active |-> TRUE, live |-> TRUE, secret |-> "random"],
               [do |-> "provision", for |-> job[h].for, of |-> u, role |-> job[h].role])

\* user_email_live_key: the address may be that of any live login.
SignUpRefused(h) ==
    /\ At(h, "signUp")
    /\ Live(user) # {}
    /\ Done(h)
    /\ UNCHANGED tables

Provision(h) ==
    /\ At(h, "provision")
    /\ PutUser(h, job[h].of, [user[job[h].of] EXCEPT !.role = job[h].role],
               [do |-> "issue", for |-> job[h].for, of |-> job[h].of])

\* issue looks the login up again, and provision takes back whoever it does not
\* find: it may have been removed since it was made.
FindLogin(h) ==
    /\ At(h, "issue")
    /\ Accept(h, IF job[h].of \in Live(user)
                 THEN [do |-> "revokeOpen", for |-> job[h].for, of |-> job[h].of]
                 ELSE [do |-> "undo", of |-> job[h].of])

\* The same look, for a login that is sent another link.
LoadResend(h, u) ==
    /\ AdministratorCalls(h, "resend")
    /\ u \in Live(user)
    /\ Accept(h, [do |-> "revokeOpen", for |-> "resend", of |-> u])

\* issue, one transaction: the updateMany sees the open links there are now, ...
RevokeOpen(h) ==
    /\ At(h, "revokeOpen")
    /\ Accept(h, [do |-> "createLink", for |-> job[h].for, of |-> job[h].of,
                  open |-> OpenOf(job[h].of)])

\* Mutant: no such index.
NoPendingKey(u, revoking) == u \in Users /\ revoking \subseteq Links

\* ... and staff_invitation_pending_user_live_key admits one open link: one that
\* another issue committed meanwhile refuses the new one, and all is undone.
OneOpen(u, revoking) == OpenOf(u) \subseteq revoking
CreateLink(h, i) ==
    /\ At(h, "createLink")
    /\ IsNew(invitation, i)
    /\ OneOpen(job[h].of, job[h].open)
    /\ invitation' = [k \in Links |->
           IF k = i THEN [of |-> job[h].of, accepted |-> FALSE, revoked |-> FALSE,
                          mailed |-> FALSE, delivery |-> "none"]
           ELSE IF k \in job[h].open /\ Open(k) THEN [invitation[k] EXCEPT !.revoked = TRUE]
           ELSE invitation[k]]
    /\ GoOn(h, [do |-> "mail", for |-> job[h].for, of |-> job[h].of, link |-> i])
    /\ UNCHANGED <<user, session, initializedBy>>

\* provision: whoever fails to be invited is taken back.
CreateLinkRefused(h) ==
    /\ At(h, "createLink")
    /\ ~ OneOpen(job[h].of, job[h].open)
    /\ Accept(h, IF job[h].for = "resend" THEN Idle ELSE [do |-> "undo", of |-> job[h].of])

\* MailService.send answers, and does not throw; a message it gives up on may
\* still have reached the inbox.
Mail(h, answer) ==
    /\ At(h, "mail")
    /\ PutLink(h, job[h].link, [invitation[job[h].link] EXCEPT !.mailed = TRUE],
               [do |-> "recordDelivery", for |-> job[h].for, of |-> job[h].of,
                link |-> job[h].link, delivery |-> answer])

RecordDelivery(h) ==
    /\ At(h, "recordDelivery")
    /\ PutLink(h, job[h].link, [invitation[job[h].link] EXCEPT !.delivery = job[h].delivery],
               IF job[h].for = "setup" THEN [do |-> "checkDelivered", of |-> job[h].of] ELSE Idle)

\* Mutant: the answer of the mail service is not looked at.
AnyDelivery(u) == u \in Users

\* assertTheInviteWasDelivered, of the only link a setup has made by then.
Delivered(u) == \E i \in InvitationsOf(u) : invitation[i].delivery = "sent"

CheckDelivered(h) ==
    /\ At(h, "checkDelivered")
    /\ Accept(h, [do |-> IF Delivered(job[h].of) THEN "claim" ELSE "undo", of |-> job[h].of])

\* Mutant: the claim is written whoever made it first.
ClaimAnyway(h) ==
    /\ At(h, "claim")
    /\ initializedBy' = job[h].of
    /\ Done(h)
    /\ UNCHANGED <<user, invitation, session>>

\* claimInitialization: one statement, WHERE initializedAt IS NULL.
Claim(h) ==
    /\ At(h, "claim")
    /\ initializedBy = None
    /\ initializedBy' = job[h].of
    /\ Done(h)
    /\ UNCHANGED <<user, invitation, session>>

\* Mutant: losing the claim is an answer, and no more.
LeaveAdministrator(h) == At(h, "claim") /\ initializedBy # None /\ Done(h) /\ UNCHANGED tables

LoseClaim(h) ==
    /\ At(h, "claim")
    /\ initializedBy # None
    /\ Accept(h, [do |-> "undo", of |-> job[h].of])

\* The statement fails, or was committed and its answer is lost: undone, either way.
ClaimFails(h) ==
    /\ At(h, "claim")
    /\ \/ UNCHANGED initializedBy
       \/ initializedBy = None /\ initializedBy' = job[h].of
    /\ GoOn(h, [do |-> "undo", of |-> job[h].of])
    /\ UNCHANGED <<user, invitation, session>>

\* Mutant: the row is deleted, not stamped.
HardUndo(h) == At(h, "undo") /\ PutUser(h, job[h].of, None, Idle)

Undo(h) ==
    /\ At(h, "undo")
    /\ PutUser(h, job[h].of, [user[job[h].of] EXCEPT !.live = FALSE], Idle)
-----------------------------------------------------------------------------
(* Invitations: taken up and withdrawn. *)

\* resolveUsable; the account is read through the link, removed or not.  A link
\* that has lapsed needs no state: it is one nobody takes up any more.
Usable(i) == Open(i) /\ user[invitation[i].of].active

LoadAccept(h, i) ==
    /\ Called(h, "accept")
    /\ i \in Exists(invitation)
    /\ invitation[i].mailed
    /\ Usable(i)
    /\ Accept(h, [do |-> "setPassword", of |-> invitation[i].of, link |-> i])

\* Mutant: the link is marked before there is a password.
AcceptFirst(h) ==
    /\ At(h, "setPassword")
    /\ ~ invitation[job[h].link].revoked
    /\ PutLink(h, job[h].link, [invitation[job[h].link] EXCEPT !.accepted = TRUE],
               [do |-> "markAccepted", of |-> job[h].of, link |-> job[h].link])

\* accept: the password first, ...
SetPassword(h) ==
    /\ At(h, "setPassword")
    /\ PutUser(h, job[h].of, [user[job[h].of] EXCEPT !.secret = "chosen"],
               [do |-> "markAccepted", of |-> job[h].of, link |-> job[h].link])

\* Mutant: no such CHECK.
EitherOutcome(i) == i \in Links

\* staff_invitation_outcome_exclusive
MayBeAccepted(i) == ~ invitation[i].revoked

\* ... and only then is the link marked used, whoever else used it since.
MarkAccepted(h) ==
    /\ At(h, "markAccepted")
    /\ MayBeAccepted(job[h].link)
    /\ PutLink(h, job[h].link, [invitation[job[h].link] EXCEPT !.accepted = TRUE], Idle)

MarkRefused(h) ==
    /\ At(h, "markAccepted")
    /\ ~ MayBeAccepted(job[h].link)
    /\ Done(h)
    /\ UNCHANGED tables

LoadRevoke(h, i) ==
    /\ AdministratorCalls(h, "revoke")
    /\ i \in Exists(invitation)
    /\ Open(i)
    /\ Accept(h, [do |-> "revoke", link |-> i])

Revoke(h) ==
    /\ At(h, "revoke")
    /\ ~ invitation[job[h].link].accepted
    /\ PutLink(h, job[h].link, [invitation[job[h].link] EXCEPT !.revoked = TRUE], Idle)

RevokeRefused(h) ==
    /\ At(h, "revoke")
    /\ invitation[job[h].link].accepted
    /\ Done(h)
    /\ UNCHANGED tables
-----------------------------------------------------------------------------
(* Signing in.  Signing out again would only make fewer actors. *)

\* hasUnacceptedInvitation: of several links one accepted is enough, and an
\* account that was never invited is not held back.
Unaccepted(u) ==
    InvitationsOf(u) # {} /\ \A i \in InvitationsOf(u) : ~ invitation[i].accepted

LoadSignIn(h, u) ==
    /\ Called(h, "signIn")
    /\ u \in Live(user)
    /\ ~ Unaccepted(u)
    /\ Accept(h, [do |-> "openSession", of |-> u])

\* Better Auth checks the password: the discarded one opens nothing.
OpenSession(h) ==
    /\ At(h, "openSession")
    /\ job[h].of \in Live(user)
    /\ user[job[h].of].secret # "random"
    /\ session' = session \cup {job[h].of}
    /\ Done(h)
    /\ UNCHANGED <<user, invitation, initializedBy>>

SignInRefused(h) ==
    /\ At(h, "openSession")
    /\ job[h].of \notin Live(user) \/ user[job[h].of].secret = "random"
    /\ Done(h)
    /\ UNCHANGED tables
-----------------------------------------------------------------------------
(* Removing logins. *)

\* remove: not oneself; what has been used, as a session shows, is deactivated.
LoadRemoveUser(h, a, u) ==
    /\ Called(h, "removeUser")
    /\ MayAdminister(a) /\ u # a
    /\ u \in Live(user)
    /\ Accept(h, [do |-> IF u \in session THEN "deactivate" ELSE "softDelete", of |-> u])

Deactivate(h) ==
    /\ At(h, "deactivate")
    /\ PutUser(h, job[h].of, [user[job[h].of] EXCEPT !.active = FALSE], Idle)

SoftDelete(h) ==
    /\ At(h, "softDelete")
    /\ PutUser(h, job[h].of, [user[job[h].of] EXCEPT !.live = FALSE], Idle)
-----------------------------------------------------------------------------
\* What a handler does next, once it is called.
SetupGoesOn(h) ==
    \/ \E u \in Users : SignUp(h, u)
    \/ SignUpRefused(h) \/ Provision(h) \/ FindLogin(h) \/ RevokeOpen(h)
    \/ \E i \in Links : CreateLink(h, i)
    \/ CreateLinkRefused(h)
    \/ \E answer \in {"sent", "failed"} : Mail(h, answer)
    \/ RecordDelivery(h) \/ CheckDelivered(h)
    \/ Claim(h) \/ LoseClaim(h) \/ ClaimFails(h) \/ Undo(h)

LoginGoesOn(h) ==
    \/ SetupGoesOn(h)
    \/ SetPassword(h) \/ MarkAccepted(h) \/ MarkRefused(h) \/ Revoke(h) \/ RevokeRefused(h)
    \/ OpenSession(h) \/ SignInRefused(h) \/ Deactivate(h) \/ SoftDelete(h)

LoginCalled(h) ==
    \/ LoadInitialize(h)
    \/ \E role \in Role : LoadCreateUser(h, role)
    \/ \E i \in Links : LoadAccept(h, i) \/ LoadRevoke(h, i)
    \/ \E u \in Users :
          \/ LoadResend(h, u) \/ LoadSignIn(h, u)
          \/ \E a \in Users : LoadRemoveUser(h, a, u)
=============================================================================

---------------------------- MODULE OfficeProofs ----------------------------
(***************************************************************************)
(* What the office keeps for any number of requests in flight, by          *)
(* induction over its steps: every link has one fate, whoever took one up  *)
(* can enter, a system that is set up can be entered, and is set up once.  *)
(*                                                                         *)
(* The database decides the races, so the invariant is mostly the          *)
(* properties themselves.  What has to be added is what handlers rely on:  *)
(* rows they name stay, and the link a handler is about to mail is its own *)
(* and has no answer yet, so that no other answer is written over "sent".  *)
(***************************************************************************)
EXTENDS Office, FiniteSetTheorems, TLAPS

UserAt(u) == user[u] \in UserRow
LinkAt(i) == invitation[i] \in InvitationRow

SingleOpen == \A u \in Users : \A i, k \in OpenOf(u) : i = k

TablesOK ==
    /\ user \in [Users -> UserRow \cup {None}]
    /\ invitation \in [Links -> InvitationRow \cup {None}]
    /\ \A i \in Links : LinkAt(i) => UserAt(invitation[i].of)
    /\ session \subseteq Users
    /\ initializedBy \in Users \cup {None, "migration"}
    /\ SingleOpen
    /\ OneOutcome
    /\ TakenUpCanEnter
    /\ SetupCanBeEntered

Mailing == {"mail", "recordDelivery"}
OnUser == {"provision", "issue", "revokeOpen", "createLink", "mail", "recordDelivery",
           "checkDelivered", "claim", "undo", "setPassword", "markAccepted", "deactivate", "softDelete"}
OnLink == {"mail", "recordDelivery", "setPassword", "markAccepted", "revoke"}
Reading == {"mail", "recordDelivery", "setPassword", "markAccepted"}

Sound(j) ==
    /\ j \in Job
    /\ j.do \in OnUser => UserAt(j.of)
    /\ j.do \in OnLink => LinkAt(j.link)
    /\ j.do \in Reading => invitation[j.link].of = j.of
    /\ j.do = "markAccepted" => user[j.of].secret = "chosen"
    /\ j.do = "createLink" => \A i \in j.open : LinkAt(i)
    /\ j.do = "claim" => Delivered(j.of)
    /\ j.do \in Mailing => invitation[j.link].delivery = "none"

OwnLinks ==
    \A h, k \in Handlers :
        job[h].do \in Mailing /\ job[k].do \in Mailing /\ job[h].link = job[k].link => h = k

Inv ==
    /\ TablesOK
    /\ job \in [Handlers -> Job]
    /\ \A h \in Handlers : Sound(job[h])
    /\ OwnLinks

\* No step of h takes a row away, or answers for a link that is not h's.
RowsStay(h) ==
    /\ \A u \in Users : UserAt(u) =>
          UserAt(u)' /\ (user[u].secret = "chosen" => user'[u].secret = "chosen")
    /\ \A i \in Links : LinkAt(i) =>
          /\ LinkAt(i)'
          /\ invitation'[i].of = invitation[i].of
          /\ \/ invitation'[i].delivery = invitation[i].delivery
             \/ At(h, "recordDelivery") /\ i = job[h].link

\* A link that a handler mails was its own, or is new.
OwnOrNew(h, j) ==
    j.do \in Mailing =>
        \/ job[h].do \in Mailing /\ j.link = job[h].link
        \/ invitation[j.link] = None

Takes(h) ==
    /\ TablesOK'
    /\ RowsStay(h)
    /\ \E j : Sound(j)' /\ OwnOrNew(h, j) /\ job' = [job EXCEPT ![h] = j]

-----------------------------------------------------------------------------
(* Handlers. *)

LEMMA JobShapes ==
    ASSUME NEW j \in Job
    PROVE  /\ j.do = "signUp" => j.for \in Purpose /\ j.role \in Role
           /\ j.do = "provision" => j.for \in Purpose /\ j.of \in Users /\ j.role \in Role
           /\ j.do = "issue" => j.for \in Purpose /\ j.of \in Users
           /\ j.do = "revokeOpen" => j.for \in Purpose \cup {"resend"} /\ j.of \in Users
           /\ j.do = "createLink" =>
                 j.for \in Purpose \cup {"resend"} /\ j.of \in Users /\ j.open \subseteq Links
           /\ j.do = "mail" => j.for \in Purpose \cup {"resend"} /\ j.of \in Users /\ j.link \in Links
           /\ j.do = "recordDelivery" =>
                 /\ j.for \in Purpose \cup {"resend"} /\ j.of \in Users /\ j.link \in Links
                 /\ j.delivery \in {"sent", "failed"}
           /\ j.do \in {"checkDelivered", "claim", "undo"} => j.of \in Users
           /\ j.do \in {"setPassword", "markAccepted"} => j.of \in Users /\ j.link \in Links
           /\ j.do = "revoke" => j.link \in Links
           /\ j.do \in {"openSession", "deactivate", "softDelete"} => j.of \in Users
  BY DEF Job, LoginJob, Idle, Dead

LEMMA NamedExist ==
    ASSUME NEW j \in Job
    PROVE  /\ j.do \in OnUser => j.of \in Users
           /\ j.do \in OnLink => j.link \in Links
           /\ Reading \subseteq OnUser \cap OnLink /\ Mailing \subseteq Reading
  BY JobShapes DEF OnUser, OnLink, Reading, Mailing

\* A row is there when it is not None.
LEMMA RowsAreThere ==
    ASSUME TablesOK
    PROVE  /\ \A u \in Users : UserAt(u) <=> user[u] # None
           /\ \A i \in Links : LinkAt(i) <=> invitation[i] # None
           /\ Exists(user) = {u \in Users : UserAt(u)}
           /\ Exists(invitation) = {i \in Links : LinkAt(i)}
  BY NoneIsNoRow DEF TablesOK, UserAt, LinkAt, Exists

LEMMA RestingIsSound == Sound(Idle)' /\ Sound(Dead)' /\ Sound(Idle) /\ Sound(Dead)
  BY DEF Sound, Idle, Dead, Job, OnUser, OnLink, Reading, Mailing

LEMMA SentStays ==
    ASSUME Inv, NEW h \in Handlers, RowsStay(h),
           invitation' \in [Links -> InvitationRow \cup {None}],
           NEW u, Delivered(u)
    PROVE  Delivered(u)'
<1>1. PICK i \in InvitationsOf(u) : invitation[i].delivery = "sent"
  BY DEF Delivered
<1>2. i \in Links /\ LinkAt(i) /\ invitation[i].of = u
  BY RowsAreThere DEF Inv, InvitationsOf
<1>3. ~ (At(h, "recordDelivery") /\ i = job[h].link)
  BY <1>1 DEF At, Inv, Sound, Mailing
<1>4. LinkAt(i)' /\ invitation'[i].of = u /\ invitation'[i].delivery = "sent"
  BY <1>1, <1>2, <1>3 DEF RowsStay
<1>5. i \in InvitationsOf(u)'
  BY <1>2, <1>4, NoneIsNoRow DEF InvitationsOf, Exists, LinkAt
<1> QED BY <1>4, <1>5 DEF Delivered

LEMMA SoundStays ==
    ASSUME Inv, NEW h \in Handlers, NEW k \in Handlers, k # h, RowsStay(h), TablesOK',
           job'[k] = job[k]
    PROVE  Sound(job[k])'
<1> DEFINE j == job[k]
<1>1. j \in Job /\ Sound(j)
  BY DEF Inv
<1>2. /\ j.do \in OnUser => j.of \in Users
      /\ j.do \in OnLink => j.link \in Links
      /\ Reading \subseteq OnUser \cap OnLink /\ Mailing \subseteq Reading
  BY <1>1, NamedExist
<1>3. j.do \in OnUser => UserAt(j.of)'
  BY <1>1, <1>2 DEF Sound, RowsStay
<1>4. j.do \in OnLink => LinkAt(j.link)'
  BY <1>1, <1>2 DEF Sound, RowsStay
<1>5. j.do \in Reading => invitation'[j.link].of = j.of
  BY <1>1, <1>2 DEF Sound, RowsStay
<1>6. j.do = "markAccepted" => user'[j.of].secret = "chosen"
  BY <1>1, <1>2 DEF Sound, RowsStay, OnUser
<1>7. j.do \in Mailing => invitation'[j.link].delivery = "none"
  <2> SUFFICES ASSUME j.do \in Mailing PROVE invitation'[j.link].delivery = "none"
    OBVIOUS
  <2>1. ~ (At(h, "recordDelivery") /\ j.link = job[h].link)
    BY DEF At, Inv, OwnLinks, Mailing
  <2> QED BY <1>1, <1>2, <2>1 DEF Sound, RowsStay
<1>8. j.do = "claim" => Delivered(j.of)'
  BY <1>1, SentStays DEF Sound, TablesOK
<1>9. /\ UserAt(job[k].of)' <=> UserAt(j.of)'
      /\ LinkAt(job[k].link)' <=> LinkAt(j.link)'
      /\ Delivered(job[k].of)' <=> Delivered(j.of)'
  OBVIOUS
<1>10. j.do = "createLink" => \A i \in j.open : LinkAt(i)'
  <2>1. j.do = "createLink" => j.open \subseteq Links
    BY <1>1, JobShapes
  <2> QED BY <1>1, <2>1 DEF Sound, RowsStay
<1> HIDE DEF j
<1> QED BY <1>1, <1>3, <1>4, <1>5, <1>6, <1>7, <1>8, <1>9, <1>10 DEF Sound, j

LEMMA TakesKeepsInv ==
    ASSUME Inv, NEW h \in Handlers, Takes(h)
    PROVE  Inv'
<1>1. PICK j : Sound(j)' /\ OwnOrNew(h, j) /\ job' = [job EXCEPT ![h] = j]
  BY DEF Takes
<1>2. RowsStay(h) /\ TablesOK'
  BY DEF Takes
<1>3. \A k \in Handlers : job'[k] = IF k = h THEN j ELSE job[k]
  BY <1>1 DEF Inv
<1>4. j \in Job
  BY <1>1 DEF Sound
<1>5. job' \in [Handlers -> Job]
  BY <1>1, <1>4 DEF Inv
<1>6. ASSUME NEW k \in Handlers PROVE Sound(job[k])'
  <2>1. CASE k = h
    BY <1>1, <1>3, <2>1
  <2>2. CASE k # h
    BY <1>2, <1>3, <2>2, SoundStays
  <2> QED BY <2>1, <2>2
<1>7. OwnLinks'
  <2>1. ASSUME NEW k \in Handlers, k # h, j.do \in Mailing, job[k].do \in Mailing
        PROVE  job[k].link # j.link
    <3>1. LinkAt(job[k].link) /\ job[k].link \in Links
      BY <2>1, NamedExist DEF Inv, Sound, Mailing, OnLink
    <3>2. invitation[job[k].link] # None
      BY <3>1, RowsAreThere DEF Inv
    <3> QED BY <1>1, <2>1, <3>2 DEF OwnOrNew, Inv, OwnLinks
  <2> QED BY <1>3, <2>1 DEF OwnLinks, Inv
<1> QED BY <1>2, <1>5, <1>6, <1>7 DEF Inv

-----------------------------------------------------------------------------
(* Reads, and writes of one row. *)

LEMMA AcceptTakes ==
    ASSUME Inv, NEW h \in Handlers, NEW j, Sound(j), j.do \notin Mailing, Accept(h, j)
    PROVE  Takes(h)
<1>1. UNCHANGED tables /\ job' = [job EXCEPT ![h] = j]
  BY DEF Accept, GoOn
<1>2. TablesOK'
  BY <1>1 DEF tables, Inv, TablesOK, SingleOpen, OpenOf, InvitationsOf, Open, Exists, OneOutcome,
              TakenUpCanEnter, SetupCanBeEntered, LinkAt, UserAt
<1>3. RowsStay(h)
  BY <1>1 DEF tables, RowsStay, LinkAt, UserAt
<1>4. Sound(j)'
  BY <1>1 DEF tables, Sound, Delivered, InvitationsOf, Exists, LinkAt, UserAt
<1> QED BY <1>1, <1>2, <1>3, <1>4 DEF Takes, OwnOrNew

LEMMA EndTakes ==
    ASSUME Inv, NEW h \in Handlers, Accept(h, Idle) \/ Accept(h, Dead)
    PROVE  Takes(h)
  BY RestingIsSound, AcceptTakes DEF Idle, Dead, Mailing

LEMMA UserKept ==
    ASSUME Inv, NEW h \in Handlers, NEW u \in Users, NEW row \in UserRow, NEW next,
           PutUser(h, u, row, next),
           UserAt(u) /\ user[u].secret = "chosen" => row.secret = "chosen"
    PROVE  TablesOK' /\ RowsStay(h) /\ UserAt(u)' /\ user'[u] = row
<1>1. /\ user' = [user EXCEPT ![u] = row] /\ UNCHANGED <<invitation, session, initializedBy>>
      /\ TablesOK
  BY DEF PutUser, Inv
<1>2. /\ user' \in [Users -> UserRow \cup {None}]
      /\ \A k \in Users : user'[k] = IF k = u THEN row ELSE user[k]
  BY <1>1 DEF TablesOK
<1>3. \A k \in Users : UserAt(k) =>
         UserAt(k)' /\ (user[k].secret = "chosen" => user'[k].secret = "chosen")
  BY <1>2 DEF UserAt
<1>4. \A i \in Links : LinkAt(i)' <=> LinkAt(i)
  BY <1>1 DEF LinkAt
<1>5. \A i \in Links : LinkAt(i) => invitation[i].of \in Users
  BY DEF LinkAt, InvitationRow
<1>6. \A i \in Links : LinkAt(i)' => UserAt(invitation[i].of)'
  BY <1>1, <1>3, <1>4, <1>5 DEF TablesOK, UserAt
<1>7. SingleOpen' /\ OneOutcome' /\ SetupCanBeEntered'
  BY <1>1 DEF TablesOK, SingleOpen, OpenOf, InvitationsOf, Open, Exists, OneOutcome,
              SetupCanBeEntered
<1>8. TakenUpCanEnter'
  <2> SUFFICES ASSUME NEW i \in Exists(invitation), invitation[i].accepted
               PROVE  user'[invitation[i].of].secret # "random"
    BY <1>1 DEF TakenUpCanEnter, Exists
  <2>1. i \in Links /\ UserAt(invitation[i].of) /\ invitation[i].of \in Users
    BY <1>1, <1>5, RowsAreThere DEF TablesOK
  <2>2. user[invitation[i].of].secret = "chosen"
    BY <1>1, <2>1 DEF TablesOK, TakenUpCanEnter, UserAt, UserRow, Secret
  <2> QED BY <1>3, <2>1, <2>2
<1>9. TablesOK'
  BY <1>1, <1>2, <1>6, <1>7, <1>8 DEF TablesOK
<1>10. RowsStay(h)
  BY <1>1, <1>3, <1>4 DEF RowsStay
<1> QED BY <1>2, <1>9, <1>10 DEF UserAt

LEMMA LinkKept ==
    ASSUME Inv, NEW h \in Handlers, NEW i \in Links, NEW row \in InvitationRow, NEW next,
           PutLink(h, i, row, next),
           LinkAt(i), row.of = invitation[i].of,
           ~ (row.accepted /\ row.revoked),
           ~ row.accepted /\ ~ row.revoked => Open(i),
           row.accepted => user[row.of].secret # "random",
           row.delivery = invitation[i].delivery \/ (At(h, "recordDelivery") /\ i = job[h].link)
    PROVE  TablesOK' /\ RowsStay(h) /\ LinkAt(i)' /\ invitation'[i] = row
<1>1. /\ invitation' = [invitation EXCEPT ![i] = row] /\ UNCHANGED <<user, session, initializedBy>>
      /\ TablesOK
  BY DEF PutLink, Inv
<1>2. /\ invitation' \in [Links -> InvitationRow \cup {None}]
      /\ \A k \in Links : invitation'[k] = IF k = i THEN row ELSE invitation[k]
      /\ DOMAIN invitation = Links /\ DOMAIN invitation' = Links
  BY <1>1 DEF TablesOK
<1>3. \A k \in Links : /\ LinkAt(k)' <=> LinkAt(k)
                       /\ LinkAt(k) => invitation'[k].of = invitation[k].of
  BY <1>2 DEF LinkAt
<1>4. RowsStay(h)
  BY <1>1, <1>2, <1>3 DEF RowsStay, UserAt
<1>5. \A k \in Links : LinkAt(k)' => UserAt(invitation[k].of)'
  BY <1>1, <1>2, <1>3 DEF TablesOK, UserAt
<1>6. /\ Exists(invitation) = {k \in Links : LinkAt(k)}
      /\ Exists(invitation)' = {k \in Links : LinkAt(k)}
  BY <1>1, <1>2, <1>3, NoneIsNoRow, RowsAreThere DEF Exists, LinkAt
<1>7. SingleOpen'
  <2>1. ASSUME NEW u \in Users, NEW k \in OpenOf(u)' PROVE k \in OpenOf(u)
    <3>1. k \in Links /\ LinkAt(k) /\ invitation'[k].of = u /\ Open(k)'
      BY <1>6 DEF OpenOf, InvitationsOf
    <3>2. invitation[k].of = u /\ k \in Exists(invitation)
      BY <1>3, <1>6, <3>1
    <3>3. Open(k)
      BY <1>2, <3>1 DEF Open
    <3> QED BY <3>2, <3>3 DEF OpenOf, InvitationsOf
  <2> QED BY <1>1, <2>1 DEF TablesOK, SingleOpen
<1>8. OneOutcome'
  BY <1>1, <1>2, <1>6 DEF TablesOK, OneOutcome
<1>9. TakenUpCanEnter'
  BY <1>1, <1>2, <1>3, <1>6 DEF TablesOK, TakenUpCanEnter
<1>10. SetupCanBeEntered'
  <2>1. PICK u : u = initializedBy
    OBVIOUS
  <2>2. initializedBy' = u
    BY <1>1, <2>1
  <2>3. u \in Users => Delivered(u)
    BY <1>1, <2>1 DEF TablesOK, SetupCanBeEntered, Delivered
  <2>4. u \in Users => Delivered(u)'
    BY <1>2, <1>4, <2>3, SentStays
  <2> QED BY <2>2, <2>4 DEF SetupCanBeEntered, Delivered
<1>11. TablesOK'
  BY <1>1, <1>2, <1>5, <1>7, <1>8, <1>9, <1>10 DEF TablesOK
<1> QED BY <1>2, <1>3, <1>4, <1>11

-----------------------------------------------------------------------------
(* Setting up and inviting. *)

\* The new link is the only open one of its login: every other was open when the
\* revocation read, or the index refuses it.
LEMMA CreateLinkTakes ==
    ASSUME Inv, NEW h \in Handlers, NEW i \in Links, CreateLink(h, i)
    PROVE  Takes(h)
<1>0. PICK j : j = job[h]
  OBVIOUS
<1> DEFINE row == [of |-> j.of, accepted |-> FALSE, revoked |-> FALSE,
                   mailed |-> FALSE, delivery |-> "none"]
           next == [do |-> "mail", for |-> j.for, of |-> j.of, link |-> i]
<1>1. /\ j \in Job /\ Sound(j) /\ j.do = "createLink" /\ j.for \in Purpose \cup {"resend"}
      /\ j.of \in Users /\ j.open \subseteq Links /\ UserAt(j.of)
  BY <1>0, JobShapes DEF CreateLink, At, Inv, Sound, OnUser
<1>2. TablesOK /\ UNCHANGED <<user, session, initializedBy>>
  BY DEF CreateLink, Inv
<1>3. invitation[i] = None
  <2>1. \E k \in Links : invitation[k] = None
    BY <1>2 DEF CreateLink, IsNew, Exists, TablesOK
  <2> QED BY <1>2, <2>1 DEF CreateLink, IsNew, TablesOK
<1>4. \A k \in Links : invitation'[k] =
          IF k = i THEN row
          ELSE IF k \in j.open /\ Open(k) THEN [invitation[k] EXCEPT !.revoked = TRUE]
          ELSE invitation[k]
  BY <1>0 DEF CreateLink
<1>5. row \in InvitationRow /\ row # None
  <2>1. row \in InvitationRow
    BY <1>1 DEF InvitationRow
  <2> HIDE DEF row
  <2> QED BY <2>1, NoneIsNoRow
<1> HIDE DEF row
<1>6. ASSUME NEW k \in Links, LinkAt(k)
      PROVE  /\ k # i
             /\ LinkAt(k)'
             /\ invitation'[k].of = invitation[k].of
             /\ invitation'[k].delivery = invitation[k].delivery
             /\ invitation'[k].accepted = invitation[k].accepted
             /\ invitation'[k].revoked = (invitation[k].revoked \/ (k \in j.open /\ Open(k)))
  <2>1. k # i
    BY <1>2, <1>3, <1>6, RowsAreThere
  <2>2. CASE k \in j.open /\ Open(k)
    BY <1>4, <1>6, <2>1, <2>2 DEF LinkAt, InvitationRow
  <2>3. CASE ~ (k \in j.open /\ Open(k))
    BY <1>4, <1>6, <2>1, <2>3 DEF LinkAt, InvitationRow
  <2> QED BY <2>1, <2>2, <2>3
<1>7. ASSUME NEW k \in Links, ~ LinkAt(k), k # i PROVE invitation'[k] = None
  <2>1. invitation[k] = None
    BY <1>2, <1>7, RowsAreThere
  <2>2. k \notin j.open
    BY <1>1, <1>7 DEF Sound
  <2> QED BY <1>4, <1>7, <2>1, <2>2
<1>8. /\ invitation' \in [Links -> InvitationRow \cup {None}]
      /\ Exists(invitation)' = {k \in Links : LinkAt(k) \/ k = i}
      /\ invitation'[i] = row
      /\ \A k \in Links : LinkAt(k)' <=> LinkAt(k) \/ k = i
  <2>1. invitation' = [k \in Links |-> invitation'[k]]
    BY DEF CreateLink
  <2>2. invitation'[i] = row
    BY <1>4
  <2>3. \A k \in Links : invitation'[k] \in InvitationRow \cup {None}
    BY <1>5, <1>6, <1>7, <2>2 DEF LinkAt
  <2>4. \A k \in Links : LinkAt(k)' <=> LinkAt(k) \/ k = i
    BY <1>5, <1>6, <1>7, <2>2, NoneIsNoRow DEF LinkAt
  <2>5. \A k \in Links : invitation'[k] # None <=> LinkAt(k)'
    BY <2>3, NoneIsNoRow DEF LinkAt
  <2>6. DOMAIN invitation' = Links
    BY <2>1
  <2> QED BY <2>1, <2>2, <2>3, <2>4, <2>5, <2>6 DEF Exists
<1>9. RowsStay(h)
  BY <1>2, <1>6 DEF RowsStay, UserAt
<1>10. ASSUME NEW k \in Links, LinkAt(k)' PROVE UserAt(invitation[k].of)'
  <2>1. CASE k = i
    BY <1>1, <1>2, <1>8, <2>1 DEF row, UserAt
  <2>2. CASE k # i
    BY <1>2, <1>6, <1>8, <1>10, <2>2 DEF TablesOK, UserAt
  <2> QED BY <2>1, <2>2
<1>11. Exists(invitation) = {k \in Links : LinkAt(k)}
  BY <1>2, RowsAreThere
<1>12. SingleOpen'
  <2>1. ASSUME NEW u \in Users, NEW k \in OpenOf(u)' PROVE k = i \/ (k \in OpenOf(u) /\ u # j.of)
    <3>1. k \in Links /\ (LinkAt(k) \/ k = i) /\ invitation'[k].of = u /\ Open(k)'
      BY <1>8 DEF OpenOf, InvitationsOf
    <3>2. SUFFICES ASSUME k # i PROVE k \in OpenOf(u) /\ u # j.of
      OBVIOUS
    <3>3. invitation[k].of = u /\ Open(k) /\ ~ (k \in j.open /\ Open(k))
      BY <1>6, <3>1, <3>2 DEF Open
    <3>4. k \in OpenOf(u)
      BY <1>11, <3>1, <3>2, <3>3 DEF OpenOf, InvitationsOf
    <3>5. OpenOf(j.of) \subseteq j.open
      BY <1>0 DEF CreateLink, OneOpen
    <3> QED BY <3>3, <3>4, <3>5
  <2>2. \A u \in Users : i \in OpenOf(u)' => u = j.of
    BY <1>8 DEF OpenOf, InvitationsOf, row
  <2> QED BY <1>2, <2>1, <2>2 DEF TablesOK, SingleOpen
<1>13. OneOutcome'
  <2>1. ~ (invitation'[i].accepted /\ invitation'[i].revoked)
    BY <1>8 DEF row
  <2>2. ASSUME NEW k \in Links, LinkAt(k)
        PROVE  ~ (invitation'[k].accepted /\ invitation'[k].revoked)
    <3>1. ~ (invitation[k].accepted /\ invitation[k].revoked)
      BY <1>2, <1>11, <2>2 DEF TablesOK, OneOutcome
    <3> QED BY <1>6, <2>2, <3>1 DEF Open
  <2> QED BY <1>8, <2>1, <2>2 DEF OneOutcome
<1>14. TakenUpCanEnter'
  BY <1>2, <1>6, <1>8, <1>11 DEF TablesOK, TakenUpCanEnter, row
<1>15. SetupCanBeEntered'
  <2>1. PICK u : u = initializedBy
    OBVIOUS
  <2>2. initializedBy' = u
    BY <1>2, <2>1
  <2>3. u \in Users => Delivered(u)
    BY <1>2, <2>1 DEF TablesOK, SetupCanBeEntered, Delivered
  <2>4. u \in Users => Delivered(u)'
    BY <1>8, <1>9, <2>3, SentStays
  <2> QED BY <2>2, <2>4 DEF SetupCanBeEntered, Delivered
<1>16. TablesOK'
  BY <1>2, <1>8, <1>10, <1>12, <1>13, <1>14, <1>15 DEF TablesOK
<1>17. Sound(next)'
  <2>1. next \in Job
    BY <1>1 DEF Job, LoginJob
  <2>2. UserAt(j.of)' /\ LinkAt(i)' /\ invitation'[i].of = j.of /\ invitation'[i].delivery = "none"
    BY <1>1, <1>2, <1>8 DEF row, UserAt
  <2>3. UserAt(next.of)' /\ LinkAt(next.link)' /\ next.do = "mail" /\ next.of = j.of /\ next.link = i
    BY <2>2, <1>2 DEF UserAt, LinkAt
  <2> HIDE DEF next
  <2> QED BY <2>1, <2>2, <2>3 DEF Sound
<1>18. OwnOrNew(h, next)
  BY <1>3 DEF OwnOrNew
<1>19. job' = [job EXCEPT ![h] = next]
  BY <1>0 DEF CreateLink, GoOn
<1> QED BY <1>9, <1>16, <1>17, <1>18, <1>19 DEF Takes

LEMMA SetupTakes ==
    ASSUME Inv, NEW h \in Handlers, SetupGoesOn(h)
    PROVE  Takes(h)
<1>0. PICK j : j = job[h]
  OBVIOUS
<1>1. j \in Job /\ Sound(j) /\ TablesOK /\ Sound(job[h])
  BY <1>0 DEF Inv
<1>2. ASSUME NEW u \in Users, SignUp(h, u) PROVE Takes(h)
  <2> DEFINE row == [role |-> "CREW", active |-> TRUE, live |-> TRUE, secret |-> "random"]
             next == [do |-> "provision", for |-> j.for, of |-> u, role |-> j.role]
  <2>1. j.for \in Purpose /\ j.role \in Role
    BY <1>0, <1>1, <1>2, JobShapes DEF SignUp, At
  <2>2. row \in UserRow /\ next \in Job
    BY <2>1 DEF UserRow, Role, Secret, Job, LoginJob
  <2>3. ~ UserAt(u)
    <3>1. \E k \in Users : user[k] = None
      BY <1>1, <1>2 DEF SignUp, IsNew, Exists, TablesOK
    <3>2. user[u] = None
      BY <1>1, <1>2, <3>1 DEF SignUp, IsNew, TablesOK
    <3> QED BY <3>2, <1>1, RowsAreThere
  <2>4. PutUser(h, u, row, next)
    BY <1>0, <1>2 DEF SignUp
  <2> HIDE DEF row
  <2>5. TablesOK' /\ RowsStay(h) /\ UserAt(u)'
    BY <2>2, <2>3, <2>4, UserKept
  <2>6. Sound(next)'
    BY <2>2, <2>5 DEF Sound, OnUser, OnLink, Reading, Mailing
  <2> QED BY <2>4, <2>5, <2>6 DEF PutUser, GoOn, Takes, OwnOrNew, Mailing
<1>3. CASE SignUpRefused(h)
  BY <1>3, EndTakes DEF SignUpRefused, Accept, Done
<1>4. CASE Provision(h)
  <2> DEFINE row == [user[j.of] EXCEPT !.role = j.role]
             next == [do |-> "issue", for |-> j.for, of |-> j.of]
  <2>1. j.for \in Purpose /\ j.of \in Users /\ j.role \in Role /\ user[j.of] \in UserRow
    BY <1>0, <1>1, <1>4, JobShapes DEF Provision, At, Sound, OnUser, UserAt
  <2>2. row \in UserRow /\ row.secret = user[j.of].secret
    BY <2>1 DEF UserRow
  <2>3. next \in Job
    BY <2>1 DEF Job, LoginJob
  <2>4. PutUser(h, j.of, row, next)
    BY <1>0, <1>4 DEF Provision
  <2> HIDE DEF row
  <2>5. TablesOK' /\ RowsStay(h) /\ UserAt(j.of)'
    BY <2>1, <2>2, <2>4, UserKept
  <2>6. Sound(next)'
    BY <2>3, <2>5 DEF Sound, OnUser, OnLink, Reading, Mailing, UserAt
  <2> QED BY <2>4, <2>5, <2>6 DEF PutUser, GoOn, Takes, OwnOrNew, Mailing
<1>5. CASE RevokeOpen(h)
  <2> DEFINE next == [do |-> "createLink", for |-> j.for, of |-> j.of, open |-> OpenOf(j.of)]
  <2>1. j.for \in Purpose \cup {"resend"} /\ j.of \in Users /\ UserAt(j.of)
    BY <1>0, <1>1, <1>5, JobShapes DEF RevokeOpen, At, Sound, OnUser
  <2>2. OpenOf(j.of) \subseteq Links /\ \A i \in OpenOf(j.of) : LinkAt(i)
    BY <1>1, RowsAreThere DEF OpenOf, InvitationsOf
  <2>3. next \in Job
    BY <2>1, <2>2 DEF Job, LoginJob
  <2>4. Sound(next) /\ next.do \notin Mailing
    BY <2>1, <2>2, <2>3 DEF Sound, OnUser, OnLink, Reading, Mailing
  <2>5. Accept(h, next)
    BY <1>0, <1>5 DEF RevokeOpen
  <2>6. PICK r : r = next
    OBVIOUS
  <2> QED BY <2>4, <2>5, <2>6, AcceptTakes
<1>6. ASSUME Accept(h, [do |-> "undo", of |-> j.of]), j.do \in OnUser PROVE Takes(h)
  <2>1. j.of \in Users /\ UserAt(j.of)
    BY <1>1, <1>6, NamedExist DEF Sound
  <2>2. Sound([do |-> "undo", of |-> j.of])
    BY <2>1 DEF Sound, Job, LoginJob, OnUser, OnLink, Reading, Mailing
  <2> QED BY <1>6, <2>2, AcceptTakes DEF Mailing
<1>7. CASE CreateLinkRefused(h)
  <2>1. CASE j.for = "resend"
    BY <1>0, <1>7, <2>1, EndTakes DEF CreateLinkRefused
  <2>2. CASE j.for # "resend"
    BY <1>0, <1>6, <1>7, <2>2 DEF CreateLinkRefused, At, OnUser
  <2> QED BY <2>1, <2>2
<1>8. ASSUME NEW answer \in {"sent", "failed"}, Mail(h, answer) PROVE Takes(h)
  <2> DEFINE row == [invitation[j.link] EXCEPT !.mailed = TRUE]
             next == [do |-> "recordDelivery", for |-> j.for, of |-> j.of, link |-> j.link,
                      delivery |-> answer]
  <2>1. /\ j.do = "mail" /\ j.for \in Purpose \cup {"resend"} /\ j.of \in Users /\ j.link \in Links
        /\ UserAt(j.of) /\ invitation[j.link] \in InvitationRow
        /\ invitation[j.link].of = j.of /\ invitation[j.link].delivery = "none"
    BY <1>0, <1>1, <1>8, JobShapes
       DEF Mail, At, Sound, OnUser, OnLink, Reading, Mailing, LinkAt
  <2>2. /\ row \in InvitationRow /\ row.of = j.of
        /\ row.accepted = invitation[j.link].accepted
        /\ row.revoked = invitation[j.link].revoked
        /\ row.delivery = "none"
    BY <2>1 DEF InvitationRow
  <2>3. /\ ~ (row.accepted /\ row.revoked)
        /\ row.accepted => user[row.of].secret # "random"
    BY <1>1, <2>1, <2>2, RowsAreThere DEF TablesOK, OneOutcome, TakenUpCanEnter, LinkAt
  <2>4. PutLink(h, j.link, row, next)
    BY <1>0, <1>8 DEF Mail
  <2> HIDE DEF row
  <2>5. TablesOK' /\ RowsStay(h) /\ LinkAt(j.link)' /\ invitation'[j.link] = row
    BY <2>1, <2>2, <2>3, <2>4, LinkKept DEF LinkAt, Open
  <2>6. next \in Job
    BY <2>1 DEF Job, LoginJob
  <2>7. UserAt(j.of)'
    BY <2>1, <2>5 DEF RowsStay
  <2>8. Sound(next)'
    BY <2>1, <2>2, <2>5, <2>6, <2>7 DEF Sound, OnUser, OnLink, Reading, Mailing
  <2>9. OwnOrNew(h, next)
    BY <1>0, <2>1 DEF OwnOrNew, Mailing
  <2> QED BY <2>4, <2>5, <2>8, <2>9 DEF PutLink, GoOn, Takes
<1>9. CASE RecordDelivery(h)
  <2> DEFINE row == [invitation[j.link] EXCEPT !.delivery = j.delivery]
             next == IF j.for = "setup" THEN [do |-> "checkDelivered", of |-> j.of] ELSE Idle
  <2>1. /\ j.do = "recordDelivery" /\ j.of \in Users /\ j.link \in Links
        /\ j.delivery \in {"sent", "failed"}
        /\ UserAt(j.of) /\ invitation[j.link] \in InvitationRow /\ invitation[j.link].of = j.of
    BY <1>0, <1>1, <1>9, JobShapes
       DEF RecordDelivery, At, Sound, OnUser, OnLink, Reading, Mailing, LinkAt
  <2>2. /\ row \in InvitationRow /\ row.of = j.of
        /\ row.accepted = invitation[j.link].accepted
        /\ row.revoked = invitation[j.link].revoked
    BY <2>1 DEF InvitationRow
  <2>3. /\ ~ (row.accepted /\ row.revoked)
        /\ row.accepted => user[row.of].secret # "random"
    BY <1>1, <2>1, <2>2, RowsAreThere DEF TablesOK, OneOutcome, TakenUpCanEnter, LinkAt
  <2>4. PutLink(h, j.link, row, next)
    BY <1>0, <1>9 DEF RecordDelivery
  <2>5. At(h, "recordDelivery") /\ j.link = job[h].link
    BY <1>0, <1>9 DEF RecordDelivery
  <2> HIDE DEF row
  <2>6. TablesOK' /\ RowsStay(h)
    BY <2>1, <2>2, <2>3, <2>4, <2>5, LinkKept DEF LinkAt, Open
  <2>7. UserAt(j.of)'
    BY <2>1, <2>6 DEF RowsStay
  <2>8. [do |-> "checkDelivered", of |-> j.of] \in Job
    BY <2>1 DEF Job, LoginJob
  <2>9. Sound([do |-> "checkDelivered", of |-> j.of])'
    BY <2>7, <2>8 DEF Sound, OnUser, OnLink, Reading, Mailing, UserAt
  <2>10. Sound(next)' /\ OwnOrNew(h, next)
    BY <2>9, RestingIsSound DEF OwnOrNew, Mailing, Idle
  <2> QED BY <2>4, <2>6, <2>10 DEF PutLink, GoOn, Takes
<1>10. CASE CheckDelivered(h)
  <2>1. j.do = "checkDelivered" /\ j.of \in Users /\ UserAt(j.of)
    BY <1>0, <1>1, <1>10, JobShapes DEF CheckDelivered, At, Sound, OnUser
  <2>2. ASSUME Delivered(j.of) PROVE Sound([do |-> "claim", of |-> j.of])
    BY <2>1, <2>2 DEF Sound, Job, LoginJob, OnUser, OnLink, Reading, Mailing
  <2>3. CASE Delivered(j.of)
    BY <1>0, <1>10, <2>2, <2>3, AcceptTakes DEF CheckDelivered, Mailing
  <2>4. CASE ~ Delivered(j.of)
    BY <1>0, <1>6, <1>10, <2>1, <2>4 DEF CheckDelivered, OnUser
  <2> QED BY <2>3, <2>4
<1>11. CASE Claim(h)
  <2>1. j.of \in Users /\ Delivered(j.of)
    BY <1>0, <1>1, <1>11, JobShapes DEF Claim, At, Sound
  <2>2. initializedBy' = j.of /\ UNCHANGED <<user, invitation, session>> /\ job' = [job EXCEPT ![h] = Idle]
    BY <1>0, <1>11 DEF Claim, Done, GoOn
  <2>3. SetupCanBeEntered'
    BY <2>1, <2>2 DEF SetupCanBeEntered, Delivered, InvitationsOf, Exists
  <2>4. /\ SingleOpen' /\ OneOutcome' /\ TakenUpCanEnter'
        /\ \A i \in Links : LinkAt(i)' => UserAt(invitation[i].of)'
    BY <1>1, <2>2 DEF TablesOK, SingleOpen, OpenOf, InvitationsOf, Open, Exists, OneOutcome,
                      TakenUpCanEnter, LinkAt, UserAt
  <2>5. TablesOK'
    BY <1>1, <2>1, <2>2, <2>3, <2>4 DEF TablesOK
  <2>6. RowsStay(h)
    BY <2>2 DEF RowsStay, LinkAt, UserAt
  <2> QED BY <2>2, <2>5, <2>6, RestingIsSound DEF Takes, OwnOrNew, Mailing, Idle
<1>12. CASE LoseClaim(h)
  BY <1>0, <1>6, <1>12 DEF LoseClaim, At, OnUser
<1>13. ASSUME NEW row, row = [user[j.of] EXCEPT !.live = FALSE], PutUser(h, j.of, row, Idle),
              j.do \in OnUser
       PROVE  Takes(h)
  <2>1. j.of \in Users /\ user[j.of] \in UserRow
    BY <1>1, <1>13, NamedExist DEF Sound, UserAt
  <2>2. row \in UserRow /\ row.secret = user[j.of].secret
    BY <1>13, <2>1 DEF UserRow
  <2>3. TablesOK' /\ RowsStay(h)
    BY <1>13, <2>1, <2>2, UserKept
  <2> QED BY <1>13, <2>3, RestingIsSound DEF PutUser, GoOn, Takes, OwnOrNew, Mailing, Idle
<1>14. CASE Undo(h)
  BY <1>0, <1>13, <1>14 DEF Undo, At, OnUser
<1>15. CASE FindLogin(h)
  <2> DEFINE next == [do |-> "revokeOpen", for |-> j.for, of |-> j.of]
  <2>1. j.do = "issue" /\ j.for \in Purpose /\ j.of \in Users /\ UserAt(j.of)
    BY <1>0, <1>1, <1>15, JobShapes DEF FindLogin, At, Sound, OnUser
  <2>2. Sound(next) /\ next.do \notin Mailing
    BY <2>1 DEF Sound, Job, LoginJob, OnUser, OnLink, Reading, Mailing
  <2>3. CASE j.of \in Live(user)
    <3>1. Accept(h, next)
      BY <1>0, <1>15, <2>3 DEF FindLogin
    <3> QED BY <2>2, <3>1, AcceptTakes
  <2>4. CASE j.of \notin Live(user)
    BY <1>0, <1>6, <1>15, <2>1, <2>4 DEF FindLogin, OnUser
  <2> QED BY <2>3, <2>4
<1>16. CASE ClaimFails(h)
  <2> DEFINE next == [do |-> "undo", of |-> j.of]
  <2>1. j.of \in Users /\ Delivered(j.of) /\ UserAt(j.of)
    BY <1>0, <1>1, <1>16, JobShapes DEF ClaimFails, At, Sound, OnUser
  <2>2. /\ initializedBy' \in {initializedBy, j.of}
        /\ UNCHANGED <<user, invitation, session>> /\ job' = [job EXCEPT ![h] = next]
    BY <1>0, <1>16 DEF ClaimFails, GoOn
  <2>3. SetupCanBeEntered'
    BY <1>1, <2>1, <2>2 DEF TablesOK, SetupCanBeEntered, Delivered, InvitationsOf, Exists
  <2>4. /\ SingleOpen' /\ OneOutcome' /\ TakenUpCanEnter'
        /\ \A i \in Links : LinkAt(i)' => UserAt(invitation[i].of)'
    BY <1>1, <2>2 DEF TablesOK, SingleOpen, OpenOf, InvitationsOf, Open, Exists, OneOutcome,
                      TakenUpCanEnter, LinkAt, UserAt
  <2>5. TablesOK'
    BY <1>1, <2>1, <2>2, <2>3, <2>4 DEF TablesOK
  <2>6. RowsStay(h)
    BY <2>2 DEF RowsStay, LinkAt, UserAt
  <2>7. Sound(next)'
    BY <2>1, <2>2 DEF Sound, Job, LoginJob, OnUser, OnLink, Reading, Mailing, UserAt
  <2> QED BY <2>2, <2>5, <2>6, <2>7 DEF Takes, OwnOrNew, Mailing
<1> QED
  BY <1>2, <1>3, <1>4, <1>5, <1>7, <1>8, <1>9, <1>10, <1>11, <1>12, <1>14, <1>15, <1>16,
     CreateLinkTakes
     DEF SetupGoesOn

-----------------------------------------------------------------------------
(* Links taken up and withdrawn, sessions, logins removed. *)

LEMMA LoginTakes ==
    ASSUME Inv, NEW h \in Handlers, LoginGoesOn(h)
    PROVE  Takes(h)
<1>0. PICK j : j = job[h]
  OBVIOUS
<1>1. j \in Job /\ Sound(j) /\ TablesOK
  BY <1>0 DEF Inv
<1>2. CASE SetPassword(h)
  <2> DEFINE row == [user[j.of] EXCEPT !.secret = "chosen"]
             next == [do |-> "markAccepted", of |-> j.of, link |-> j.link]
  <2>1. /\ j.of \in Users /\ j.link \in Links /\ user[j.of] \in UserRow /\ LinkAt(j.link)
        /\ invitation[j.link].of = j.of
    BY <1>0, <1>1, <1>2, JobShapes DEF SetPassword, At, Sound, OnUser, OnLink, Reading, UserAt
  <2>2. row \in UserRow /\ row.secret = "chosen"
    BY <2>1 DEF UserRow, Secret
  <2>3. PutUser(h, j.of, row, next)
    BY <1>0, <1>2 DEF SetPassword
  <2> HIDE DEF row
  <2>4. TablesOK' /\ RowsStay(h) /\ UserAt(j.of)' /\ user'[j.of] = row
    BY <2>1, <2>2, <2>3, UserKept
  <2>5. LinkAt(j.link)' /\ invitation'[j.link].of = j.of
    BY <2>1, <2>4 DEF RowsStay
  <2>6. next \in Job
    BY <2>1 DEF Job, LoginJob
  <2>7. Sound(next)'
    BY <2>2, <2>4, <2>5, <2>6 DEF Sound, OnUser, OnLink, Reading, Mailing
  <2> QED BY <2>3, <2>4, <2>7 DEF PutUser, GoOn, Takes, OwnOrNew, Mailing
<1>3. ASSUME j.do \in {"markAccepted", "revoke"}
      PROVE  j.link \in Links /\ invitation[j.link] \in InvitationRow
  BY <1>1, <1>3, JobShapes DEF Sound, OnLink, LinkAt
<1>4. CASE MarkAccepted(h)
  <2> DEFINE row == [invitation[j.link] EXCEPT !.accepted = TRUE]
  <2>1. /\ j.link \in Links /\ invitation[j.link] \in InvitationRow
        /\ invitation[j.link].of = j.of /\ user[j.of].secret = "chosen"
        /\ ~ invitation[j.link].revoked
    BY <1>0, <1>1, <1>3, <1>4 DEF MarkAccepted, MayBeAccepted, At, Sound, Reading
  <2>2. /\ row \in InvitationRow /\ row.of = j.of /\ row.accepted /\ ~ row.revoked
        /\ row.delivery = invitation[j.link].delivery
    BY <2>1 DEF InvitationRow
  <2>3. PutLink(h, j.link, row, Idle)
    BY <1>0, <1>4 DEF MarkAccepted
  <2> HIDE DEF row
  <2>4. TablesOK' /\ RowsStay(h)
    BY <2>1, <2>2, <2>3, LinkKept DEF LinkAt
  <2> QED BY <2>3, <2>4, RestingIsSound DEF PutLink, GoOn, Takes, OwnOrNew, Mailing, Idle
<1>5. CASE Revoke(h)
  <2> DEFINE row == [invitation[j.link] EXCEPT !.revoked = TRUE]
  <2>1. j.link \in Links /\ invitation[j.link] \in InvitationRow /\ ~ invitation[j.link].accepted
    BY <1>0, <1>3, <1>5 DEF Revoke, At
  <2>2. /\ row \in InvitationRow /\ row.of = invitation[j.link].of
        /\ ~ row.accepted /\ row.revoked
        /\ row.delivery = invitation[j.link].delivery
    BY <2>1 DEF InvitationRow
  <2>3. PutLink(h, j.link, row, Idle)
    BY <1>0, <1>5 DEF Revoke
  <2> HIDE DEF row
  <2>4. TablesOK' /\ RowsStay(h)
    BY <2>1, <2>2, <2>3, LinkKept DEF LinkAt
  <2> QED BY <2>3, <2>4, RestingIsSound DEF PutLink, GoOn, Takes, OwnOrNew, Mailing, Idle
<1>6. CASE MarkRefused(h) \/ RevokeRefused(h) \/ SignInRefused(h)
  BY <1>6, EndTakes DEF MarkRefused, RevokeRefused, SignInRefused, Accept, Done
<1>7. CASE OpenSession(h)
  <2>1. j.of \in Users
    BY <1>0, <1>1, <1>7, JobShapes DEF OpenSession, At
  <2>2. /\ session' = session \cup {j.of} /\ UNCHANGED <<user, invitation, initializedBy>>
        /\ job' = [job EXCEPT ![h] = Idle]
    BY <1>0, <1>7 DEF OpenSession, Done, GoOn
  <2>3. session' \subseteq Users
    BY <1>1, <2>1, <2>2 DEF TablesOK
  <2>4. /\ SingleOpen' /\ OneOutcome' /\ TakenUpCanEnter' /\ SetupCanBeEntered'
        /\ \A i \in Links : LinkAt(i)' => UserAt(invitation[i].of)'
    BY <1>1, <2>2 DEF TablesOK, SingleOpen, OpenOf, InvitationsOf, Open, Exists, OneOutcome,
                      TakenUpCanEnter, SetupCanBeEntered, LinkAt, UserAt
  <2>5. TablesOK'
    BY <1>1, <2>2, <2>3, <2>4 DEF TablesOK
  <2>6. RowsStay(h)
    BY <2>2 DEF RowsStay, LinkAt, UserAt
  <2> QED BY <2>2, <2>5, <2>6, RestingIsSound DEF Takes, OwnOrNew, Mailing, Idle
<1>8. ASSUME NEW row, PutUser(h, j.of, row, Idle), j.do \in OnUser,
             \/ row = [user[j.of] EXCEPT !.live = FALSE]
             \/ row = [user[j.of] EXCEPT !.active = FALSE]
      PROVE  Takes(h)
  <2>1. j.of \in Users /\ user[j.of] \in UserRow
    BY <1>1, <1>8, NamedExist DEF Sound, UserAt
  <2>2. row \in UserRow /\ row.secret = user[j.of].secret
    BY <1>8, <2>1 DEF UserRow
  <2>3. TablesOK' /\ RowsStay(h)
    BY <1>8, <2>1, <2>2, UserKept
  <2> QED BY <1>8, <2>3, RestingIsSound DEF PutUser, GoOn, Takes, OwnOrNew, Mailing, Idle
<1>9. CASE Deactivate(h) \/ SoftDelete(h)
  BY <1>0, <1>8, <1>9 DEF Deactivate, SoftDelete, At, OnUser
<1> QED
  BY <1>2, <1>4, <1>5, <1>6, <1>7, <1>9, SetupTakes DEF LoginGoesOn

LEMMA CalledTakes ==
    ASSUME Inv, NEW h \in Handlers, LoginCalled(h)
    PROVE  Takes(h)
<1>1. TablesOK
  BY DEF Inv
<1>2. /\ \A u \in Live(user) : u \in Users /\ UserAt(u)
      /\ \A i \in Exists(invitation) :
            i \in Links /\ LinkAt(i) /\ UserAt(invitation[i].of) /\ invitation[i].of \in Users
  BY <1>1, RowsAreThere DEF Live, TablesOK, LinkAt, InvitationRow
<1>3. ASSUME NEW for \in Purpose, NEW role \in Role,
             Accept(h, [do |-> "signUp", for |-> for, role |-> role])
      PROVE  Takes(h)
  <2>1. Sound([do |-> "signUp", for |-> for, role |-> role])
    BY DEF Sound, Job, LoginJob, OnUser, OnLink, Reading, Mailing
  <2> QED BY <1>3, <2>1, AcceptTakes DEF Mailing
<1>4. ASSUME NEW i \in Links, LoadAccept(h, i) PROVE Takes(h)
  <2> DEFINE u == invitation[i].of
  <2>1. i \in Exists(invitation)
    BY <1>4 DEF LoadAccept
  <2>2. Sound([do |-> "setPassword", of |-> invitation[i].of, link |-> i])
    BY <1>2, <2>1 DEF Sound, Job, LoginJob, OnUser, OnLink, Reading, Mailing
  <2> QED BY <1>4, <2>2, AcceptTakes DEF LoadAccept, Mailing
<1>5. ASSUME NEW i \in Links, LoadRevoke(h, i) PROVE Takes(h)
  <2>1. LinkAt(i)
    BY <1>2, <1>5 DEF LoadRevoke
  <2>2. Sound([do |-> "revoke", link |-> i])
    BY <2>1 DEF Sound, Job, LoginJob, OnUser, OnLink, Reading, Mailing
  <2> QED BY <1>5, <2>2, AcceptTakes DEF LoadRevoke, Mailing
<1>6. ASSUME NEW u \in Users, LoadResend(h, u) PROVE Takes(h)
  <2>1. UserAt(u)
    BY <1>2, <1>6 DEF LoadResend
  <2>2. Sound([do |-> "revokeOpen", for |-> "resend", of |-> u])
    BY <2>1 DEF Sound, Job, LoginJob, OnUser, OnLink, Reading, Mailing
  <2> QED BY <1>6, <2>2, AcceptTakes DEF LoadResend, Mailing
<1>7. ASSUME NEW u \in Users, LoadSignIn(h, u) PROVE Takes(h)
  <2>1. Sound([do |-> "openSession", of |-> u])
    BY DEF Sound, Job, LoginJob, OnUser, OnLink, Reading, Mailing
  <2> QED BY <1>7, <2>1, AcceptTakes DEF LoadSignIn, Mailing
<1>8. ASSUME NEW u \in Users, NEW a \in Users, LoadRemoveUser(h, a, u) PROVE Takes(h)
  <2>1. UserAt(u)
    BY <1>2, <1>8 DEF LoadRemoveUser
  <2>2. ASSUME NEW op \in {"deactivate", "softDelete"} PROVE Sound([do |-> op, of |-> u])
    BY <2>1 DEF Sound, Job, LoginJob, OnUser, OnLink, Reading, Mailing
  <2> QED BY <1>8, <2>2, AcceptTakes DEF LoadRemoveUser, Mailing
<1>9. CASE LoadInitialize(h) \/ \E role \in Role : LoadCreateUser(h, role)
  BY <1>3, <1>9 DEF LoadInitialize, LoadCreateUser, Purpose, Role
<1> QED BY <1>4, <1>5, <1>6, <1>7, <1>8, <1>9 DEF LoginCalled

-----------------------------------------------------------------------------
(* The induction. *)

LEMMA Starts == Init => Inv
<1> SUFFICES ASSUME Init PROVE Inv
  OBVIOUS
<1>1. /\ user \in [Users -> UserRow \cup {None}]
      /\ initializedBy \in {None, "migration"}
  <2>1. CASE Fresh
    BY <2>1 DEF Fresh
  <2>2. CASE SetUpEarlier
    <3> DEFINE row == [role |-> "ADMINISTRATOR", active |-> TRUE, live |-> TRUE, secret |-> "chosen"]
    <3>1. row \in UserRow
      BY DEF UserRow, Role, Secret
    <3>2. user = [u \in Users |-> IF u = FirstUser THEN row ELSE None]
      BY <2>2 DEF SetUpEarlier
    <3> HIDE DEF row
    <3>3. user \in [Users -> UserRow \cup {None}]
      BY <3>1, <3>2
    <3> QED BY <2>2, <3>3 DEF SetUpEarlier
  <2> QED BY <2>1, <2>2 DEF Init
<1>2. invitation = [i \in Links |-> None] /\ session = {} /\ job = [h \in Handlers |-> Idle]
  BY DEF Init
<1>3. Exists(invitation) = {} /\ \A i \in Links : ~ LinkAt(i)
  BY <1>2, NoneIsNoRow DEF Exists, LinkAt
<1>4. SingleOpen /\ OneOutcome /\ TakenUpCanEnter
  BY <1>3 DEF SingleOpen, OpenOf, InvitationsOf, OneOutcome, TakenUpCanEnter
<1>5. SetupCanBeEntered
  BY <1>1, NoneIsNoRow, MigrationIsNobody DEF SetupCanBeEntered
<1>6. TablesOK
  BY <1>1, <1>2, <1>3, <1>4, <1>5 DEF TablesOK
<1>7. OwnLinks
  BY <1>2 DEF OwnLinks, Idle, Mailing
<1> QED BY <1>2, <1>6, <1>7, RestingIsSound DEF Inv, Job

LEMMA Steps == Inv /\ [Next]_vars => Inv'
<1> SUFFICES ASSUME Inv, [Next]_vars PROVE Inv'
  OBVIOUS
<1>1. ASSUME NEW h \in Handlers, LoginGoesOn(h) \/ LoginCalled(h) \/ Crash(h) PROVE Inv'
  BY <1>1, LoginTakes, CalledTakes, EndTakes, TakesKeepsInv DEF Crash, Accept
<1>2. CASE UNCHANGED vars
  BY <1>2 DEF vars, tables, Inv, TablesOK, SingleOpen, OpenOf, InvitationsOf, Open, Exists,
              OneOutcome, TakenUpCanEnter, SetupCanBeEntered, LinkAt, UserAt, OwnLinks, Sound,
              Delivered
<1> QED BY <1>1, <1>2 DEF Next

LEMMA InvHolds == Spec => []Inv
  BY Starts, Steps, PTL DEF Spec

\* A set no two of whose members differ has one at most.
LEMMA AtMostOne ==
    ASSUME NEW S, \A x, y \in S : x = y
    PROVE  Cardinality(S) <= 1
<1>1. CASE S = {}
  BY <1>1, FS_EmptySet
<1>2. CASE S # {}
  <2>1. PICK x : x \in S
    BY <1>2
  <2>2. S = {x}
    BY <2>1
  <2> QED BY <2>2, FS_Singleton
<1> QED BY <1>1, <1>2

-----------------------------------------------------------------------------
(* The theorems. *)

\* However many requests overlap, a link was taken up or withdrawn, never both, and
\* a login has one open link at most (staff_invitation_outcome_exclusive,
\* staff_invitation_pending_user_live_key, issue).
THEOREM LinksAlwaysStand == Spec => []LinksStand
<1>1. ASSUME Inv PROVE LinksStand
  <2>1. TypeOK
    BY <1>1, RowsAreThere DEF Inv, TablesOK, TypeOK, LinkAt, InvitationRow
  <2>2. OneOpenLink
    BY <1>1, AtMostOne DEF Inv, TablesOK, SingleOpen, OneOpenLink
  <2> QED BY <1>1, <2>1, <2>2 DEF Inv, TablesOK, LinksStand
<1> QED BY <1>1, InvHolds, PTL

\* However many requests overlap or die, a system that was set up invited its
\* administrator, and whoever took up a link has a password
\* (assertTheInviteWasDelivered, accept).
THEOREM NobodyIsLockedOut == Spec => []NobodyLockedOut
<1>1. Inv => NobodyLockedOut
  BY DEF Inv, TablesOK, NobodyLockedOut
<1> QED BY <1>1, InvHolds, PTL

\* However many setups race, the stamp is written once (claimInitialization).
THEOREM SetUpOnce == Spec => ClaimedOnce
<1>1. ASSUME NEW h \in Handlers, LoginGoesOn(h) \/ LoginCalled(h) \/ Crash(h) PROVE StampStays
  <2>1. CASE SetupGoesOn(h)
    BY <2>1 DEF SetupGoesOn, SignUp, SignUpRefused, Provision, FindLogin, RevokeOpen,
           CreateLink, CreateLinkRefused, Mail, RecordDelivery, CheckDelivered, Claim, LoseClaim,
           ClaimFails, Undo, PutUser, PutLink, Accept, tables, StampStays
  <2>2. CASE LoginGoesOn(h) /\ ~ SetupGoesOn(h)
    BY <2>2 DEF LoginGoesOn, SetPassword, MarkAccepted, MarkRefused, Revoke, RevokeRefused,
           OpenSession, SignInRefused, Deactivate, SoftDelete, PutUser, PutLink, tables, StampStays
  <2>3. CASE LoginCalled(h) \/ Crash(h)
    BY <2>3 DEF LoginCalled, LoadInitialize, LoadCreateUser, LoadAccept, LoadRevoke, LoadResend,
           LoadSignIn, LoadRemoveUser, Accept, Crash, tables, StampStays
  <2> QED BY <1>1, <2>1, <2>2, <2>3
<1>2. [Next]_vars => [StampStays]_vars
  BY <1>1 DEF Next
<1> QED BY <1>2, PTL DEF Spec, ClaimedOnce
=============================================================================

------------------------- MODULE TripLifecycleProofs ------------------------
(***************************************************************************)
(* What TripLifecycle keeps true of a trip's accounts for any number of    *)
(* requests in flight and any number of accounts, by induction over its    *)
(* steps.  The shape is that of TripCashProofs: Sound says what the next   *)
(* statement of a handler rests on, RowsStay that no step takes it away,   *)
(* and Takes(h) what a step of h does.                                     *)
(*                                                                         *)
(* NumberedOnce needs one fact about handlers: whoever carries number n    *)
(* has read that every smaller number is taken.  The unique index does the *)
(* rest, because numbers are never given back.                             *)
(***************************************************************************)
EXTENDS TripLifecycle, TLAPS

TablesOK ==
    /\ trip \in Trip
    /\ account \in [Accounts -> Account \cup {None}]
    /\ commission \in Commission \cup {None}

\* Every number up to n is the number of an account.
TakenUpTo(n) == \A m \in 1 .. n : \E a \in Rows : account[a].sequence = m

Sound(j) ==
    /\ j \in Job
    /\ j.op \in {"setCustodian", "removeAccount"} => j.acct \in Rows
    /\ j.op \in {"assignCrew", "transition"} => j.seq = 0
    /\ j.op = "transition" => j.to \in Status
    /\ j.op = "open.insert" => j.seq # 0
    /\ j.op \in {"open.insert", "crew.commit", "deliver.commit"} => TakenUpTo(j.seq - 1)

RowsStay == \A a \in Rows : a \in Rows' /\ account'[a].sequence = account[a].sequence

Numbered == TablesOK /\ NumberedOnce /\ OneUnnamed

Takes(h) == Numbered' /\ RowsStay /\ \E j : Sound(j) /\ GoOn(h, j)

Inv == TypeOK /\ NumberedOnce /\ OneUnnamed /\ \A h \in Handlers : Sound(job[h])

-----------------------------------------------------------------------------
(* Handlers. *)

LEMMA NobodyIsNone == Staff \subseteq Person /\ None \in Person
  BY DEF Person

LEMMA IdleIsSound == Sound(Idle)
  BY NobodyIsNone DEF Sound, Idle, Op, Job

LEMMA SoundStays ==
    ASSUME NEW j, Sound(j), RowsStay
    PROVE  Sound(j)'
<1>1. ASSUME NEW n, TakenUpTo(n) PROVE TakenUpTo(n)'
  BY <1>1 DEF TakenUpTo, RowsStay
<1> QED BY <1>1 DEF Sound, RowsStay

\* Whoever reads the latest number knows that all numbers up to it are taken.
LEMMA LatestIsTaken ==
    ASSUME TablesOK, NumberedOnce, NEW n \in Latest
    PROVE  n \in Nat /\ TakenUpTo(n)
<1>1. CASE Rows = {}
  BY <1>1 DEF Latest, TakenUpTo
<1>2. CASE Rows # {}
  <2>1. PICK a \in Rows : n = account[a].sequence
    BY <1>2 DEF Latest
  <2>2. account[a] \in Account
    BY <2>1 DEF TablesOK, Rows
  <2> QED BY <2>1, <2>2 DEF NumberedOnce, TakenUpTo, Account
<1> QED BY <1>1, <1>2

LEMMA NumberIsSound ==
    ASSUME TablesOK, NumberedOnce, NEW h \in Handlers, Sound(job[h]),
           NEW op \in {"open.insert", "crew.commit", "deliver.commit"}, NextSequence(h, op)
    PROVE  \E j : Sound(j) /\ GoOn(h, j)
<1>1. PICK n \in Latest : GoOn(h, [job[h] EXCEPT !.op = op, !.seq = n + 1])
  BY DEF NextSequence
<1> DEFINE j == [job[h] EXCEPT !.op = op, !.seq = n + 1]
<1>2. n \in Nat /\ TakenUpTo(n)
  BY LatestIsTaken
<1>3. j \in Job /\ j.op = op /\ j.seq = n + 1
  <2>1. job[h] \in Job /\ op \in Op /\ n + 1 \in Nat
    BY <1>2 DEF Sound, Op
  <2> QED BY <2>1 DEF Job
<1>4. j.seq # 0 /\ j.seq - 1 = n
  BY <1>2, <1>3
<1>5. Sound(j)
  <2> HIDE DEF j
  <2> QED BY <1>2, <1>3, <1>4 DEF Sound
<1> QED BY <1>1, <1>5

-----------------------------------------------------------------------------
(* What an action may do to the accounts. *)

LEMMA Untouched ==
    ASSUME NumberedOnce, OneUnnamed, UNCHANGED account
    PROVE  NumberedOnce' /\ OneUnnamed' /\ RowsStay
  BY DEF NumberedOnce, OneUnnamed, RowsStay, Rows, Live, Unnamed

\* A row is rewritten under its number, and bears its custodian.
LEMMA Rewritten ==
    ASSUME TablesOK, NumberedOnce, OneUnnamed,
           NEW a \in Rows, NEW r \in Account, r.sequence = account[a].sequence,
           r.live /\ r.custodian = None => MayBear(Live \ {a}, None),
           account' = [account EXCEPT ![a] = r]
    PROVE  /\ account' \in [Accounts -> Account \cup {None}]
           /\ NumberedOnce' /\ OneUnnamed' /\ RowsStay
<1>1. /\ Rows \subseteq Accounts
      /\ account'[a] = r
      /\ \A b \in Accounts : b # a => account'[b] = account[b]
  BY DEF TablesOK, Rows
<1>2. Rows' = Rows
  BY <1>1, NoneIsNoAccount DEF Rows
<1>3. RowsStay
  BY <1>1, <1>2 DEF RowsStay
<1>4. NumberedOnce'
  <2>1. \A b \in Rows : account'[b].sequence = account[b].sequence
    BY <1>3 DEF RowsStay
  <2> QED BY <1>2, <2>1 DEF NumberedOnce
<1>5. OneUnnamed'
  <2>1. \A b \in Live' : b # a => b \in Live \ {a} /\ (Unnamed(b)' => Unnamed(b))
    BY <1>1, <1>2 DEF Live, Unnamed
  <2>2. a \in Live' /\ Unnamed(a)' => \A b \in Live \ {a} : ~ Unnamed(b)
    BY <1>1 DEF Live, Unnamed, MayBear
  <2> QED BY <2>1, <2>2 DEF OneUnnamed
<1>6. account' \in [Accounts -> Account \cup {None}]
  BY <1>1 DEF TablesOK
<1> QED BY <1>3, <1>4, <1>5, <1>6

\* A row is inserted by someone whose number follows numbers that are taken.
LEMMA Inserted ==
    ASSUME TablesOK, NumberedOnce, OneUnnamed,
           NEW n \in Nat \ {0}, NEW c \in Person,
           TakenUpTo(n - 1), MayInsert(n, c), Insert(n, c)
    PROVE  /\ account' \in [Accounts -> Account \cup {None}]
           /\ NumberedOnce' /\ OneUnnamed' /\ RowsStay
<1>1. PICK a \in Accounts \ Rows : account' = [account EXCEPT ![a] = NewAccount(n, c)]
  BY DEF Insert
<1>2. NewAccount(n, c) \in Account
  BY DEF NewAccount, Account
<1>3. /\ account'[a] = NewAccount(n, c)
      /\ \A b \in Accounts : b # a => account'[b] = account[b]
  BY <1>1 DEF TablesOK
<1>4. Rows' = Rows \cup {a}
  BY <1>1, <1>2, <1>3, NoneIsNoAccount DEF Rows
<1>5. RowsStay /\ a \notin Rows
  BY <1>1, <1>3, <1>4 DEF RowsStay, Rows
<1>6. account'[a].sequence = n
  BY <1>3 DEF NewAccount
<1>7. NumberedOnce'
  <2>1. \A b \in Rows : account'[b].sequence = account[b].sequence /\ account[b].sequence # n
    BY <1>5 DEF RowsStay, MayInsert, NumberFree
  <2>2. \A m \in 1 .. n : \E b \in Rows' : account'[b].sequence = m
    <3> SUFFICES ASSUME NEW m \in 1 .. n
                 PROVE  \E b \in Rows' : account'[b].sequence = m
      OBVIOUS
    <3>1. CASE m = n
      BY <3>1, <1>4, <1>6
    <3>2. CASE m # n
      <4>1. m \in 1 .. (n - 1)
        BY <3>2
      <4> QED BY <4>1, <1>4, <2>1 DEF TakenUpTo
    <3> QED BY <3>1, <3>2
  <2>3. \A b \in Rows : \A m \in 1 .. account'[b].sequence :
            \E e \in Rows' : account'[e].sequence = m
    BY <1>4, <2>1 DEF NumberedOnce
  <2>4. \A b, e \in Rows' : account'[b].sequence = account'[e].sequence => b = e
    BY <1>4, <1>6, <2>1 DEF NumberedOnce
  <2> QED BY <1>4, <1>6, <2>2, <2>3, <2>4 DEF NumberedOnce
<1>8. OneUnnamed'
  <2>1. \A b \in Live' : b # a => b \in Live /\ (Unnamed(b)' => Unnamed(b))
    BY <1>3, <1>4 DEF Live, Unnamed, Rows
  <2>2. Unnamed(a)' => \A b \in Live : ~ Unnamed(b)
    BY <1>3 DEF NewAccount, Unnamed, MayInsert, MayBear
  <2> QED BY <2>1, <2>2 DEF OneUnnamed
<1>9. account' \in [Accounts -> Account \cup {None}]
  BY <1>2, <1>1 DEF TablesOK
<1> QED BY <1>5, <1>7, <1>8, <1>9

-----------------------------------------------------------------------------
(* The steps, handler by handler. *)

\* A handler that stops has nothing left to carry.
LEMMA StopsSoundly ==
    ASSUME NEW h, Return(h)
    PROVE  \E j : Sound(j) /\ GoOn(h, j)
  BY IdleIsSound DEF Return

\* A first step that only reads: the handler carries what it was asked for.
LEMMA BeginsSoundly ==
    ASSUME NEW j \in Job, j.seq = 0, j.op \notin {"open.insert", "crew.commit", "deliver.commit"},
           j.op \in {"setCustodian", "removeAccount"} => j.acct \in Rows,
           j.op = "transition" => j.to \in Status
    PROVE  Sound(j)
  BY DEF Sound

LEMMA Reads ==
    ASSUME Numbered, NEW h, UNCHANGED tables, NEW j, Sound(j), GoOn(h, j)
    PROVE  Takes(h)
  BY Untouched DEF Numbered, Takes, TablesOK, tables

LEMMA OpenTakes ==
    ASSUME Numbered, NEW h \in Handlers, Sound(job[h]),
           \/ \E c \in Staff : LoadOpen(h, c)
           \/ NumberOpen(h) \/ InsertOpen(h) \/ RetryOpen(h)
    PROVE  Takes(h)
<1>1. ASSUME NEW c \in Staff, LoadOpen(h, c) PROVE Takes(h)
  <2> DEFINE j == [Idle EXCEPT !.op = "open", !.who = c]
  <2>1. j \in Job /\ j.op = "open" /\ j.seq = 0
    BY NobodyIsNone DEF Idle, Job, Op
  <2>2. Sound(j)
    BY <2>1, BeginsSoundly
  <2> QED BY <1>1, <2>2, Reads DEF LoadOpen
<1>2. CASE NumberOpen(h)
  <2>1. PICK j : Sound(j) /\ GoOn(h, j)
    BY <1>2, NumberIsSound DEF NumberOpen, Numbered
  <2> QED BY <1>2, <2>1, Reads DEF NumberOpen
<1>3. CASE InsertOpen(h)
  <2>1. job[h].seq \in Nat \ {0} /\ job[h].who \in Person /\ TakenUpTo(job[h].seq - 1)
    BY <1>3 DEF InsertOpen, At, Sound, Job
  <2>2. /\ account' \in [Accounts -> Account \cup {None}]
        /\ NumberedOnce' /\ OneUnnamed' /\ RowsStay
    BY <1>3, <2>1, Inserted DEF InsertOpen, Numbered
  <2> QED BY <1>3, <2>2, StopsSoundly DEF InsertOpen, Numbered, TablesOK, Takes
<1>4. CASE RetryOpen(h)
  <2>1. CASE Return(h)
    BY <1>4, <2>1, IdleIsSound, Reads DEF RetryOpen, Return
  <2>2. CASE GoOn(h, [job[h] EXCEPT !.op = "open", !.tries = @ + 1])
    <3> DEFINE j == [job[h] EXCEPT !.op = "open", !.tries = @ + 1]
    <3>1. job[h] \in Job /\ job[h].tries + 1 \in Nat /\ "open" \in Op
      BY DEF Sound, Job, Op
    <3>2. j \in Job /\ j.op = "open"
      BY <3>1 DEF Job
    <3>3. Sound(j)
      <4> HIDE DEF j
      <4> QED BY <3>2 DEF Sound
    <3> QED BY <1>4, <2>2, <3>3, Reads DEF RetryOpen
  <2> QED BY <1>4, <2>1, <2>2 DEF RetryOpen
<1> QED BY <1>1, <1>2, <1>3, <1>4

LEMMA NameTakes ==
    ASSUME Numbered, NEW h \in Handlers, Sound(job[h]),
           \/ \E a \in Accounts, c \in Person : LoadName(h, a, c)
           \/ \E a \in Accounts : LoadRemoveAccount(h, a)
           \/ Name(h) \/ RemoveAccount(h)
    PROVE  Takes(h)
<1>1. ASSUME NEW a \in Accounts, NEW c \in Person, LoadName(h, a, c) PROVE Takes(h)
  <2> DEFINE j == [Idle EXCEPT !.op = "setCustodian", !.acct = a, !.who = c]
  <2>1. a \in Rows
    BY <1>1 DEF LoadName, Open, Live
  <2>2. j \in Job /\ j.op = "setCustodian" /\ j.seq = 0 /\ j.acct = a
    BY NobodyIsNone DEF Idle, Job, Op
  <2>3. Sound(j)
    BY <2>1, <2>2, BeginsSoundly
  <2> QED BY <1>1, <2>3, Reads DEF LoadName
<1>2. ASSUME NEW a \in Accounts, LoadRemoveAccount(h, a) PROVE Takes(h)
  <2> DEFINE j == [Idle EXCEPT !.op = "removeAccount", !.acct = a]
  <2>1. a \in Rows
    BY <1>2 DEF LoadRemoveAccount, Open, Live
  <2>2. j \in Job /\ j.op = "removeAccount" /\ j.seq = 0 /\ j.acct = a
    BY NobodyIsNone DEF Idle, Job, Op
  <2>3. Sound(j)
    BY <2>1, <2>2, BeginsSoundly
  <2> QED BY <1>2, <2>3, Reads DEF LoadRemoveAccount
<1>3. CASE Name(h)
  <2> DEFINE a == job[h].acct
             r == [account[a] EXCEPT !.custodian = job[h].who]
  <2>1. a \in Rows /\ job[h].who \in Person
    BY <1>3 DEF Name, At, Sound, Job
  <2>2. account[a] \in Account
    BY <2>1 DEF Numbered, TablesOK, Rows
  <2>3. /\ r \in Account /\ r.sequence = account[a].sequence
        /\ r.live = account[a].live /\ r.custodian = job[h].who
    BY <2>1, <2>2 DEF Account
  <2>4. account' = [account EXCEPT ![a] = r]
    BY <1>3 DEF Name
  <2>5. r.live /\ r.custodian = None => MayBear(Live \ {a}, None)
    BY <1>3, <2>1, <2>3 DEF Name, Live
  <2>6. /\ account' \in [Accounts -> Account \cup {None}]
        /\ NumberedOnce' /\ OneUnnamed' /\ RowsStay
    <3> HIDE DEF a, r
    <3> QED BY <2>1, <2>3, <2>4, <2>5, Rewritten DEF Numbered
  <2> QED BY <1>3, <2>6, StopsSoundly DEF Name, Numbered, TablesOK, Takes
<1>4. CASE RemoveAccount(h)
  <2> DEFINE a == job[h].acct
             r == [account[a] EXCEPT !.live = FALSE]
  <2>1. a \in Rows
    BY <1>4 DEF RemoveAccount, At, Sound
  <2>2. account[a] \in Account
    BY <2>1 DEF Numbered, TablesOK, Rows
  <2>3. r \in Account /\ r.sequence = account[a].sequence /\ ~ r.live
    BY <2>2 DEF Account
  <2>4. account' = [account EXCEPT ![a] = r]
    BY <1>4 DEF RemoveAccount
  <2>5. /\ account' \in [Accounts -> Account \cup {None}]
        /\ NumberedOnce' /\ OneUnnamed' /\ RowsStay
    <3> HIDE DEF a, r
    <3> QED BY <2>1, <2>3, <2>4, Rewritten DEF Numbered
  <2> QED BY <1>4, <2>5, StopsSoundly DEF RemoveAccount, Numbered, TablesOK, Takes
<1> QED BY <1>1, <1>2, <1>3, <1>4

\* Booking and deciding rewrite one row, under its number and custodian.
LEMMA BookRewrites ==
    ASSUME TablesOK, NEW h \in Handlers, NEW a \in Accounts, Book(h, a) \/ Decide(h, a)
    PROVE  \E r \in Account : /\ account' = [account EXCEPT ![a] = r]
                              /\ r.sequence = account[a].sequence
                              /\ r.live = account[a].live
                              /\ r.custodian = account[a].custodian
<1>1. account[a] \in Account
  BY DEF TablesOK, Book, Decide, Open, Live, Rows
<1>2. CASE Book(h, a)
  <2> DEFINE r == [account[a] EXCEPT !.carries = ~ @]
  <2>1. r \in Account /\ r.sequence = account[a].sequence
        /\ r.live = account[a].live /\ r.custodian = account[a].custodian
    BY <1>1 DEF Account
  <2> QED BY <1>2, <2>1 DEF Book
<1>3. CASE Decide(h, a)
  <2> DEFINE r == [account[a] EXCEPT !.approved = ~ @]
  <2>1. r \in Account /\ r.sequence = account[a].sequence
        /\ r.live = account[a].live /\ r.custodian = account[a].custodian
    BY <1>1 DEF Account
  <2> QED BY <1>3, <2>1 DEF Decide
<1> QED BY <1>2, <1>3

LEMMA BookTakes ==
    ASSUME Numbered, NEW h \in Handlers, Sound(job[h]), job \in [Handlers -> Job],
           NEW a \in Accounts, Book(h, a) \/ Decide(h, a)
    PROVE  Takes(h)
<1>1. GoOn(h, job[h])
  BY DEF Book, Decide, GoOn
<1>2. PICK r \in Account : /\ account' = [account EXCEPT ![a] = r]
                           /\ r.sequence = account[a].sequence
                           /\ r.live = account[a].live
                           /\ r.custodian = account[a].custodian
  BY BookRewrites DEF Numbered
<1>3. a \in Live /\ a \in Rows
  BY DEF Book, Decide, Open, Live
<1>4. r.live /\ r.custodian = None => MayBear(Live \ {a}, None)
  BY <1>2, <1>3 DEF Numbered, OneUnnamed, MayBear, Unnamed
<1>5. /\ account' \in [Accounts -> Account \cup {None}]
      /\ NumberedOnce' /\ OneUnnamed' /\ RowsStay
  BY <1>2, <1>3, <1>4, Rewritten DEF Numbered
<1> QED BY <1>1, <1>5 DEF Book, Decide, Numbered, TablesOK, Takes

\* The two ends of a transaction that may open an account.
LEMMA FindingIsSound ==
    ASSUME NEW h \in Handlers, Sound(job[h]), job[h].op \in {"assignCrew", "transition"},
           NEW op \in {"crew.number", "crew.commit", "deliver.number", "deliver.commit"}
    PROVE  Sound([job[h] EXCEPT !.op = op])
<1> DEFINE j == [job[h] EXCEPT !.op = op]
<1>1. job[h] \in Job /\ job[h].seq = 0 /\ op \in Op
  BY DEF Sound, Op
<1>2. j \in Job /\ j.op = op /\ j.seq = 0
  BY <1>1 DEF Job
<1>3. TakenUpTo(j.seq - 1)
  BY <1>2 DEF TakenUpTo
<1>4. Sound(j)
  <2> HIDE DEF j
  <2> QED BY <1>2, <1>3 DEF Sound
<1> QED BY <1>4

LEMMA EnsuredIsSound ==
    ASSUME Numbered, NEW n \in Nat, NEW c \in Person, TakenUpTo(n - 1),
           IF n = 0 THEN UNCHANGED account ELSE MayInsert(n, c) /\ Insert(n, c)
    PROVE  /\ account' \in [Accounts -> Account \cup {None}]
           /\ NumberedOnce' /\ OneUnnamed' /\ RowsStay
  BY Untouched, Inserted DEF Numbered, TablesOK

LEMMA CrewTakes ==
    ASSUME Numbered, NEW h \in Handlers, Sound(job[h]), CrewStep(h)
    PROVE  Takes(h)
<1>1. ASSUME NEW d \in Person, NEW p \in Person, LoadAssignCrew(h, d, p) PROVE Takes(h)
  <2> DEFINE j == [Idle EXCEPT !.op = "assignCrew", !.driver = d, !.who = p]
  <2>1. j \in Job /\ j.op = "assignCrew" /\ j.seq = 0
    BY NobodyIsNone DEF Idle, Job, Op
  <2>2. Sound(j)
    BY <2>1, BeginsSoundly
  <2> QED BY <1>1, <2>2, Reads DEF LoadAssignCrew
<1>2. CASE EnsureForHelper(h)
  <2>1. PICK op \in {"crew.number", "crew.commit"} : GoOn(h, [job[h] EXCEPT !.op = op])
    BY <1>2 DEF EnsureForHelper
  <2>2. Sound([job[h] EXCEPT !.op = op])
    BY <1>2, <2>1, FindingIsSound DEF EnsureForHelper, At
  <2> QED BY <1>2, <2>1, <2>2, Reads DEF EnsureForHelper
<1>3. CASE NumberForHelper(h)
  <2>1. PICK j : Sound(j) /\ GoOn(h, j)
    BY <1>3, NumberIsSound DEF NumberForHelper, Numbered
  <2> QED BY <1>3, <2>1, Reads DEF NumberForHelper
<1>4. CASE CommitCrew(h)
  <2>1. /\ job[h].seq \in Nat /\ job[h].who \in Person /\ job[h].driver \in Person
        /\ TakenUpTo(job[h].seq - 1)
    BY <1>4 DEF CommitCrew, At, Sound, Job
  <2>2. /\ account' \in [Accounts -> Account \cup {None}]
        /\ NumberedOnce' /\ OneUnnamed' /\ RowsStay
    BY <1>4, <2>1, EnsuredIsSound DEF CommitCrew
  <2>3. trip' \in Trip
    BY <1>4, <2>1 DEF CommitCrew, Numbered, TablesOK, Trip
  <2> QED BY <1>4, <2>2, <2>3, StopsSoundly DEF CommitCrew, Numbered, TablesOK, Takes
<1>5. ASSUME NEW truck \in BOOLEAN, LoadAssignTruck(h, truck) PROVE Takes(h)
  <2> DEFINE j == [Idle EXCEPT !.op = "assignTruck", !.flag = truck]
  <2>1. j \in Job /\ j.op = "assignTruck" /\ j.seq = 0
    BY NobodyIsNone DEF Idle, Job, Op
  <2>2. Sound(j)
    BY <2>1, BeginsSoundly
  <2> QED BY <1>5, <2>2, Reads DEF LoadAssignTruck
<1>6. CASE AssignTruck(h)
  <2>1. trip' \in Trip
    BY <1>6 DEF AssignTruck, Numbered, TablesOK, Trip, Sound, Job
  <2> QED BY <1>6, <2>1, Untouched, StopsSoundly DEF AssignTruck, Numbered, TablesOK, Takes
<1> QED BY <1>1, <1>2, <1>3, <1>4, <1>5, <1>6 DEF CrewStep

LEMMA MoveTakes ==
    ASSUME Numbered, NEW h \in Handlers, Sound(job[h]), MoveStep(h)
    PROVE  Takes(h)
<1>1. ASSUME NEW to \in Status, LoadTransition(h, to) PROVE Takes(h)
  <2> DEFINE j == [Idle EXCEPT !.op = "transition", !.to = to]
  <2>1. j \in Job /\ j.op = "transition" /\ j.seq = 0 /\ j.to = to
    BY NobodyIsNone DEF Idle, Job, Op
  <2>2. Sound(j)
    BY <2>1, BeginsSoundly
  <2> QED BY <1>1, <2>2, Reads DEF LoadTransition
<1>2. CASE Transition(h)
  <2>1. trip' \in Trip
    BY <1>2 DEF Transition, Numbered, TablesOK, Trip, Sound, At
  <2> QED BY <1>2, <2>1, Untouched, StopsSoundly DEF Transition, Numbered, TablesOK, Takes
<1>3. CASE EnsureOnDelivery(h)
  <2>1. PICK op \in {"deliver.number", "deliver.commit"} : GoOn(h, [job[h] EXCEPT !.op = op])
    BY <1>3 DEF EnsureOnDelivery
  <2>2. Sound([job[h] EXCEPT !.op = op])
    BY <1>3, <2>1, FindingIsSound DEF EnsureOnDelivery, At
  <2> QED BY <1>3, <2>1, <2>2, Reads DEF EnsureOnDelivery
<1>4. CASE NumberOnDelivery(h)
  <2>1. PICK j : Sound(j) /\ GoOn(h, j)
    BY <1>4, NumberIsSound DEF NumberOnDelivery, Numbered
  <2> QED BY <1>4, <2>1, Reads DEF NumberOnDelivery
<1>5. CASE CommitDelivery(h)
  <2>1. job[h].seq \in Nat /\ TakenUpTo(job[h].seq - 1)
    BY <1>5 DEF CommitDelivery, At, Sound, Job
  <2>2. /\ account' \in [Accounts -> Account \cup {None}]
        /\ NumberedOnce' /\ OneUnnamed' /\ RowsStay
    BY <1>5, <2>1, EnsuredIsSound, NobodyIsNone DEF CommitDelivery
  <2>3. trip' \in Trip
    BY <1>5 DEF CommitDelivery, Numbered, TablesOK, Trip, Status, Rank
  <2> QED BY <1>5, <2>2, <2>3, StopsSoundly DEF CommitDelivery, Numbered, TablesOK, Takes
<1>6. ASSUME NEW admin \in BOOLEAN, LoadRemove(h, admin) PROVE Takes(h)
  <2> DEFINE j == [Idle EXCEPT !.op = "remove"]
  <2>1. j \in Job /\ j.op = "remove" /\ j.seq = 0
    BY NobodyIsNone DEF Idle, Job, Op
  <2>2. Sound(j)
    BY <2>1, BeginsSoundly
  <2> QED BY <1>6, <2>2, Reads DEF LoadRemove
<1>7. CASE Remove(h)
  <2>1. \A a \in Accounts : account[a] # None =>
           account[a] \in Account /\ [account[a] EXCEPT !.live = FALSE] \in Account
    BY DEF Numbered, TablesOK, Account
  <2>2. \A a \in Accounts :
           account'[a] = IF a \in Live THEN [account[a] EXCEPT !.live = FALSE] ELSE account[a]
    BY <1>7 DEF Remove, Dependants
  <2>3. /\ account' \in [Accounts -> Account \cup {None}]
        /\ Rows' = Rows
    BY <1>7, <2>1, <2>2, NoneIsNoAccount DEF Remove, Dependants, Rows, Live, Numbered, TablesOK
  <2>4. RowsStay
    BY <2>1, <2>2, <2>3 DEF RowsStay, Rows, Live, Account
  <2>5. NumberedOnce'
    BY <2>3, <2>4 DEF RowsStay, NumberedOnce, Numbered
  <2>6. Live' = {}
    BY <2>1, <2>2, <2>3 DEF Live, Rows, Account
  <2>7. trip' \in Trip
    BY <1>7 DEF Remove, Numbered, TablesOK, Trip
  <2> QED BY <1>7, <2>3, <2>4, <2>5, <2>6, <2>7, StopsSoundly
          DEF Remove, Numbered, TablesOK, OneUnnamed, Takes
<1> QED BY <1>1, <1>2, <1>3, <1>4, <1>5, <1>6, <1>7 DEF MoveStep

LEMMA PayTakes ==
    ASSUME Numbered, NEW h \in Handlers, Sound(job[h]), job \in [Handlers -> Job], PayStep(h)
    PROVE  Takes(h)
<1>1. CASE LoadCompute(h)
  <2> DEFINE j == [Idle EXCEPT !.op = "compute", !.driver = trip.driver, !.who = trip.helper,
                               !.flag = commission # None]
  <2>1. trip.driver \in Person /\ trip.helper \in Person
    BY DEF Numbered, TablesOK, Trip
  <2>2. j \in Job /\ j.op = "compute" /\ j.seq = 0
    BY <2>1, NobodyIsNone DEF Idle, Job, Op
  <2>3. Sound(j)
    BY <2>2, BeginsSoundly
  <2> QED BY <1>1, <2>3, Reads DEF LoadCompute
<1>2. CASE Compute(h)
  <2>1. job[h].driver \in Person /\ job[h].who \in Person
    BY DEF Sound, Job
  <2>2. Kept(job[h].flag) \in Commission
    BY NobodyIsNone DEF Kept, Numbered, TablesOK, Commission
  <2>3. trip' \in Trip /\ commission' \in Commission
    BY <1>2, <2>1, <2>2 DEF Compute, Numbered, TablesOK, Trip, Commission
  <2> QED BY <1>2, <2>3, Untouched, StopsSoundly DEF Compute, Numbered, TablesOK, Takes
<1>3. CASE PayoutStep(h)
  <2>1. commission' \in Commission
    BY <1>3 DEF PayoutStep, Numbered, TablesOK, Commission
  <2>2. GoOn(h, job[h])
    BY <1>3 DEF PayoutStep, GoOn
  <2> QED BY <1>3, <2>1, <2>2, Untouched DEF PayoutStep, Numbered, TablesOK, Takes
<1> QED BY <1>1, <1>2, <1>3 DEF PayStep

LEMMA GivesUp ==
    ASSUME Numbered, NEW h \in Handlers, Refused(h) \/ Crash(h)
    PROVE  Takes(h)
  BY IdleIsSound, Reads DEF Refused, Crash, Return

LEMMA StepTakes ==
    ASSUME Inv, NEW h \in Handlers,
           AccountStep(h) \/ CrewStep(h) \/ MoveStep(h) \/ PayStep(h) \/ Refused(h) \/ Crash(h)
    PROVE  Takes(h)
<1>1. Numbered /\ Sound(job[h]) /\ job \in [Handlers -> Job]
  BY DEF Inv, TypeOK, Numbered, TablesOK
<1>2. CASE AccountStep(h)
  BY <1>1, <1>2, OpenTakes, NameTakes, BookTakes DEF AccountStep
<1> QED BY <1>1, <1>2, CrewTakes, MoveTakes, PayTakes, GivesUp

-----------------------------------------------------------------------------
LEMMA InvInit == Init => Inv
<1> SUFFICES ASSUME Init PROVE Inv
  OBVIOUS
<1>1. trip \in Trip
  BY NobodyIsNone DEF Init, Trip, Status, Rank
<1>2. Rows = {}
  BY DEF Init, Rows
<1>3. \A h \in Handlers : Sound(job[h])
  BY IdleIsSound DEF Init
<1>4. NumberedOnce /\ OneUnnamed
  BY <1>2 DEF NumberedOnce, OneUnnamed, Live
<1>5. job \in [Handlers -> Job]
  BY IdleIsSound DEF Init, Sound
<1> QED BY <1>1, <1>3, <1>4, <1>5 DEF Init, Inv, TypeOK

LEMMA InvNext == Inv /\ [Next]_vars => Inv'
<1> SUFFICES ASSUME Inv, [Next]_vars PROVE Inv'
  OBVIOUS
<1>1. CASE UNCHANGED vars
  <2>1. UNCHANGED trip /\ UNCHANGED account /\ UNCHANGED commission /\ UNCHANGED job
    BY <1>1 DEF vars, tables
  <2>2. NumberedOnce' /\ OneUnnamed' /\ RowsStay
    BY <2>1, Untouched DEF Inv
  <2>3. \A h \in Handlers : Sound(job[h])'
    BY <2>1, <2>2, SoundStays DEF Inv
  <2> QED BY <2>1, <2>2, <2>3 DEF Inv, TypeOK
<1>2. CASE Next
  <2>1. PICK h \in Handlers : Takes(h)
    BY <1>2, StepTakes DEF Next
  <2>2. PICK j : Sound(j) /\ GoOn(h, j)
    BY <2>1 DEF Takes
  <2>3. \A i \in Handlers : job'[i] = IF i = h THEN j ELSE job[i]
    BY <2>2 DEF GoOn, Inv, TypeOK
  <2>4. \A i \in Handlers : Sound(job[i])'
    BY <2>1, <2>2, <2>3, SoundStays DEF Takes, Inv
  <2>5. job' \in [Handlers -> Job]
    BY <2>2 DEF GoOn, Inv, TypeOK, Sound
  <2> QED BY <2>1, <2>4, <2>5 DEF Takes, Numbered, TablesOK, Inv, TypeOK
<1> QED BY <1>1, <1>2 DEF vars

\* Every variable keeps its type, whoever interleaves and wherever they die.
THEOREM TypeCorrect == Spec => []TypeOK
<1>1. Inv => TypeOK
  BY DEF Inv
<1> QED BY <1>1, InvInit, InvNext, PTL DEF Spec

\* An account's number is its own for ever, and numbers have no gaps, although
\* they are read and used in different statements and only the office's handler
\* tries again (nextSequence in liquidation.service.ts and pending-liquidation.ts).
THEOREM NumbersAreUnique == Spec => []NumberedOnce
<1>1. Inv => NumberedOnce
  BY DEF Inv
<1> QED BY <1>1, InvInit, InvNext, PTL DEF Spec

\* At most one live account has nobody named to it (setCustodian,
\* ensurePendingLiquidation and the index between them).
THEOREM UnnamedIsAlone == Spec => []OneUnnamed
<1>1. Inv => OneUnnamed
  BY DEF Inv
<1> QED BY <1>1, InvInit, InvNext, PTL DEF Spec

\* However requests interleave and die, the accounts of a trip can be told apart.
THEOREM AccountsAreToldApart == Spec => []AccountsStand
<1> QED BY TypeCorrect, NumbersAreUnique, UnnamedIsAlone, PTL DEF AccountsStand

-----------------------------------------------------------------------------
\* Only three actions write commissions, and each asks the database first.
LEMMA PaidKeeps == Inv /\ [Next]_vars => [PaidStays]_vars
<1> SUFFICES ASSUME Inv, Next PROVE PaidStays
  BY DEF vars
<1>1. PICK h \in Handlers : \/ AccountStep(h) \/ CrewStep(h) \/ MoveStep(h) \/ PayStep(h)
                            \/ Refused(h) \/ Crash(h)
  BY DEF Next
<1>2. commission' = commission => PaidStays
  BY DEF PaidStays, Inv, TypeOK, Commission
<1>3. CASE AccountStep(h)
  BY <1>2, <1>3 DEF AccountStep, LoadOpen, NumberOpen, InsertOpen, RetryOpen, LoadName, Name,
                    LoadRemoveAccount, RemoveAccount, Book, Decide, tables
<1>4. CASE CrewStep(h)
  BY <1>2, <1>4 DEF CrewStep, LoadAssignCrew, EnsureForHelper, NumberForHelper, CommitCrew,
                    LoadAssignTruck, AssignTruck, tables
<1>5. CASE MoveStep(h)
  <2>1. CASE Remove(h)
    BY <2>1 DEF Remove, MayDropPay, PaidStays
  <2>2. CASE ~ Remove(h)
    BY <1>2, <1>5, <2>2 DEF MoveStep, LoadTransition, Transition, EnsureOnDelivery,
                            NumberOnDelivery, CommitDelivery, LoadRemove, tables
  <2> QED BY <2>1, <2>2
<1>6. CASE PayStep(h)
  <2>1. CASE LoadCompute(h)
    BY <1>2, <2>1 DEF LoadCompute, tables
  <2>2. CASE Compute(h)
    <3> SUFFICES ASSUME commission # None, commission.voucher = "paid" PROVE PaidStays
      BY DEF PaidStays
    <3> DEFINE d == job[h].driver
               p == job[h].who
    <3>1. commission \in Commission
      BY DEF Inv, TypeOK
    <3>2. ~ job[h].flag
      BY <2>2 DEF Compute, MayPay, MayDropPay
    <3>3. /\ d # None => commission.driver = None
          /\ p # None => commission.helper = None
      BY <2>2, <3>2 DEF Compute, MayPay, SlotsFree
    <3>4. commission' = [commission EXCEPT !.driver = IF d = None THEN @ ELSE d,
                                           !.helper = IF p = None THEN @ ELSE p]
      BY <2>2, <3>2 DEF Compute, Kept
    <3>5. d \in Person /\ p \in Person
      BY DEF Inv, Sound, Job
    <3>6. /\ commission' \in Commission /\ commission'.voucher = "paid"
          /\ commission'.driver = IF d = None THEN commission.driver ELSE d
          /\ commission'.helper = IF p = None THEN commission.helper ELSE p
      <4> HIDE DEF d, p
      <4> QED BY <3>1, <3>4, <3>5 DEF Commission
    <3> QED BY <3>3, <3>6, NoneIsNoAccount DEF PaidStays
  <2>3. CASE PayoutStep(h)
    BY <2>3 DEF PayoutStep, PaidStays
  <2> QED BY <1>6, <2>1, <2>2, <2>3 DEF PayStep
<1>7. CASE Refused(h) \/ Crash(h)
  BY <1>2, <1>7 DEF Refused, Crash, tables
<1> QED BY <1>1, <1>3, <1>4, <1>5, <1>6, <1>7

\* Pay that was handed over stays on record for whom it was handed to, although
\* assertNothingPaid is asked before the transaction that drops or replaces it
\* (paid_commission_no_soft_delete, commission_shipment_role_live_key).
THEOREM PaidIsFinal == Spec => PaidStands
<1> QED BY InvInit, InvNext, PaidKeeps, PTL DEF Spec, PaidStands

-----------------------------------------------------------------------------
(***************************************************************************)
(* While requests do not overlap, what a handler has checked still holds   *)
(* when it writes: Fresh says what that is for each statement.             *)
(***************************************************************************)
OneAtATime == \A h, k \in Handlers : h = k

Fresh(j) ==
    /\ j.op = "transition" => Rank[j.to] = Rank[trip.status] + 1
    /\ j.op \in {"deliver.number", "deliver.commit"} => trip.status = "IN_TRANSIT"
    /\ j.op = "deliver.commit" /\ j.seq = 0 => Live # {}
    /\ j.op = "crew.commit" /\ j.seq = 0 => j.who = None \/ Holds(j.who)
    /\ j.op \in {"assignCrew", "crew.number", "crew.commit", "transition", "deliver.number",
                 "deliver.commit", "open", "open.insert", "compute"} => trip.live
    /\ j.op \in {"assignCrew", "crew.number", "crew.commit", "compute", "remove"} => NothingPaid
    /\ j.op \in {"setCustodian", "removeAccount"} => ~ account[j.acct].approved

Stands == MovesForward /\ Ensures /\ PayStands /\ ApprovalStands

Alone == Inv /\ NothingOutlives /\ \A h \in Handlers : Fresh(job[h])

Keeps(h) == NothingOutlives' /\ Stands /\ \E j : Fresh(j)' /\ GoOn(h, j)

LEMMA IdleIsFresh == Fresh(Idle) /\ Fresh(Idle)'
  BY DEF Fresh, Idle

LEMMA RankIsNatural == \A st \in Status : Rank[st] \in Nat
  BY DEF Status, Rank

\* A step that leaves the trip and its commissions alone, and one that leaves
\* the accounts alone.
LEMMA AccountsOnly ==
    ASSUME Inv, NothingOutlives, UNCHANGED <<trip, commission>>, ApprovalStands
    PROVE  Stands
<1>1. Rank[trip.status] \in Nat
  BY RankIsNatural DEF Inv, TypeOK, Trip
<1>2. MovesForward
  BY <1>1 DEF MovesForward
<1>3. Ensures
  BY DEF Ensures
<1>4. PayStands
  BY DEF PayStands, NothingPaid, NothingOutlives
<1> QED BY <1>2, <1>3, <1>4 DEF Stands

LEMMA AccountsAlone ==
    ASSUME UNCHANGED account
    PROVE  ApprovalStands /\ Live' = Live
  BY DEF ApprovalStands, Live, Rows

LEMMA ReadsKeep ==
    ASSUME Alone, NEW h \in Handlers, UNCHANGED tables, NEW j, Fresh(j), GoOn(h, j)
    PROVE  Keeps(h)
<1>1. trip' = trip /\ account' = account /\ commission' = commission
  BY DEF tables
<1>2. Live' = Live /\ NothingOutlives'
  BY <1>1 DEF Live, Rows, NothingOutlives, Alone
<1>3. Fresh(j)'
  BY <1>1, <1>2 DEF Fresh, Holds, NothingPaid
<1>4. Stands
  BY <1>1, AccountsAlone, AccountsOnly DEF Alone
<1> QED BY <1>2, <1>3, <1>4 DEF Keeps

\* A handler that writes and is done.
LEMMA Finishes ==
    ASSUME NEW h, NothingOutlives', Stands, Return(h)
    PROVE  Keeps(h)
  BY IdleIsFresh DEF Keeps, Return

LEMMA OpenKeeps ==
    ASSUME Alone, NEW h \in Handlers,
           \/ \E c \in Staff : LoadOpen(h, c)
           \/ NumberOpen(h) \/ InsertOpen(h) \/ RetryOpen(h)
    PROVE  Keeps(h)
<1>1. Fresh(job[h])
  BY DEF Alone
<1>2. ASSUME NEW c \in Staff, LoadOpen(h, c) PROVE Keeps(h)
  <2>1. Fresh([Idle EXCEPT !.op = "open", !.who = c])
    BY <1>2 DEF LoadOpen, MayHold, Fresh, Idle
  <2> QED BY <1>2, <2>1, ReadsKeep DEF LoadOpen
<1>3. job[h] \in Job
  BY DEF Alone, Inv, Sound
<1>4. CASE NumberOpen(h)
  <2>1. PICK n \in Latest : GoOn(h, [job[h] EXCEPT !.op = "open.insert", !.seq = n + 1])
    BY <1>4 DEF NumberOpen, NextSequence
  <2> DEFINE j == [job[h] EXCEPT !.op = "open.insert", !.seq = n + 1]
  <2>2. j.op = "open.insert"
    BY <1>3 DEF Job
  <2>3. Fresh(j)
    <3>1. trip.live
      BY <1>1, <1>4 DEF NumberOpen, At, Fresh
    <3> HIDE DEF j
    <3> QED BY <2>2, <3>1 DEF Fresh
  <2> QED BY <1>4, <2>1, <2>3, ReadsKeep DEF NumberOpen
<1>5. CASE InsertOpen(h)
  <2>1. trip.live /\ trip' = trip /\ commission' = commission
    BY <1>1, <1>5 DEF InsertOpen, At, Fresh
  <2>2. PICK a \in Accounts \ Rows :
            account' = [account EXCEPT ![a] = NewAccount(job[h].seq, job[h].who)]
    BY <1>5 DEF InsertOpen, Insert
  <2>3. \A b \in Live : account'[b] = account[b] /\ b \in Live'
    BY <2>2 DEF Live, Rows, Alone, Inv, TypeOK
  <2>4. ApprovalStands
    BY <2>3 DEF ApprovalStands
  <2> QED BY <1>5, <2>1, <2>4, AccountsOnly, Finishes DEF InsertOpen, NothingOutlives, Alone
<1>6. CASE RetryOpen(h)
  <2>1. CASE Return(h)
    BY <1>6, <2>1, IdleIsFresh, ReadsKeep DEF RetryOpen, Return
  <2>2. CASE GoOn(h, [job[h] EXCEPT !.op = "open", !.tries = @ + 1])
    <3> DEFINE j == [job[h] EXCEPT !.op = "open", !.tries = @ + 1]
    <3>1. j.op = "open"
      BY <1>3 DEF Job
    <3>2. Fresh(j)
      <4>1. trip.live
        BY <1>1, <1>6 DEF RetryOpen, At, Fresh
      <4> HIDE DEF j
      <4> QED BY <3>1, <4>1 DEF Fresh
    <3> QED BY <1>6, <2>2, <3>2, ReadsKeep DEF RetryOpen
  <2> QED BY <1>6, <2>1, <2>2 DEF RetryOpen
<1> QED BY <1>2, <1>4, <1>5, <1>6

LEMMA NameKeeps ==
    ASSUME Alone, NEW h \in Handlers,
           \/ \E a \in Accounts, c \in Person : LoadName(h, a, c)
           \/ \E a \in Accounts : LoadRemoveAccount(h, a)
           \/ Name(h) \/ RemoveAccount(h)
    PROVE  Keeps(h)
<1>1. ASSUME NEW a \in Accounts, NEW c \in Person, LoadName(h, a, c) PROVE Keeps(h)
  <2>1. Fresh([Idle EXCEPT !.op = "setCustodian", !.acct = a, !.who = c])
    BY <1>1 DEF LoadName, Open, Fresh, Idle
  <2> QED BY <1>1, <2>1, ReadsKeep DEF LoadName
<1>2. ASSUME NEW a \in Accounts, LoadRemoveAccount(h, a) PROVE Keeps(h)
  <2>1. Fresh([Idle EXCEPT !.op = "removeAccount", !.acct = a])
    BY <1>2 DEF LoadRemoveAccount, Open, Fresh, Idle
  <2> QED BY <1>2, <2>1, ReadsKeep DEF LoadRemoveAccount
<1>3. ASSUME Name(h) \/ RemoveAccount(h) PROVE Keeps(h)
  <2>1. job[h].acct \in Rows /\ ~ account[job[h].acct].approved
    BY <1>3 DEF Name, RemoveAccount, At, Alone, Inv, Sound, Fresh
  <2>2. \A b \in Live : b # job[h].acct => account'[b] = account[b] /\ b \in Live'
    BY <1>3 DEF Name, RemoveAccount, Live, Rows, Alone, Inv, TypeOK
  <2>3. ApprovalStands
    BY <2>1, <2>2 DEF ApprovalStands
  <2>4. Live' \subseteq Live
    <3>1. account[job[h].acct] \in Account /\ job[h].acct \in Accounts
      BY <2>1 DEF Alone, Inv, TypeOK, Rows
    <3>2. \A b \in Accounts : b # job[h].acct => account'[b] = account[b]
      BY <1>3 DEF Name, RemoveAccount, Alone, Inv, TypeOK
    <3>3. account'[job[h].acct].live => account[job[h].acct].live
      BY <1>3, <3>1 DEF Name, RemoveAccount, Account, Alone, Inv, TypeOK
    <3> QED BY <2>1, <3>2, <3>3 DEF Live, Rows
  <2> QED BY <1>3, <2>3, <2>4, AccountsOnly, Finishes
          DEF Name, RemoveAccount, NothingOutlives, Alone
<1> QED BY <1>1, <1>2, <1>3

LEMMA BookKeeps ==
    ASSUME Alone, NEW h \in Handlers, NEW a \in Accounts, Book(h, a) \/ Decide(h, a)
    PROVE  Keeps(h)
<1>1. a \in Live /\ account[a] \in Account
  BY DEF Alone, Inv, TypeOK, Book, Decide, Open, Live, Rows
<1>2. /\ account'[a].live = account[a].live
      /\ account'[a].custodian = account[a].custodian
      /\ account'[a] # None
  <2>1. PICK r \in Account : /\ account' = [account EXCEPT ![a] = r]
                             /\ r.live = account[a].live
                             /\ r.custodian = account[a].custodian
    BY BookRewrites DEF Alone, Inv, TypeOK, TablesOK
  <2>2. account'[a] = r
    BY <2>1 DEF Alone, Inv, TypeOK
  <2> QED BY <2>1, <2>2, NoneIsNoAccount
<1>3. \A b \in Accounts : b # a => account'[b] = account[b]
  BY DEF Book, Decide, Alone, Inv, TypeOK
<1>4. Live' = Live
  BY <1>1, <1>2, <1>3 DEF Live, Rows
<1>5. ApprovalStands
  BY <1>2, <1>3, <1>4 DEF ApprovalStands, Live, Rows
<1>6. Called(h, "book") \/ Called(h, "decide")
  BY DEF Book, Decide
<1>7. GoOn(h, Idle)
  BY <1>6 DEF Book, Decide, Called, GoOn, Alone, Inv, TypeOK
<1> QED BY <1>4, <1>5, <1>7, AccountsOnly, Finishes
        DEF Book, Decide, Return, NothingOutlives, Alone

LEMMA InsertStands ==
    ASSUME Inv, NEW n \in Nat \ {0}, NEW c \in Person, Insert(n, c)
    PROVE  ApprovalStands /\ \E a \in Live' : account'[a].custodian = c
<1>1. PICK a \in Accounts \ Rows : account' = [account EXCEPT ![a] = NewAccount(n, c)]
  BY DEF Insert
<1>2. NewAccount(n, c) \in Account /\ NewAccount(n, c).live /\ NewAccount(n, c).custodian = c
  BY DEF NewAccount, Account
<1>3. account'[a] = NewAccount(n, c) /\ \A b \in Accounts : b # a => account'[b] = account[b]
  BY <1>1 DEF Inv, TypeOK
<1>4. a \in Live'
  BY <1>2, <1>3, NoneIsNoAccount DEF Live, Rows
<1>5. \A b \in Live : account'[b] = account[b] /\ b \in Live'
  BY <1>1, <1>3 DEF Live, Rows
<1>6. ApprovalStands
  BY <1>5 DEF ApprovalStands
<1> QED BY <1>2, <1>3, <1>4, <1>6

LEMMA CrewKeeps ==
    ASSUME Alone, NEW h \in Handlers, CrewStep(h)
    PROVE  Keeps(h)
<1>1. Fresh(job[h]) /\ Sound(job[h]) /\ job[h] \in Job /\ Inv
  BY DEF Alone, Inv, Sound
<1>2. Rank[trip.status] \in Nat /\ trip \in Trip
  BY RankIsNatural DEF Alone, Inv, TypeOK, Trip
<1>3. ASSUME NEW d \in Person, NEW p \in Person, LoadAssignCrew(h, d, p) PROVE Keeps(h)
  <2>1. Fresh([Idle EXCEPT !.op = "assignCrew", !.driver = d, !.who = p])
    BY <1>3 DEF LoadAssignCrew, Fresh, Idle
  <2> QED BY <1>3, <2>1, ReadsKeep DEF LoadAssignCrew
<1>4. CASE EnsureForHelper(h)
  <2> DEFINE op == IF job[h].who = None \/ Holds(job[h].who) THEN "crew.commit" ELSE "crew.number"
             j == [job[h] EXCEPT !.op = op]
  <2>1. j.op = op /\ j.who = job[h].who
    BY <1>1 DEF Job
  <2>2. trip.live /\ NothingPaid
    BY <1>1, <1>4 DEF EnsureForHelper, At, Fresh
  <2>3. Fresh(j)
    <3> HIDE DEF j
    <3> QED BY <2>1, <2>2 DEF Fresh
  <2> QED BY <1>4, <2>3, ReadsKeep DEF EnsureForHelper
<1>5. CASE NumberForHelper(h)
  <2>1. PICK n \in Latest : GoOn(h, [job[h] EXCEPT !.op = "crew.commit", !.seq = n + 1])
    BY <1>5 DEF NumberForHelper, NextSequence
  <2> DEFINE j == [job[h] EXCEPT !.op = "crew.commit", !.seq = n + 1]
  <2>2. n \in Nat
    BY LatestIsTaken DEF Alone, Inv, TypeOK, TablesOK
  <2>3. j.op = "crew.commit" /\ j.seq = n + 1 /\ n + 1 # 0
    BY <1>1, <2>2 DEF Job
  <2>4. trip.live /\ NothingPaid
    BY <1>1, <1>5 DEF NumberForHelper, At, Fresh
  <2>5. Fresh(j)
    <3> HIDE DEF j
    <3> QED BY <2>3, <2>4 DEF Fresh
  <2> QED BY <1>5, <2>1, <2>5, ReadsKeep DEF NumberForHelper
<1>6. CASE CommitCrew(h)
  <2> DEFINE n == job[h].seq
             p == job[h].who
  <2>1. trip.live /\ NothingPaid /\ (n = 0 => p = None \/ Holds(p))
    BY <1>1, <1>6 DEF CommitCrew, At, Fresh
  <2>2. n \in Nat /\ p \in Person
    BY <1>1 DEF Job
  <2>3. /\ trip'.live = trip.live /\ trip'.status = trip.status /\ trip'.helper = p
    BY <1>2, <1>6 DEF CommitCrew, Trip
  <2>4. ApprovalStands /\ (p # None => \E a \in Live' : account'[a].custodian = p)
    <3>1. CASE n = 0
      BY <1>6, <2>1, <3>1, AccountsAlone DEF CommitCrew, Holds
    <3>2. CASE n # 0
      BY <1>1, <1>6, <2>2, <3>2, InsertStands DEF CommitCrew
    <3> QED BY <3>1, <3>2
  <2>5. MovesForward /\ Ensures /\ PayStands
    BY <1>2, <2>1, <2>3, <2>4 DEF MovesForward, Ensures, PayStands
  <2>6. NothingOutlives'
    BY <2>1, <2>3 DEF NothingOutlives
  <2> QED BY <1>6, <2>4, <2>5, <2>6, Finishes DEF CommitCrew, Stands
<1>7. ASSUME NEW truck \in BOOLEAN, LoadAssignTruck(h, truck) PROVE Keeps(h)
  <2>1. Fresh([Idle EXCEPT !.op = "assignTruck", !.flag = truck])
    BY DEF Fresh, Idle
  <2> QED BY <1>7, <2>1, ReadsKeep DEF LoadAssignTruck
<1>8. CASE AssignTruck(h)
  <2>1. /\ trip'.live = trip.live /\ trip'.status = trip.status
        /\ trip'.helper = trip.helper /\ trip'.driver = trip.driver
        /\ account' = account /\ commission' = commission
    BY <1>2, <1>8 DEF AssignTruck, Trip
  <2>2. ApprovalStands /\ Live' = Live
    BY <2>1, AccountsAlone
  <2>3. MovesForward /\ Ensures
    BY <1>2, <2>1 DEF MovesForward, Ensures
  <2>4. PayStands /\ NothingOutlives'
    BY <2>1, <2>2 DEF PayStands, NothingPaid, NothingOutlives, Alone
  <2> QED BY <1>8, <2>2, <2>3, <2>4, Finishes DEF AssignTruck, Stands
<1> QED BY <1>3, <1>4, <1>5, <1>6, <1>7, <1>8 DEF CrewStep

LEMMA MoveKeeps ==
    ASSUME Alone, NEW h \in Handlers, MoveStep(h)
    PROVE  Keeps(h)
<1>1. Fresh(job[h]) /\ Sound(job[h]) /\ job[h] \in Job /\ Inv
  BY DEF Alone, Inv, Sound
<1>2. Rank[trip.status] \in Nat /\ trip \in Trip
  BY RankIsNatural DEF Alone, Inv, TypeOK, Trip
<1>3. ASSUME NEW to \in Status, LoadTransition(h, to) PROVE Keeps(h)
  <2> DEFINE j == [Idle EXCEPT !.op = "transition", !.to = to]
  <2>1. j.op = "transition" /\ j.to = to
    BY DEF Idle
  <2>2. Fresh(j)
    <3>1. trip.live /\ Rank[to] = Rank[trip.status] + 1
      BY <1>3 DEF LoadTransition, IsAllowed
    <3> HIDE DEF j
    <3> QED BY <2>1, <3>1 DEF Fresh
  <2> QED BY <1>3, <2>2, ReadsKeep DEF LoadTransition
<1>4. CASE Transition(h)
  <2>1. Rank[job[h].to] = Rank[trip.status] + 1 /\ trip.live
    BY <1>1, <1>4 DEF Transition, At, Fresh
  <2>2. /\ trip'.live = trip.live /\ trip'.status = job[h].to
        /\ trip'.helper = trip.helper /\ trip'.driver = trip.driver
        /\ account' = account /\ commission' = commission
    BY <1>2, <1>4 DEF Transition, Trip
  <2>3. ApprovalStands /\ Live' = Live
    BY <2>2, AccountsAlone
  <2>4. MovesForward
    BY <1>2, <2>1, <2>2 DEF MovesForward
  <2>5. Ensures
    BY <1>4, <2>2 DEF Transition, Ensures
  <2>6. PayStands /\ NothingOutlives'
    BY <2>1, <2>2 DEF PayStands, NothingPaid, NothingOutlives
  <2> QED BY <1>4, <2>3, <2>4, <2>5, <2>6, Finishes DEF Transition, Stands
<1>5. CASE EnsureOnDelivery(h)
  <2> DEFINE op == IF AnyAccount THEN "deliver.commit" ELSE "deliver.number"
             j == [job[h] EXCEPT !.op = op]
  <2>1. j.op = op /\ j.to = job[h].to
    BY <1>1 DEF Job
  <2>2. trip.live /\ Rank["DELIVERED"] = Rank[trip.status] + 1
    BY <1>1, <1>5 DEF EnsureOnDelivery, At, Fresh
  <2>3. trip.status = "IN_TRANSIT"
    <3>1. trip.status \in {"DRAFT", "DISPATCHED", "IN_TRANSIT", "DELIVERED", "COMPLETED"}
      BY <1>2 DEF Trip, Status, Rank
    <3> QED BY <2>2, <3>1 DEF Rank
  <2>4. Fresh(j)
    <3> HIDE DEF j
    <3> QED BY <2>1, <2>2, <2>3 DEF Fresh, AnyAccount
  <2> QED BY <1>5, <2>4, ReadsKeep DEF EnsureOnDelivery
<1>6. CASE NumberOnDelivery(h)
  <2>1. PICK n \in Latest : GoOn(h, [job[h] EXCEPT !.op = "deliver.commit", !.seq = n + 1])
    BY <1>6 DEF NumberOnDelivery, NextSequence
  <2> DEFINE j == [job[h] EXCEPT !.op = "deliver.commit", !.seq = n + 1]
  <2>2. n \in Nat
    BY LatestIsTaken DEF Alone, Inv, TypeOK, TablesOK
  <2>3. j.op = "deliver.commit" /\ j.seq = n + 1 /\ n + 1 # 0
    BY <1>1, <2>2 DEF Job
  <2>4. trip.live /\ trip.status = "IN_TRANSIT"
    BY <1>1, <1>6 DEF NumberOnDelivery, At, Fresh
  <2>5. Fresh(j)
    <3> HIDE DEF j
    <3> QED BY <2>3, <2>4 DEF Fresh
  <2> QED BY <1>6, <2>1, <2>5, ReadsKeep DEF NumberOnDelivery
<1>7. CASE CommitDelivery(h)
  <2> DEFINE n == job[h].seq
  <2>1. trip.live /\ trip.status = "IN_TRANSIT" /\ (n = 0 => Live # {})
    BY <1>1, <1>7 DEF CommitDelivery, At, Fresh
  <2>2. n \in Nat
    BY <1>1 DEF Job
  <2>3. /\ trip'.live = trip.live /\ trip'.status = "DELIVERED"
        /\ trip'.helper = trip.helper /\ trip'.driver = trip.driver
        /\ commission' = commission
    BY <1>2, <1>7 DEF CommitDelivery, Trip
  <2>4. ApprovalStands /\ Live' # {}
    <3>1. CASE n = 0
      BY <1>7, <2>1, <3>1, AccountsAlone DEF CommitDelivery
    <3>2. CASE n # 0
      BY <1>1, <1>7, <2>2, <3>2, InsertStands, NobodyIsNone DEF CommitDelivery
    <3> QED BY <3>1, <3>2
  <2>5. MovesForward
    BY <2>1, <2>3 DEF MovesForward, Rank
  <2>6. Ensures
    BY <2>3, <2>4 DEF Ensures
  <2>7. PayStands /\ NothingOutlives'
    BY <2>1, <2>3 DEF PayStands, NothingPaid, NothingOutlives
  <2> QED BY <1>7, <2>4, <2>5, <2>6, <2>7, Finishes DEF CommitDelivery, Stands
<1>8. ASSUME NEW admin \in BOOLEAN, LoadRemove(h, admin) PROVE Keeps(h)
  <2>1. Fresh([Idle EXCEPT !.op = "remove"])
    BY <1>8 DEF LoadRemove, MayRemove, Fresh, Idle
  <2> QED BY <1>8, <2>1, ReadsKeep DEF LoadRemove
<1>9. CASE Remove(h)
  <2>1. NothingPaid
    BY <1>1, <1>9 DEF Remove, At, Fresh
  <2>2. ~ trip'.live /\ trip'.status = trip.status /\ trip'.helper = trip.helper
    BY <1>2, <1>9 DEF Remove, Trip
  <2>3. \A a \in Accounts : account'[a] =
            IF a \in Live THEN [account[a] EXCEPT !.live = FALSE] ELSE account[a]
    BY <1>9 DEF Remove, Dependants
  <2>4. \A a \in Live : a \in Accounts /\ account[a] \in Account
    BY DEF Live, Rows, Alone, Inv, TypeOK
  <2>5. \A a \in Live : ~ account'[a].live /\ account'[a].custodian = account[a].custodian
    BY <2>3, <2>4 DEF Account
  <2>6. Live' = {}
    BY <2>3, <2>5 DEF Live, Rows
  <2>7. NothingOutlives'
    BY <1>9, <2>6 DEF Remove, NothingOutlives
  <2>8. ApprovalStands
    BY <2>2, <2>5 DEF ApprovalStands
  <2>9. MovesForward /\ Ensures /\ PayStands
    BY <1>2, <2>1, <2>2 DEF MovesForward, Ensures, PayStands
  <2> QED BY <1>9, <2>7, <2>8, <2>9, Finishes DEF Remove, Stands
<1> QED BY <1>3, <1>4, <1>5, <1>6, <1>7, <1>8, <1>9 DEF MoveStep

LEMMA PayKeeps ==
    ASSUME Alone, NEW h \in Handlers, PayStep(h)
    PROVE  Keeps(h)
<1>1. Fresh(job[h]) /\ job[h] \in Job /\ Inv
  BY DEF Alone, Inv, Sound
<1>2. Rank[trip.status] \in Nat /\ trip \in Trip
  BY RankIsNatural DEF Alone, Inv, TypeOK, Trip
<1>3. CASE LoadCompute(h)
  <2>1. Fresh([Idle EXCEPT !.op = "compute", !.driver = trip.driver, !.who = trip.helper,
                           !.flag = commission # None])
    BY <1>3 DEF LoadCompute, Fresh, Idle
  <2> QED BY <1>3, <2>1, ReadsKeep DEF LoadCompute
<1>4. CASE Compute(h)
  <2>1. trip.live /\ NothingPaid
    BY <1>1, <1>4 DEF Compute, At, Fresh
  <2>2. /\ trip'.live = trip.live /\ trip'.status = trip.status
        /\ trip'.helper = trip.helper /\ account' = account
    BY <1>2, <1>4 DEF Compute, Trip
  <2>3. ApprovalStands
    BY <2>2, AccountsAlone
  <2>4. MovesForward /\ Ensures /\ PayStands /\ NothingOutlives'
    BY <1>2, <2>1, <2>2 DEF MovesForward, Ensures, PayStands, NothingOutlives
  <2> QED BY <1>4, <2>3, <2>4, Finishes DEF Compute, Stands
<1>5. CASE PayoutStep(h)
  <2>1. commission \in Commission /\ trip' = trip /\ account' = account /\ job[h] = Idle
    BY <1>5 DEF PayoutStep, Called, Alone, Inv, TypeOK
  <2>2. PICK to \in {"none", "draft", "paid"} : commission' = [commission EXCEPT !.voucher = to]
    BY <1>5 DEF PayoutStep
  <2>3. commission' \in Commission /\ commission'.driver = commission.driver
        /\ commission'.helper = commission.helper
    BY <2>1, <2>2 DEF Commission
  <2>4. trip.live
    BY <1>5 DEF PayoutStep, NothingOutlives, Alone
  <2>5. ApprovalStands
    BY <2>1, AccountsAlone
  <2>6. MovesForward /\ Ensures /\ PayStands /\ NothingOutlives'
    BY <1>2, <2>1, <2>3, <2>4, NoneIsNoAccount
    DEF MovesForward, Ensures, PayStands, NothingOutlives
  <2>7. Return(h)
    BY <1>5, <2>1 DEF PayoutStep, Return, GoOn, Alone, Inv, TypeOK
  <2> QED BY <2>5, <2>6, <2>7, Finishes DEF Stands
<1> QED BY <1>3, <1>4, <1>5 DEF PayStep

LEMMA AloneInit == Init => Alone
<1> SUFFICES ASSUME Init PROVE Alone
  OBVIOUS
<1>1. Inv
  BY InvInit
<1>2. NothingOutlives
  BY DEF Init, NothingOutlives
<1>3. \A h \in Handlers : Fresh(job[h])
  BY IdleIsFresh DEF Init
<1> QED BY <1>1, <1>2, <1>3 DEF Alone

\* One handler's step leaves the other handlers' checks alone: there are none.
LEMMA AloneNext ==
    ASSUME OneAtATime
    PROVE  Alone /\ [Next]_vars => Alone' /\ [Stands]_vars
<1> SUFFICES ASSUME Alone, [Next]_vars PROVE Alone' /\ [Stands]_vars
  OBVIOUS
<1>1. Inv'
  BY InvNext DEF Alone
<1>2. CASE UNCHANGED vars
  <2>1. trip' = trip /\ account' = account /\ commission' = commission /\ job' = job
    BY <1>2 DEF vars, tables
  <2>2. Live' = Live
    BY <2>1 DEF Live, Rows
  <2>3. NothingOutlives' /\ \A h \in Handlers : Fresh(job[h])'
    BY <2>1, <2>2 DEF Alone, NothingOutlives, Fresh, Holds, NothingPaid
  <2> QED BY <1>1, <1>2, <2>3 DEF Alone
<1>3. CASE Next
  <2>1. PICK h \in Handlers : \/ AccountStep(h) \/ CrewStep(h) \/ MoveStep(h) \/ PayStep(h)
                              \/ Refused(h) \/ Crash(h)
    BY <1>3 DEF Next
  <2>2. ASSUME Refused(h) \/ Crash(h) PROVE Keeps(h)
    BY <2>2, IdleIsFresh, ReadsKeep DEF Refused, Crash, Return
  <2>3. ASSUME AccountStep(h) PROVE Keeps(h)
    BY <2>3, OpenKeeps, NameKeeps, BookKeeps DEF AccountStep
  <2>4. Keeps(h)
    BY <2>1, <2>2, <2>3, CrewKeeps, MoveKeeps, PayKeeps
  <2>5. PICK j : Fresh(j)' /\ GoOn(h, j)
    BY <2>4 DEF Keeps
  <2>6. job'[h] = j
    BY <2>5 DEF GoOn, Alone, Inv, TypeOK
  <2>7. \A k \in Handlers : Fresh(job[k])'
    BY <2>5, <2>6 DEF OneAtATime
  <2> QED BY <1>1, <2>4, <2>7 DEF Keeps, Alone
<1> QED BY <1>2, <1>3
\* Served one at a time, requests only move a trip forward
\* (isAllowedManualTransition and the update of transition).
THEOREM ForwardAlone ==
    ASSUME OneAtATime
    PROVE  Spec => OnlyForward
<1>1. Alone /\ [Next]_vars => Alone' /\ [MovesForward]_vars
  BY AloneNext DEF Stands
<1> QED BY <1>1, AloneInit, PTL DEF Spec, OnlyForward

\* Served one at a time, a request that delivers the trip leaves it an account,
\* and one that puts a helper on it leaves them theirs (ensurePendingLiquidation,
\* ensureAccountForCustodian).
THEOREM EnsuredAlone ==
    ASSUME OneAtATime
    PROVE  Spec => EnsuredAccount
<1>1. Alone /\ [Next]_vars => Alone' /\ [Ensures]_vars
  BY AloneNext DEF Stands
<1> QED BY <1>1, AloneInit, PTL DEF Spec, EnsuredAccount

\* Served one at a time, requests leave no live account and no live commission
\* on a removed trip (softDeleteWithDependants).
THEOREM OutlivesAlone ==
    ASSUME OneAtATime
    PROVE  Spec => []NothingOutlives
<1>1. Alone => NothingOutlives
  BY DEF Alone
<1>2. Alone /\ [Next]_vars => Alone'
  BY AloneNext
<1> QED BY <1>1, <1>2, AloneInit, PTL DEF Spec

\* Served one at a time, requests change neither the crew that a payout line
\* pays nor the custodian of an account that stays approved (assertNothingPaid,
\* setCustodian).
THEOREM DecidedAlone ==
    ASSUME OneAtATime
    PROVE  Spec => DecidedStands
<1>1. Alone /\ [Next]_vars => Alone' /\ [PayStands /\ ApprovalStands]_vars
  BY AloneNext DEF Stands
<1> QED BY <1>1, AloneInit, PTL DEF Spec, DecidedStands
=============================================================================

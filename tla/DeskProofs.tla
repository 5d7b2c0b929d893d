----------------------------- MODULE DeskProofs ----------------------------
(***************************************************************************)
(* What the booking desk keeps for any number of requests, rows and days,  *)
(* by induction over its steps.  Some of it holds however requests race,   *)
(* because the database refuses; the rest holds until two requests are in  *)
(* flight together, because until then what a request has read still holds *)
(* when it writes.  Inv has a part for each.                               *)
(***************************************************************************)
EXTENDS Desk, FiniteSums

NumbersOK ==
    /\ trip \in [Trips -> TripRow \cup {None}]
    /\ IsFiniteSet(Exists(trip))
    /\ \A t, u \in Live(trip) : trip[t].number = trip[u].number => t = u

RecordsOK ==
    /\ record \in RecordRow \cup {None}
    /\ record = None => entity \in Deletable
    /\ naming \in [Names -> NamingRow \cup {None}]
    /\ \A n \in Exists(naming) : naming[n].from \in NamedBy[entity]
    /\ NoNameDangles

RulesOK ==
    /\ rule \in [Rules -> RuleRow \cup {None}]
    /\ IsFiniteSet(Exists(rule))
    /\ winner \in Exists(rule) \cup {None}

TablesOK ==
    /\ desk \in Desks /\ entity \in Entity /\ dispatched \in Day
    /\ NumbersOK /\ RecordsOK /\ RulesOK

Job == {Idle} \cup BookingJob \cup RecordJob \cup RuleJob
OnRule == {"patchRule", "commissions", "deactivateRule", "softDeleteRule", "pay"}

\* What a handler is about to do can be done, and as many bookings as it has
\* tried again for were made since it came.
Good(j) ==
    /\ j \in Job
    /\ j.do \in {"readNumbers", "insertTrip"} =>
          Cardinality(Exists(trip)) >= j.seen + j.attempt - 1
    /\ j.do = "insertTrip" /\ j.number \in Issued => Cardinality(Exists(trip)) >= j.seen + j.attempt
    /\ j.do = "removeTrip" => trip[j.of] # None
    /\ j.do = "insertNaming" => j.from \in NamedBy[entity]
    /\ j.do = "removeNaming" => naming[j.of] # None
    /\ j.do = "softDeleteRecord" => entity \notin Deletable
    /\ j.do = "hardDeleteRecord" => entity \in Deletable
    /\ j.do \in OnRule => rule[j.of] # None
    /\ j.do = "survivors" => rule[j.next.of] # None

-----------------------------------------------------------------------------
\* Until requests overlap.
Unnamed == \A n \in Live(naming) : entity = "payee" /\ naming[n].from = "billable"

SerialTables ==
    /\ \A t, u \in Exists(trip) : trip[t].number = trip[u].number => t = u
    /\ RecordIsLive \/ Unnamed
    /\ winner # None => rule[winner].live

ReadyOnRecord(j) ==
    /\ j.do \in {"insertNaming", "patchRecord", "count", "deactivateRecord"} => RecordIsLive
    /\ j.do = "count" => j.found \/ \A table \in Probes[entity] \ j.left : ~ NamedFrom(table)
    /\ j.do \in {"softDeleteRecord", "hardDeleteRecord"} => Unnamed

\* The rule that is to go leaves its role another.
Replaced(r) == Survivors(r, rule[r].form.role)

ReadyOnRule(j) ==
    /\ j.do = "survivors" =>
          /\ j.role = rule[j.next.of].form.role
          /\ j.next.do \in {"patchRule", "commissions"}
          /\ j.next.do = "patchRule" => j.next.form = rule[j.next.of].form
    /\ j.do = "patchRule" /\ ~ j.active =>
          /\ j.form = rule[j.of].form
          /\ rule[j.of].active => Replaced(j.of)
    /\ j.do \in {"commissions", "deactivateRule", "softDeleteRule"} => Replaced(j.of)
    /\ j.do = "softDeleteRule" => winner # j.of
    /\ j.do = "pay" => rule[j.of].live

Ready(j) ==
    /\ j.do = "insertTrip" => j.number \notin Issued
    /\ ReadyOnRecord(j)
    /\ ReadyOnRule(j)

OneBusy == \A g, h \in Handlers : job[g] # Idle /\ job[h] # Idle => g = h

Serial == SerialTables /\ OneBusy /\ \A h \in Handlers : Ready(job[h])

Inv ==
    /\ TablesOK
    /\ job \in [Handlers -> Job]
    /\ \A h \in Handlers : Good(job[h])
    /\ overlapped \in BOOLEAN
    /\ ~ overlapped => Serial

\* No step takes a row away, and a number issued comes with a trip.
RowsStay ==
    /\ \A t \in Trips : trip[t] # None => trip'[t] # None
    /\ \A n \in Names : naming[n] # None => naming'[n] # None
    /\ \A r \in Rules : rule[r] # None => rule'[r] # None
    /\ Cardinality(Exists(trip)') >= Cardinality(Exists(trip)) + (IF Issued' = Issued THEN 0 ELSE 1)

Alone(h) == \A g \in Handlers \ {h} : job[g] = Idle

Keeps(h) ==
    /\ TablesOK' /\ RowsStay /\ UNCHANGED still
    /\ overlapped' \in BOOLEAN
    /\ ~ overlapped' => ~ overlapped /\ Alone(h)
    /\ \E j : /\ Good(j)'
              /\ job' = [job EXCEPT ![h] = j]
              /\ ~ overlapped' => SerialTables' /\ Ready(j)'

-----------------------------------------------------------------------------
(* Finite sets: what is least or best in them is there. *)

LEMMA HighestIsThere ==
    ASSUME NEW S \in SUBSET Nat, IsFiniteSet(S), S # {}
    PROVE  Max(S) \in S /\ \A n \in S : n <= Max(S)
<1> DEFINE Bad == {T \in SUBSET S : T # {} /\ ~ \E m \in T : \A n \in T : m >= n}
<1>1. Bad = {}
  <2> SUFFICES ASSUME Bad # {} PROVE FALSE
    OBVIOUS
  <2>1. \A T \in Bad : IsFiniteSet(T)
    BY FS_Subset
  <2>2. PICK T \in Bad : \A x \in T : T \ {x} \notin Bad
    BY <2>1, SmallestSet
  <2>3. PICK x \in T : TRUE
    OBVIOUS
  <2>4. CASE T \ {x} = {}
    BY <2>3, <2>4
  <2>5. CASE T \ {x} # {}
    <3>1. PICK m \in T \ {x} : \A n \in T \ {x} : m >= n
      BY <2>2, <2>3, <2>5
    <3>2. x >= m \/ m >= x
      BY <3>1
    <3>3. \A n \in T : m >= n \/ x >= n
      BY <3>1
    <3>4. CASE m >= x
      BY <3>1, <3>4
    <3>5. CASE x >= m
      BY <3>1, <3>5
    <3> QED BY <3>2, <3>4, <3>5
  <2> QED BY <2>4, <2>5
<1>2. \E m \in S : \A n \in S : m >= n
  BY <1>1
<1> QED BY <1>2 DEF Max

\* compareRules is total and transitive, so some rule of a finite number is best.
LEMMA NotWorseOrders ==
    /\ \A a, b \in RuleForm : NotWorse(a, b) \/ NotWorse(b, a)
    /\ \A a, b, c \in RuleForm : NotWorse(a, b) /\ NotWorse(b, c) => NotWorse(a, c)
    /\ \A a \in RuleForm : NotWorse(a, a)
<1>1. \A a \in RuleForm : Specificity(a) \in Int /\ a.priority \in Int /\ a.from \in Int
  BY DaysAssumption DEF RuleForm, Specificity, Day
<1> HIDE DEF Specificity
<1> QED BY <1>1 DEF NotWorse

LEMMA BestIsThere ==
    ASSUME NEW D, IsFiniteSet(D), D # {}, NEW form \in [D -> RuleForm]
    PROVE  Best(form) \in D
<1> DEFINE Bad == {T \in SUBSET D : T # {} /\ ~ \E r \in T : \A q \in T : NotWorse(form[r], form[q])}
<1>1. Bad = {}
  <2> SUFFICES ASSUME Bad # {} PROVE FALSE
    OBVIOUS
  <2>1. \A T \in Bad : IsFiniteSet(T)
    BY FS_Subset
  <2>2. PICK T \in Bad : \A x \in T : T \ {x} \notin Bad
    BY <2>1, SmallestSet
  <2>3. PICK x \in T : TRUE
    OBVIOUS
  <2>4. CASE T \ {x} = {}
    BY <2>3, <2>4, NotWorseOrders
  <2>5. CASE T \ {x} # {}
    <3>1. PICK m \in T \ {x} : \A n \in T \ {x} : NotWorse(form[m], form[n])
      BY <2>2, <2>3, <2>5
    <3>2. \A n \in T : form[n] \in RuleForm
      OBVIOUS
    <3>3. NotWorse(form[x], form[m]) \/ NotWorse(form[m], form[x])
      BY <3>1, <3>2, NotWorseOrders
    <3>4. CASE NotWorse(form[m], form[x])
      BY <3>1, <3>4
    <3>5. CASE NotWorse(form[x], form[m])
      <4>1. \A n \in T : NotWorse(form[x], form[n])
        BY <3>1, <3>2, <3>5, NotWorseOrders
      <4> QED BY <4>1
    <3> QED BY <3>3, <3>4, <3>5
  <2> QED BY <2>4, <2>5
<1>2. \E r \in D : \A q \in D : NotWorse(form[r], form[q])
  BY <1>1
<1> QED BY <1>2 DEF Best

-----------------------------------------------------------------------------
(* Handlers. *)

LEMMA JobShapes ==
    ASSUME NEW j \in Job
    PROVE  /\ j.do = "readNumbers" => j.attempt \in 1 .. Attempts /\ j.seen \in Nat
           /\ j.do = "insertTrip" =>
                 j.attempt \in 1 .. Attempts /\ j.seen \in Nat /\ j.number \in Nat \ {0}
           /\ j.do = "removeTrip" => j.of \in Trips
           /\ j.do = "insertNaming" => j.from \in UNION {NamedBy[e] : e \in Entity}
           /\ j.do = "removeNaming" => j.of \in Names
           /\ j.do = "patchRecord" => j.active \in BOOLEAN \cup {None}
           /\ j.do = "count" =>
                 j.left \subseteq UNION {Probes[e] : e \in Entity} /\ j.found \in BOOLEAN
           /\ j.do = "createRule" => j.form \in RuleForms
           /\ j.do = "patchRule" => j.of \in Rules /\ j.form \in RuleForms /\ j.active \in BOOLEAN
           /\ j.do \in OnRule => j.of \in Rules
           /\ j.do = "survivors" =>
                 /\ j.role \in CrewRole /\ j.next \in RuleWrite \cup RuleRemoval
                 /\ j.next.of \in Rules /\ j.next.do \in OnRule \ {"pay"}
<1>1. CASE j \in BookingJob
  BY <1>1 DEF BookingJob, OnRule
<1>2. CASE j \in RecordJob
  BY <1>2 DEF RecordJob, OnRule
<1>3. CASE j \in RuleJob
  BY <1>3 DEF RuleJob, RuleWrite, RuleRemoval, OnRule
<1>4. CASE j = Idle
  BY <1>4 DEF Idle, OnRule
<1> QED BY <1>1, <1>2, <1>3, <1>4 DEF Job

LEMMA NotIdle == ASSUME NEW h, job[h].do # "idle" PROVE job[h] # Idle
  BY DEF Idle

LEMMA RestingIsReady == Good(Idle) /\ Ready(Idle) /\ Good(Idle)' /\ Ready(Idle)'
  BY DEF Good, Ready, ReadyOnRecord, ReadyOnRule, Idle, Job, OnRule

LEMMA SerialIsAlone ==
    ASSUME Inv, NEW h \in Handlers, job[h] # Idle, ~ overlapped
    PROVE  Alone(h) /\ SerialTables /\ Ready(job[h])
  BY DEF Inv, Serial, OneBusy, Alone

LEMMA TripsCount ==
    ASSUME TablesOK
    PROVE  Cardinality(Exists(trip)) \in Nat
  BY FS_CardinalityType DEF TablesOK, NumbersOK

LEMMA GoodStays ==
    ASSUME TablesOK, TablesOK', RowsStay, UNCHANGED still, NEW j, Good(j)
    PROVE  Good(j)'
<1>1. /\ Cardinality(Exists(trip)) \in Nat /\ Cardinality(Exists(trip)') \in Nat
      /\ entity' = entity
  <2>1. Cardinality(Exists(trip)') \in Nat
    BY FS_CardinalityType DEF TablesOK, NumbersOK
  <2> QED BY <2>1, TripsCount DEF still
<1>2. j \in Job
  BY DEF Good
<1>3. j.do \in {"readNumbers", "insertTrip"} => j.seen \in Nat /\ j.attempt \in Int
  BY <1>2, JobShapes
<1>4. j.do \in {"readNumbers", "insertTrip"} =>
         Cardinality(Exists(trip)') >= j.seen + j.attempt - 1
  BY <1>1, <1>3 DEF Good, RowsStay
<1>5. j.do = "insertTrip" /\ j.number \in Issued' =>
         Cardinality(Exists(trip)') >= j.seen + j.attempt
  <2> SUFFICES ASSUME j.do = "insertTrip", j.number \in Issued'
               PROVE  Cardinality(Exists(trip)') >= j.seen + j.attempt
    OBVIOUS
  <2>1. CASE Issued' = Issued
    BY <1>1, <1>3, <2>1 DEF Good, RowsStay
  <2>2. CASE Issued' # Issued
    BY <1>1, <1>3, <2>2 DEF Good, RowsStay
  <2> QED BY <2>1, <2>2
<1>6. /\ j.do = "removeTrip" => trip'[j.of] # None
      /\ j.do = "removeNaming" => naming'[j.of] # None
      /\ j.do \in OnRule => rule'[j.of] # None
      /\ j.do = "survivors" => rule'[j.next.of] # None
  BY <1>2, JobShapes DEF Good, RowsStay
<1> QED BY <1>1, <1>2, <1>4, <1>5, <1>6 DEF Good

LEMMA KeepsKeepsInv ==
    ASSUME Inv, NEW h \in Handlers, Keeps(h)
    PROVE  Inv'
<1>1. PICK j : /\ Good(j)' /\ job' = [job EXCEPT ![h] = j]
               /\ ~ overlapped' => SerialTables' /\ Ready(j)'
  BY DEF Keeps
<1>2. /\ TablesOK' /\ RowsStay /\ UNCHANGED still /\ overlapped' \in BOOLEAN
      /\ ~ overlapped' => ~ overlapped /\ Alone(h)
  BY DEF Keeps
<1>3. \A k \in Handlers : job'[k] = IF k = h THEN j ELSE job[k]
  BY <1>1 DEF Inv
<1>4. j \in Job
  BY <1>1 DEF Good
<1>5. job' \in [Handlers -> Job]
  BY <1>1, <1>4 DEF Inv
<1>6. ASSUME NEW k \in Handlers PROVE Good(job[k])'
  <2>1. CASE k = h
    BY <1>1, <1>3, <2>1
  <2>2. CASE k # h
    <3>1. PICK a : a = job[k]
      OBVIOUS
    <3>2. Good(a)'
      BY <1>2, <3>1, GoodStays DEF Inv
    <3>3. job'[k] = a
      BY <1>3, <2>2, <3>1
    <3> QED BY <3>2, <3>3
  <2> QED BY <2>1, <2>2
<1>7. ASSUME ~ overlapped' PROVE Serial'
  <2>1. \A k \in Handlers : job'[k] = IF k = h THEN j ELSE Idle
    BY <1>2, <1>3, <1>7 DEF Alone
  <2>2. ASSUME NEW k \in Handlers PROVE Ready(job[k])'
    <3>1. CASE k = h
      <4>1. job'[k] = j
        BY <2>1, <3>1
      <4> QED BY <1>1, <1>7, <4>1
    <3>2. CASE k # h
      <4>1. job'[k] = Idle
        BY <2>1, <3>2
      <4> QED BY <4>1, RestingIsReady
    <3> QED BY <3>1, <3>2
  <2>3. OneBusy'
    BY <2>1 DEF OneBusy
  <2> QED BY <1>1, <1>7, <2>2, <2>3 DEF Serial
<1> QED BY <1>2, <1>5, <1>6, <1>7 DEF Inv

-----------------------------------------------------------------------------
(* Steps that only read. *)

LEMMA SameTables ==
    ASSUME UNCHANGED <<still, tables>>
    PROVE  /\ TablesOK' <=> TablesOK
           /\ SerialTables' <=> SerialTables
           /\ Exists(trip)' = Exists(trip) /\ Issued' = Issued
           /\ \A j : (Good(j)' <=> Good(j)) /\ (Ready(j)' <=> Ready(j))
<1>1. /\ Exists(trip)' = Exists(trip) /\ Live(trip)' = Live(trip) /\ Issued' = Issued
      /\ Exists(naming)' = Exists(naming) /\ Live(naming)' = Live(naming)
      /\ Exists(rule)' = Exists(rule) /\ RecordIsLive' = RecordIsLive
      /\ \A r, role : Survivors(r, role)' = Survivors(r, role)
      /\ \A table : NamedFrom(table)' = NamedFrom(table)
      /\ \A r : Replaced(r)' = Replaced(r)
  BY DEF tables, Exists, Live, Issued, RecordIsLive, Survivors, ActiveRules, NamedFrom, Replaced
<1>2. TablesOK' <=> TablesOK
  BY <1>1 DEF still, tables, TablesOK, NumbersOK, RecordsOK, RulesOK, NoNameDangles
<1>3. SerialTables' <=> SerialTables
  BY <1>1 DEF still, tables, SerialTables, Unnamed
<1>4. \A j : Good(j)' <=> Good(j)
  BY <1>1 DEF still, tables, Good
<1>5. \A j : Ready(j)' <=> Ready(j)
  BY <1>1 DEF still, tables, Ready, ReadyOnRecord, ReadyOnRule, Unnamed
<1> QED BY <1>1, <1>2, <1>3, <1>4, <1>5

LEMMA ReadsKeep ==
    ASSUME Inv, NEW h \in Handlers, NEW j, Good(j), UNCHANGED <<still, tables>>,
           job' = [job EXCEPT ![h] = j], overlapped' \in BOOLEAN,
           ~ overlapped' => ~ overlapped /\ Alone(h) /\ Ready(j)
    PROVE  Keeps(h)
<1>1. TablesOK' /\ RowsStay
  <2>1. Cardinality(Exists(trip)) \in Nat
    BY TripsCount DEF Inv
  <2> QED BY <2>1, SameTables DEF Inv, RowsStay, tables
<1>2. ~ overlapped' => SerialTables'
  BY SameTables DEF Inv, Serial
<1> QED BY <1>1, <1>2, SameTables DEF Keeps

LEMMA BeginKeeps ==
    ASSUME Inv, NEW h \in Handlers, NEW j, Good(j), Begin(h, j),
           SerialTables => Ready(j)
    PROVE  Keeps(h)
<1>1. /\ UNCHANGED <<still, tables>> /\ job' = [job EXCEPT ![h] = j]
      /\ overlapped' = (overlapped \/ \E g \in Handlers \ {h} : job[g] # Idle)
  BY DEF Begin
<1>2. ~ overlapped' => ~ overlapped /\ Alone(h) /\ SerialTables
  BY <1>1 DEF Inv, Serial, Alone
<1>3. overlapped' \in BOOLEAN
  BY <1>1 DEF Inv
<1> QED BY <1>1, <1>2, <1>3, ReadsKeep

LEMMA GoOnKeeps ==
    ASSUME Inv, NEW h \in Handlers, NEW j, Good(j), GoOn(h, j), job[h].do # "idle",
           Ready(job[h]) => Ready(j)
    PROVE  Keeps(h)
<1>1. /\ UNCHANGED <<still, tables>> /\ job' = [job EXCEPT ![h] = j]
      /\ overlapped' = overlapped
  BY DEF GoOn
<1>2. ~ overlapped => Alone(h) /\ Ready(job[h])
  BY NotIdle, SerialIsAlone
<1> QED BY <1>1, <1>2, ReadsKeep DEF Inv

LEMMA RefuseKeeps ==
    ASSUME Inv, NEW h \in Handlers, Refuse(h), job[h].do # "idle"
    PROVE  Keeps(h)
<1>1. /\ UNCHANGED <<still, tables>> /\ job' = [job EXCEPT ![h] = Idle]
      /\ overlapped' = overlapped
  BY DEF Refuse, Done
<1>2. ~ overlapped => Alone(h)
  BY NotIdle, SerialIsAlone
<1> QED BY <1>1, <1>2, ReadsKeep, RestingIsReady DEF Inv

-----------------------------------------------------------------------------
(* Bookings. *)

LEMMA NumbersIssued ==
    ASSUME TablesOK
    PROVE  Issued \subseteq Nat \ {0} /\ IsFiniteSet(Issued)
<1>1. \A t \in Exists(trip) : trip[t] \in TripRow
  BY DEF TablesOK, NumbersOK, Exists
<1>2. Issued \subseteq Nat \ {0}
  BY <1>1 DEF Issued, TripRow
<1>3. [t \in Exists(trip) |-> trip[t].number] \in Surjection(Exists(trip), Issued)
  BY DEF Issued, Surjection
<1>4. IsFiniteSet(Issued)
  BY <1>3, FS_Surjection DEF TablesOK, NumbersOK
<1> QED BY <1>2, <1>4

LEMMA NextNumberIsNew ==
    ASSUME TablesOK
    PROVE  Highest(Issued) + 1 \in Nat \ {0} /\ Highest(Issued) + 1 \notin Issued
<1>1. Issued \in SUBSET Nat /\ IsFiniteSet(Issued)
  BY NumbersIssued
<1>2. CASE Issued = {}
  BY <1>2 DEF Highest
<1>3. CASE Issued # {}
  <2>1. PICK m : m = Max(Issued)
    OBVIOUS
  <2>2. m \in Issued /\ \A n \in Issued : n <= m
    BY <1>1, <1>3, <2>1, HighestIsThere
  <2>3. Highest(Issued) = m
    BY <1>3, <2>1 DEF Highest
  <2>4. m \in Nat
    BY <1>1, <2>2
  <2>5. m + 1 \notin Issued
    BY <2>2, <2>4
  <2> QED BY <2>3, <2>4, <2>5
<1> QED BY <1>2, <1>3

LEMMA TakenIsIssued ==
    ASSUME NEW n, ~ NumberFree(n)
    PROVE  n \in Issued
  BY DEF NumberFree, Issued, Live

\* A trip inserted or removed keeps its tables, provided it has a number of its own.
LEMMA TripWritten ==
    ASSUME Inv, NEW h \in Handlers, NEW t \in Trips, NEW row \in TripRow,
           trip' = [trip EXCEPT ![t] = row], UNCHANGED <<record, naming, rule, winner>>,
           Done(h), job[h].do # "idle",
           trip[t] # None => row.number = trip[t].number,
           row.live => \A u \in Live(trip) : trip[u].number = row.number => u = t,
           trip[t] = None /\ Ready(job[h]) => row.number \notin Issued
    PROVE  Keeps(h)
<1>1. /\ job' = [job EXCEPT ![h] = Idle] /\ UNCHANGED still /\ overlapped' = overlapped
      /\ TablesOK
  BY DEF Done, Inv
<1>2. /\ trip \in [Trips -> TripRow \cup {None}]
      /\ trip' \in [Trips -> TripRow \cup {None}]
      /\ \A u \in Trips : trip'[u] = IF u = t THEN row ELSE trip[u]
      /\ row # None
  BY <1>1, NoneIsNoRow DEF TablesOK, NumbersOK
<1>3. Exists(trip)' = Exists(trip) \cup {t}
  BY <1>2 DEF Exists
<1>4. IsFiniteSet(Exists(trip)) /\ Cardinality(Exists(trip)) \in Nat
  BY <1>1, TripsCount DEF TablesOK, NumbersOK
<1>5. /\ IsFiniteSet(Exists(trip)')
      /\ Cardinality(Exists(trip)') = Cardinality(Exists(trip)) + (IF trip[t] = None THEN 1 ELSE 0)
  <2>1. t \in Exists(trip) <=> trip[t] # None
    BY <1>2 DEF Exists
  <2>2. /\ IsFiniteSet(Exists(trip) \cup {t})
        /\ Cardinality(Exists(trip) \cup {t}) =
              IF t \in Exists(trip) THEN Cardinality(Exists(trip)) ELSE Cardinality(Exists(trip)) + 1
    BY <1>4, FS_AddElement
  <2>3. CASE trip[t] = None
    BY <1>3, <2>1, <2>2, <2>3
  <2>4. CASE trip[t] # None
    <3>1. PICK c \in Nat : c = Cardinality(Exists(trip))
      BY <1>4
    <3>2. IsFiniteSet(Exists(trip)') /\ Cardinality(Exists(trip)') = c
      BY <1>3, <2>1, <2>2, <2>4, <3>1
    <3> QED BY <2>4, <3>1, <3>2
  <2> QED BY <2>3, <2>4
<1>6. trip[t] # None => Issued' = Issued
  BY <1>2, <1>3 DEF Issued, Exists
<1>7. RowsStay
  BY <1>1, <1>2, <1>4, <1>5, <1>6 DEF RowsStay
<1>8. NumbersOK'
  <2>1. \A u \in Live(trip)' : u \in Trips /\ (u = t \/ u \in Live(trip))
    BY <1>2 DEF Live, Exists
  <2>2. \A u, v \in Live(trip)' : trip'[u].number = trip'[v].number => u = v
    <3> SUFFICES ASSUME NEW u \in Live(trip)', NEW v \in Live(trip)',
                        trip'[u].number = trip'[v].number, u # v
                 PROVE  FALSE
      OBVIOUS
    <3>1. CASE u # t /\ v # t
      BY <1>1, <1>2, <2>1, <3>1 DEF TablesOK, NumbersOK
    <3>2. CASE u = t
      BY <1>2, <2>1, <3>2 DEF Live
    <3>3. CASE v = t
      BY <1>2, <2>1, <3>3 DEF Live
    <3> QED BY <3>1, <3>2, <3>3
  <2> QED BY <1>2, <1>5, <2>2 DEF NumbersOK
<1>9. TablesOK'
  <2>1. RecordsOK' /\ RulesOK'
    BY <1>1 DEF TablesOK, RecordsOK, RulesOK, NoNameDangles, Exists, still
  <2> QED BY <1>1, <1>8, <2>1 DEF TablesOK, still
<1>10. ASSUME ~ overlapped' PROVE SerialTables' /\ Alone(h)
  <2>1. Alone(h) /\ SerialTables /\ Ready(job[h])
    BY <1>1, <1>10, NotIdle, SerialIsAlone
  <2>2. RecordIsLive' \/ Unnamed'
    <3>1. (RecordIsLive' <=> RecordIsLive) /\ Live(naming)' = Live(naming)
      BY <1>1 DEF RecordIsLive, Live, Exists
    <3>2. Unnamed' <=> Unnamed
      BY <1>1, <3>1 DEF Unnamed, still
    <3> QED BY <2>1, <3>1, <3>2 DEF SerialTables
  <2>3. \A u, v \in Exists(trip)' : trip'[u].number = trip'[v].number => u = v
    <3>1. \A u \in Exists(trip)' : u \in Trips /\ (u = t \/ u \in Exists(trip))
      BY <1>2, <1>3 DEF Exists
    <3>2. trip[t] = None => \A u \in Exists(trip) : trip[u].number # row.number
      BY <2>1 DEF Issued
    <3>3. trip[t] # None => t \in Exists(trip)
      BY <1>2 DEF Exists
    <3> QED BY <1>2, <2>1, <3>1, <3>2, <3>3 DEF SerialTables
  <2>4. (winner # None => rule[winner].live)'
    BY <1>1, <2>1 DEF SerialTables
  <2> QED BY <2>1, <2>2, <2>3, <2>4 DEF SerialTables
<1>11. overlapped' \in BOOLEAN
  BY <1>1 DEF Inv
<1> QED BY <1>1, <1>7, <1>9, <1>10, <1>11, RestingIsReady DEF Keeps

LEMMA BookingsKeep ==
    ASSUME Inv, NEW h \in Handlers, BookingStep(h)
    PROVE  Keeps(h)
<1>0. PICK a : a = job[h]
  OBVIOUS
<1>1. /\ a \in Job /\ Good(a) /\ TablesOK
      /\ ~ overlapped => Serial
      /\ Cardinality(Exists(trip)) \in Nat
  BY <1>0, TripsCount DEF Inv
<1>2. CASE LoadBook(h)
  <2> DEFINE j == [do |-> "readNumbers", attempt |-> 1, seen |-> Cardinality(Exists(trip))]
  <2>1. Begin(h, j)
    BY <1>2 DEF LoadBook
  <2>2. j \in Job
    BY <1>1, AttemptsAssumption DEF Job, BookingJob
  <2>3. Good(j) /\ Ready(j)
    BY <1>1, <2>2 DEF Good, Ready, ReadyOnRecord, ReadyOnRule, OnRule
  <2> QED BY <2>1, <2>3, BeginKeeps
<1>3. CASE ReadNumbers(h)
  <2> DEFINE j == [do |-> "insertTrip", attempt |-> a.attempt, seen |-> a.seen,
                   number |-> Highest(Issued) + 1]
  <2>1. GoOn(h, j) /\ a.do = "readNumbers"
    BY <1>0, <1>3 DEF ReadNumbers, At
  <2>2. a.attempt \in 1 .. Attempts /\ a.seen \in Nat
    BY <1>1, <2>1, JobShapes
  <2>3. Highest(Issued) + 1 \in Nat \ {0} /\ Highest(Issued) + 1 \notin Issued
    BY <1>1, NextNumberIsNew
  <2>4. j \in Job
    BY <2>2, <2>3 DEF Job, BookingJob
  <2>5. Cardinality(Exists(trip)) >= j.seen + j.attempt - 1
    BY <1>1, <2>1 DEF Good
  <2>6. Good(j)
    BY <2>3, <2>4, <2>5 DEF Good, OnRule
  <2>7. Ready(j)
    BY <2>3 DEF Ready, ReadyOnRecord, ReadyOnRule
  <2> QED BY <1>0, <2>1, <2>6, <2>7, GoOnKeeps
<1>4. CASE RetryBooking(h)
  <2> DEFINE j == [do |-> "readNumbers", attempt |-> a.attempt + 1, seen |-> a.seen]
  <2>1. GoOn(h, j) /\ a.do = "insertTrip" /\ a.number \in Issued /\ a.attempt < Attempts
    BY <1>0, <1>4, TakenIsIssued DEF RetryBooking, At
  <2>2. a.attempt \in 1 .. Attempts /\ a.seen \in Nat
    BY <1>1, <2>1, JobShapes
  <2>3. j \in Job
    BY <2>1, <2>2, AttemptsAssumption DEF Job, BookingJob
  <2>4. Cardinality(Exists(trip)) >= a.seen + a.attempt
    BY <1>1, <2>1 DEF Good
  <2>5. Good(j) /\ Ready(j)
    BY <1>1, <2>2, <2>3, <2>4 DEF Good, Ready, ReadyOnRecord, ReadyOnRule, OnRule
  <2> QED BY <1>0, <2>1, <2>5, GoOnKeeps
<1>5. CASE TurnAway(h)
  BY <1>5, RefuseKeeps DEF TurnAway, At
<1>6. CASE RemoveTrip(h)
  <2> DEFINE row == [trip[a.of] EXCEPT !.live = FALSE]
  <2>1. /\ trip' = [trip EXCEPT ![a.of] = row] /\ Done(h)
        /\ UNCHANGED <<record, naming, rule, winner>> /\ a.do = "removeTrip"
    BY <1>0, <1>6 DEF RemoveTrip, At
  <2>2. a.of \in Trips /\ trip[a.of] # None
    BY <1>1, <2>1, JobShapes DEF Good
  <2>3. trip[a.of] \in TripRow
    BY <1>1, <2>2 DEF TablesOK, NumbersOK
  <2>4. row \in TripRow /\ row.number = trip[a.of].number /\ row.live = FALSE
    BY <2>3 DEF TripRow
  <2> HIDE DEF row
  <2> QED BY <1>0, <2>1, <2>2, <2>4, TripWritten
<1>7. ASSUME NEW t \in Trips, InsertTrip(h, t) PROVE Keeps(h)
  <2> DEFINE row == [number |-> a.number, live |-> TRUE]
  <2>1. /\ trip' = [trip EXCEPT ![t] = row] /\ Done(h)
        /\ UNCHANGED <<record, naming, rule, winner>> /\ a.do = "insertTrip"
        /\ NumberFree(a.number) /\ IsNew(trip, t)
    BY <1>0, <1>7 DEF InsertTrip, At
  <2>2. row \in TripRow
    BY <1>1, <2>1, JobShapes DEF TripRow
  <2>3. \A u \in Live(trip) : trip[u].number # row.number
    BY <2>1 DEF NumberFree
  <2>4. Ready(a) => row.number \notin Issued
    BY <2>1 DEF Ready
  <2>5. trip[t] = None
    BY <2>1 DEF IsNew, Exists
  <2> HIDE DEF row
  <2> QED BY <1>0, <2>1, <2>2, <2>3, <2>4, <2>5, TripWritten
<1>8. ASSUME NEW t \in Trips, LoadRemoveTrip(h, t) PROVE Keeps(h)
  <2> DEFINE j == [do |-> "removeTrip", of |-> t]
  <2>1. Begin(h, j) /\ trip[t] # None
    BY <1>8 DEF LoadRemoveTrip, Live, Exists
  <2>2. j \in Job
    BY DEF Job, BookingJob
  <2>3. Good(j) /\ Ready(j)
    BY <2>1, <2>2 DEF Good, Ready, ReadyOnRecord, ReadyOnRule, OnRule
  <2> QED BY <2>1, <2>3, BeginKeeps
<1> QED BY <1>2, <1>3, <1>4, <1>5, <1>6, <1>7, <1>8 DEF BookingStep

-----------------------------------------------------------------------------
(* Master data. *)

\* Of the tables that name a record, one service leaves one out.
LEMMA AllButOneAreAsked ==
    ASSUME NEW e \in Entity
    PROVE  /\ \A table \in NamedBy[e] \ Probes[e] : e = "payee" /\ table = "billable"
           /\ Probes[e] \subseteq NamedBy[e]
           /\ NamedBy[e] \subseteq UNION {NamedBy[f] : f \in Entity}
           /\ Probes[e] \subseteq UNION {Probes[f] : f \in Entity}
<1>1. /\ \A table \in NamedBy[e] \ Probes[e] : e = "payee" /\ table = "billable"
      /\ Probes[e] \subseteq NamedBy[e]
  BY DEF Entity, NamedBy, Probes, ClientProbes, RouteProbes, TruckProbes, ThirdPartyProbes,
         PayeeProbes, CategoryProbes, StaffProbes
<1>2. /\ NamedBy[e] \subseteq UNION {NamedBy[f] : f \in Entity}
      /\ Probes[e] \subseteq UNION {Probes[f] : f \in Entity}
  OBVIOUS
<1> QED BY <1>1, <1>2

LEMMA AskedIsUnnamed ==
    ASSUME TablesOK, \A table \in Probes[entity] : ~ NamedFrom(table)
    PROVE  Unnamed
<1> SUFFICES ASSUME NEW n \in Live(naming)
             PROVE  entity = "payee" /\ naming[n].from = "billable"
  BY DEF Unnamed
<1>1. naming[n].from \in NamedBy[entity]
  BY DEF TablesOK, RecordsOK, Live
<1>2. naming[n].from \notin Probes[entity]
  BY DEF NamedFrom
<1> QED BY <1>1, <1>2, AllButOneAreAsked DEF TablesOK

LEMMA RecordWritten ==
    ASSUME Inv, NEW h \in Handlers, UNCHANGED <<trip, rule, winner>>, Done(h),
           job[h].do # "idle", RecordsOK',
           \A n \in Names : naming[n] # None => naming'[n] # None,
           Ready(job[h]) /\ (RecordIsLive \/ Unnamed) => RecordIsLive' \/ Unnamed'
    PROVE  Keeps(h)
<1>1. /\ job' = [job EXCEPT ![h] = Idle] /\ UNCHANGED still /\ overlapped' = overlapped
      /\ TablesOK
  BY DEF Done, Inv
<1>2. Exists(trip)' = Exists(trip) /\ Issued' = Issued
  BY DEF Exists, Issued
<1>3. RowsStay
  BY <1>1, <1>2, TripsCount DEF RowsStay
<1>4. TablesOK'
  <2>1. NumbersOK' /\ RulesOK'
    BY <1>1 DEF TablesOK, NumbersOK, RulesOK, Exists, Live
  <2> QED BY <1>1, <2>1 DEF TablesOK, still
<1>5. ASSUME ~ overlapped' PROVE SerialTables' /\ Alone(h)
  <2>1. Alone(h) /\ SerialTables /\ Ready(job[h])
    BY <1>1, <1>5, NotIdle, SerialIsAlone
  <2>2. RecordIsLive' \/ Unnamed'
    BY <2>1 DEF SerialTables
  <2> QED BY <1>2, <2>1, <2>2 DEF SerialTables
<1>6. overlapped' \in BOOLEAN
  BY <1>1 DEF Inv
<1> QED BY <1>1, <1>3, <1>4, <1>5, <1>6, RestingIsReady DEF Keeps

\* A row inserted or removed names a record that is there.
LEMMA NamingWritten ==
    ASSUME Inv, NEW h \in Handlers, NEW n \in Names, NEW row \in NamingRow,
           naming' = [naming EXCEPT ![n] = row], UNCHANGED <<trip, record, rule, winner>>,
           Done(h), job[h].do # "idle", record # None, row.from \in NamedBy[entity],
           Ready(job[h]) => RecordIsLive \/ (naming[n] # None /\ row.live = FALSE)
    PROVE  Keeps(h)
<1>1. /\ RecordsOK /\ entity' = entity
  BY DEF Done, still, Inv, TablesOK
<1>2. /\ naming \in [Names -> NamingRow \cup {None}]
      /\ naming' \in [Names -> NamingRow \cup {None}]
      /\ \A m \in Names : naming'[m] = IF m = n THEN row ELSE naming[m]
      /\ row # None
  BY <1>1, NoneIsNoRow DEF RecordsOK
<1>3. \A m \in Exists(naming)' : m \in Names /\ (m = n \/ m \in Exists(naming))
  BY <1>2 DEF Exists
<1>4. RecordsOK'
  BY <1>1, <1>2, <1>3 DEF RecordsOK, NoNameDangles
<1>5. \A m \in Names : naming[m] # None => naming'[m] # None
  BY <1>2
<1>6. ASSUME Ready(job[h]), RecordIsLive \/ Unnamed PROVE RecordIsLive' \/ Unnamed'
  <2>1. CASE RecordIsLive
    BY <2>1 DEF RecordIsLive
  <2>2. CASE ~ RecordIsLive
    <3>1. row.live = FALSE
      BY <1>6, <2>2
    <3>2. \A m \in Live(naming)' : m \in Live(naming) /\ naming'[m] = naming[m]
      BY <1>2, <3>1 DEF Live, Exists
    <3> QED BY <1>1, <1>6, <2>2, <3>2 DEF Unnamed
  <2> QED BY <2>1, <2>2
<1> QED BY <1>4, <1>5, <1>6, RecordWritten

\* The record is edited or removed: what is removed nobody names.
LEMMA RecordPut ==
    ASSUME Inv, NEW h \in Handlers, NEW row \in RecordRow \cup {None},
           record' = row, UNCHANGED <<trip, naming, rule, winner>>,
           Done(h), job[h].do # "idle",
           row = None => entity \in Deletable /\ Exists(naming) = {},
           Ready(job[h]) => (row # None /\ row.live) \/ Unnamed
    PROVE  Keeps(h)
<1>1. RecordsOK /\ entity' = entity
  BY DEF Done, still, Inv, TablesOK
<1>2. /\ Exists(naming)' = Exists(naming) /\ Live(naming)' = Live(naming)
      /\ NoNameDangles'
  BY <1>1 DEF Exists, Live, NoNameDangles
<1>3. RecordsOK'
  BY <1>1, <1>2 DEF RecordsOK
<1>4. Ready(job[h]) => RecordIsLive' \/ Unnamed'
  BY <1>1, <1>2 DEF RecordIsLive, Unnamed
<1> QED BY <1>3, <1>4, RecordWritten

LEMMA NamingsKeep ==
    ASSUME Inv, NEW h \in Handlers,
           \/ \E table \in UNION {NamedBy[e] : e \in Entity} : LoadName(h, table)
           \/ \E n \in Names : InsertNaming(h, n) \/ LoadRemoveNaming(h, n)
           \/ InsertNamingRefused(h) \/ RemoveNaming(h)
    PROVE  Keeps(h)
<1>0. PICK a : a = job[h]
  OBVIOUS
<1>1. /\ a \in Job /\ Good(a) /\ TablesOK /\ entity \in Entity
  BY <1>0 DEF Inv, TablesOK
<1>2. ASSUME NEW table \in UNION {NamedBy[e] : e \in Entity}, LoadName(h, table) PROVE Keeps(h)
  <2> DEFINE j == [do |-> "insertNaming", from |-> table]
  <2>1. Begin(h, j) /\ table \in NamedBy[entity] /\ RecordIsLive
    BY <1>2 DEF LoadName
  <2>2. j \in Job
    BY DEF Job, RecordJob
  <2>3. Good(j) /\ Ready(j)
    BY <2>1, <2>2 DEF Good, Ready, ReadyOnRecord, ReadyOnRule, OnRule
  <2> QED BY <2>1, <2>3, BeginKeeps
<1>3. ASSUME NEW n \in Names, InsertNaming(h, n) PROVE Keeps(h)
  <2> DEFINE row == [from |-> a.from, live |-> TRUE]
  <2>1. /\ naming' = [naming EXCEPT ![n] = row] /\ Done(h)
        /\ UNCHANGED <<trip, record, rule, winner>> /\ a.do = "insertNaming"
        /\ record # None
    BY <1>0, <1>3 DEF InsertNaming, At, KeyHolds
  <2>2. row \in NamingRow /\ row.from \in NamedBy[entity]
    BY <1>1, <2>1, JobShapes DEF NamingRow, Good
  <2>3. Ready(a) => RecordIsLive
    BY <2>1 DEF Ready, ReadyOnRecord
  <2> HIDE DEF row
  <2> QED BY <1>0, <2>1, <2>2, <2>3, NamingWritten
<1>4. ASSUME NEW n \in Names, LoadRemoveNaming(h, n) PROVE Keeps(h)
  <2> DEFINE j == [do |-> "removeNaming", of |-> n]
  <2>1. Begin(h, j) /\ naming[n] # None
    BY <1>4 DEF LoadRemoveNaming, Live, Exists
  <2>2. j \in Job
    BY DEF Job, RecordJob
  <2>3. Good(j) /\ Ready(j)
    BY <2>1, <2>2 DEF Good, Ready, ReadyOnRecord, ReadyOnRule, OnRule
  <2> QED BY <2>1, <2>3, BeginKeeps
<1>5. CASE InsertNamingRefused(h)
  BY <1>5, RefuseKeeps DEF InsertNamingRefused, At
<1>6. CASE RemoveNaming(h)
  <2> DEFINE row == [naming[a.of] EXCEPT !.live = FALSE]
  <2>1. /\ naming' = [naming EXCEPT ![a.of] = row] /\ Done(h)
        /\ UNCHANGED <<trip, record, rule, winner>> /\ a.do = "removeNaming"
    BY <1>0, <1>6 DEF RemoveNaming, At
  <2>2. a.of \in Names /\ naming[a.of] # None
    BY <1>1, <2>1, JobShapes DEF Good
  <2>3. naming[a.of] \in NamingRow /\ a.of \in Exists(naming)
    BY <1>1, <2>2 DEF TablesOK, RecordsOK, Exists
  <2>4. naming[a.of].from \in NamedBy[entity] /\ record # None
    BY <1>1, <2>3 DEF TablesOK, RecordsOK, NoNameDangles
  <2>5. row \in NamingRow /\ row.from = naming[a.of].from /\ row.live = FALSE
    BY <2>3 DEF NamingRow
  <2> HIDE DEF row
  <2> QED BY <1>0, <2>1, <2>2, <2>4, <2>5, NamingWritten
<1> QED BY <1>2, <1>3, <1>4, <1>5, <1>6

LEMMA RecordsKeep ==
    ASSUME Inv, NEW h \in Handlers,
           \/ \E table \in UNION {NamedBy[e] : e \in Entity} : Count(h, table)
           \/ \E active \in BOOLEAN \cup {None} : LoadPatchRecord(h, active)
           \/ PatchRecord(h) \/ LoadRemoveRecord(h) \/ Decide(h) \/ DeactivateRecord(h)
           \/ SoftDeleteRecord(h) \/ HardDeleteRecord(h) \/ WriteRecordRefused(h)
    PROVE  Keeps(h)
<1>0. PICK a : a = job[h]
  OBVIOUS
<1>1. /\ a \in Job /\ Good(a) /\ TablesOK /\ entity \in Entity
      /\ record \in RecordRow \cup {None}
      /\ record = None => entity \in Deletable
  BY <1>0 DEF Inv, TablesOK, RecordsOK
<1>2. ASSUME NEW table \in UNION {NamedBy[e] : e \in Entity}, Count(h, table) PROVE Keeps(h)
  <2> DEFINE j == [do |-> "count", left |-> a.left \ {table},
                   found |-> (a.found \/ NamedFrom(table))]
  <2>1. GoOn(h, j) /\ a.do = "count" /\ table \in a.left
    BY <1>0, <1>2 DEF Count, At
  <2>2. a.left \subseteq UNION {Probes[e] : e \in Entity} /\ a.found \in BOOLEAN
    BY <1>1, <2>1, JobShapes
  <2>3. j \in Job
    BY <2>2 DEF Job, RecordJob
  <2>4. Good(j)
    BY <2>3 DEF Good, OnRule
  <2>5. Ready(a) => Ready(j)
    <3>1. Ready(a) => RecordIsLive /\ (a.found \/ \A t \in Probes[entity] \ a.left : ~ NamedFrom(t))
      BY <2>1 DEF Ready, ReadyOnRecord
    <3>2. Ready(a) => j.found \/ \A t \in Probes[entity] \ j.left : ~ NamedFrom(t)
      BY <3>1
    <3> HIDE DEF j
    <3> QED BY <3>1, <3>2 DEF Ready, ReadyOnRecord, ReadyOnRule, j
  <2> QED BY <1>0, <2>1, <2>4, <2>5, GoOnKeeps
<1>3. ASSUME NEW active \in BOOLEAN \cup {None}, LoadPatchRecord(h, active) PROVE Keeps(h)
  <2> DEFINE j == [do |-> "patchRecord", active |-> active]
  <2>1. Begin(h, j) /\ RecordIsLive
    BY <1>3 DEF LoadPatchRecord
  <2>2. j \in Job
    BY DEF Job, RecordJob
  <2>3. Good(j) /\ Ready(j)
    BY <2>1, <2>2 DEF Good, Ready, ReadyOnRecord, ReadyOnRule, OnRule
  <2> QED BY <2>1, <2>3, BeginKeeps
<1>4. CASE PatchRecord(h)
  <2> DEFINE row == [record EXCEPT !.active = ActiveAfter(a.active)]
  <2>1. /\ record' = row /\ Done(h) /\ UNCHANGED <<trip, naming, rule, winner>>
        /\ a.do = "patchRecord" /\ record # None
    BY <1>0, <1>4 DEF PatchRecord, At
  <2>2. ActiveAfter(a.active) \in BOOLEAN
    BY <1>1, <2>1, JobShapes DEF ActiveAfter, RecordRow
  <2>3. row \in RecordRow /\ row.live = record.live
    BY <1>1, <2>1, <2>2 DEF RecordRow
  <2>4. Ready(a) => row # None /\ row.live
    BY <2>1, <2>3, NoneIsNoRow DEF Ready, ReadyOnRecord, RecordIsLive
  <2> HIDE DEF row
  <2> QED BY <1>0, <2>1, <2>3, <2>4, NoneIsNoRow, RecordPut
<1>5. CASE LoadRemoveRecord(h)
  <2> DEFINE j == [do |-> "count", left |-> Probes[entity], found |-> FALSE]
  <2>1. Begin(h, j) /\ RecordIsLive
    BY <1>5 DEF LoadRemoveRecord
  <2>2. j \in Job
    BY <1>1, AllButOneAreAsked DEF Job, RecordJob
  <2>3. Good(j) /\ Ready(j)
    BY <2>1, <2>2 DEF Good, Ready, ReadyOnRecord, ReadyOnRule, OnRule
  <2> QED BY <2>1, <2>3, BeginKeeps
<1>6. CASE Decide(h)
  <2> DEFINE j == [do |-> IF a.found THEN "deactivateRecord"
                          ELSE IF entity \in Deletable THEN "hardDeleteRecord"
                          ELSE "softDeleteRecord"]
  <2>1. GoOn(h, j) /\ a.do = "count" /\ a.left = {}
    BY <1>0, <1>6 DEF Decide, At
  <2>2. j \in Job
    BY DEF Job, RecordJob
  <2>3. Good(j)
    BY <2>2 DEF Good, OnRule
  <2>4. Ready(a) => Ready(j)
    <3>1. Ready(a) => RecordIsLive /\ (a.found \/ \A t \in Probes[entity] : ~ NamedFrom(t))
      BY <2>1 DEF Ready, ReadyOnRecord
    <3>2. Ready(a) => RecordIsLive /\ (a.found \/ Unnamed)
      BY <1>1, <3>1, AskedIsUnnamed
    <3> QED BY <3>2 DEF Ready, ReadyOnRecord, ReadyOnRule
  <2> QED BY <1>0, <2>1, <2>3, <2>4, GoOnKeeps
<1>7. CASE DeactivateRecord(h)
  <2> DEFINE row == [record EXCEPT !.active = FALSE]
  <2>1. /\ record' = row /\ Done(h) /\ UNCHANGED <<trip, naming, rule, winner>>
        /\ a.do = "deactivateRecord" /\ record # None
    BY <1>0, <1>7 DEF DeactivateRecord, At
  <2>2. row \in RecordRow /\ row.live = record.live
    BY <1>1, <2>1 DEF RecordRow
  <2>3. Ready(a) => row # None /\ row.live
    BY <2>1, <2>2, NoneIsNoRow DEF Ready, ReadyOnRecord, RecordIsLive
  <2> HIDE DEF row
  <2> QED BY <1>0, <2>1, <2>2, <2>3, NoneIsNoRow, RecordPut
<1>8. CASE SoftDeleteRecord(h)
  <2> DEFINE row == [record EXCEPT !.live = FALSE]
  <2>1. /\ record' = row /\ Done(h) /\ UNCHANGED <<trip, naming, rule, winner>>
        /\ a.do = "softDeleteRecord"
    BY <1>0, <1>8 DEF SoftDeleteRecord, At
  <2>2. record # None
    BY <1>1, <2>1 DEF Good
  <2>3. row \in RecordRow
    BY <1>1, <2>2 DEF RecordRow
  <2>4. Ready(a) => Unnamed
    BY <2>1 DEF Ready, ReadyOnRecord
  <2> HIDE DEF row
  <2> QED BY <1>0, <2>1, <2>3, <2>4, NoneIsNoRow, RecordPut
<1>9. CASE HardDeleteRecord(h)
  <2>1. /\ record' = None /\ Done(h) /\ UNCHANGED <<trip, naming, rule, winner>>
        /\ a.do = "hardDeleteRecord" /\ Exists(naming) = {}
    BY <1>0, <1>9 DEF HardDeleteRecord, At
  <2>2. entity \in Deletable
    BY <1>1, <2>1 DEF Good
  <2>3. Ready(a) => Unnamed
    BY <2>1 DEF Ready, ReadyOnRecord
  <2> QED BY <1>0, <2>1, <2>2, <2>3, RecordPut
<1>10. CASE WriteRecordRefused(h)
  BY <1>10, RefuseKeeps DEF WriteRecordRefused, At
<1> QED BY <1>2, <1>3, <1>4, <1>5, <1>6, <1>7, <1>8, <1>9, <1>10

-----------------------------------------------------------------------------
(* Commission rules. *)

LEMMA RulesAreThere ==
    ASSUME TablesOK
    PROVE  /\ \A r \in Rules : rule[r] # None => rule[r] \in RuleRow /\ rule[r].form \in RuleForm
           /\ Exists(rule) = {r \in Rules : rule[r] # None}
           /\ Live(rule) = {r \in Rules : rule[r] # None /\ rule[r].live}
           /\ IsFiniteSet(Exists(rule))
<1>1. rule \in [Rules -> RuleRow \cup {None}]
  BY DEF TablesOK, RulesOK
<1>2. \A r \in Rules : rule[r] # None => rule[r] \in RuleRow /\ rule[r].form \in RuleForm
  BY <1>1, RuleFormsAssumption DEF RuleRow
<1> QED BY <1>1, <1>2 DEF TablesOK, RulesOK, Exists, Live

LEMMA ResolvedMatches ==
    ASSUME TablesOK, NEW role, NEW scope, NEW on
    PROVE  /\ Matching(role, scope, on) # {} => Resolve(role, scope, on) \in Matching(role, scope, on)
           /\ Matching(role, scope, on) = {} => Resolve(role, scope, on) = None
           /\ Matching(role, scope, on) \subseteq Live(rule) /\ Live(rule) \subseteq Rules
<1> DEFINE M == Matching(role, scope, on)
           form == [r \in M |-> rule[r].form]
<1>1. M \subseteq Live(rule) /\ Live(rule) \subseteq Exists(rule) /\ Live(rule) \subseteq Rules
  BY RulesAreThere DEF Matching, ActiveRules, Live
<1>2. IsFiniteSet(M)
  <2>1. M \in SUBSET Exists(rule)
    BY <1>1
  <2> HIDE DEF M
  <2> QED BY <2>1, RulesAreThere, FS_Subset
<1>3. form \in [M -> RuleForm]
  BY <1>1, RulesAreThere
<1>4. M # {} => Best(form) \in M
  <2> HIDE DEF M, form
  <2> QED BY <1>2, <1>3, BestIsThere
<1>5. /\ M # {} => Resolve(role, scope, on) = Best(form)
      /\ M = {} => Resolve(role, scope, on) = None
  BY DEF Resolve
<1> QED BY <1>1, <1>4, <1>5

LEMMA RuleWritten ==
    ASSUME Inv, NEW h \in Handlers, NEW r \in Rules, NEW row \in RuleRow,
           rule' = [rule EXCEPT ![r] = row], UNCHANGED <<trip, record, naming, winner>>,
           Done(h), job[h].do # "idle",
           SerialTables /\ Ready(job[h]) => row.live \/ winner # r
    PROVE  Keeps(h)
<1>1. /\ job' = [job EXCEPT ![h] = Idle] /\ UNCHANGED still /\ overlapped' = overlapped
      /\ TablesOK
  BY DEF Done, Inv
<1>2. /\ rule \in [Rules -> RuleRow \cup {None}]
      /\ rule' \in [Rules -> RuleRow \cup {None}]
      /\ \A q \in Rules : rule'[q] = IF q = r THEN row ELSE rule[q]
      /\ row # None
  BY <1>1, NoneIsNoRow DEF TablesOK, RulesOK
<1>3. Exists(rule)' = Exists(rule) \cup {r}
  BY <1>2 DEF Exists
<1>4. IsFiniteSet(Exists(rule)')
  <2>1. IsFiniteSet(Exists(rule) \cup {r})
    BY <1>1, FS_AddElement DEF TablesOK, RulesOK
  <2> QED BY <1>3, <2>1
<1>5. RulesOK'
  BY <1>1, <1>2, <1>3, <1>4 DEF TablesOK, RulesOK
<1>6. Exists(trip)' = Exists(trip) /\ Issued' = Issued
  BY DEF Exists, Issued
<1>7. RowsStay
  BY <1>1, <1>2, <1>6, TripsCount DEF RowsStay
<1>8. TablesOK'
  <2>1. NumbersOK' /\ RecordsOK'
    BY <1>1 DEF TablesOK, NumbersOK, RecordsOK, NoNameDangles, Exists, Live, still
  <2> QED BY <1>1, <1>5, <2>1 DEF TablesOK, still
<1>9. ASSUME ~ overlapped' PROVE SerialTables' /\ Alone(h)
  <2>1. Alone(h) /\ SerialTables /\ Ready(job[h])
    BY <1>1, <1>9, NotIdle, SerialIsAlone
  <2>2. RecordIsLive' \/ Unnamed'
    <3>1. (RecordIsLive' <=> RecordIsLive) /\ Live(naming)' = Live(naming)
      BY <1>1 DEF RecordIsLive, Live, Exists
    <3>2. Unnamed' <=> Unnamed
      BY <1>1, <3>1 DEF Unnamed, still
    <3> QED BY <2>1, <3>1, <3>2 DEF SerialTables
  <2>3. (winner # None => rule[winner].live)'
    <3>1. winner # None => winner \in Rules
      BY <1>1, RulesAreThere DEF TablesOK, RulesOK
    <3> QED BY <1>1, <1>2, <2>1, <3>1 DEF SerialTables
  <2> QED BY <1>6, <2>1, <2>2, <2>3 DEF SerialTables
<1>10. overlapped' \in BOOLEAN
  BY <1>1 DEF Inv
<1> QED BY <1>1, <1>7, <1>8, <1>9, <1>10, RestingIsReady DEF Keeps

LEMMA PayKeeps ==
    ASSUME Inv, NEW h \in Handlers, Pay(h)
    PROVE  Keeps(h)
<1>0. PICK a : a = job[h]
  OBVIOUS
<1>1. /\ job' = [job EXCEPT ![h] = Idle] /\ UNCHANGED still /\ overlapped' = overlapped
      /\ UNCHANGED <<trip, record, naming, rule>> /\ winner' = a.of /\ a.do = "pay"
      /\ TablesOK /\ a \in Job /\ Good(a)
  BY <1>0 DEF Pay, Done, At, Inv
<1>2. a.of \in Rules /\ rule[a.of] # None
  BY <1>1, JobShapes DEF Good, OnRule
<1>3. a.of \in Exists(rule) /\ a.of # None
  BY <1>1, <1>2, RulesAreThere, NoneAssumption
<1>4. Exists(trip)' = Exists(trip) /\ Issued' = Issued /\ Exists(rule)' = Exists(rule)
  BY <1>1 DEF Exists, Issued
<1>5. RowsStay
  BY <1>1, <1>4, TripsCount DEF RowsStay
<1>6. TablesOK'
  <2>1. NumbersOK' /\ RecordsOK'
    BY <1>1 DEF TablesOK, NumbersOK, RecordsOK, NoNameDangles, Exists, Live, still
  <2>2. RulesOK'
    BY <1>1, <1>3, <1>4 DEF TablesOK, RulesOK
  <2> QED BY <1>1, <2>1, <2>2 DEF TablesOK, still
<1>7. ASSUME ~ overlapped' PROVE SerialTables' /\ Alone(h)
  <2>1. Alone(h) /\ SerialTables /\ Ready(a)
    BY <1>0, <1>1, <1>7, NotIdle, SerialIsAlone
  <2>2. RecordIsLive' \/ Unnamed'
    <3>1. (RecordIsLive' <=> RecordIsLive) /\ Live(naming)' = Live(naming)
      BY <1>1 DEF RecordIsLive, Live, Exists
    <3>2. Unnamed' <=> Unnamed
      BY <1>1, <3>1 DEF Unnamed, still
    <3> QED BY <2>1, <3>1, <3>2 DEF SerialTables
  <2>3. (winner # None => rule[winner].live)'
    BY <1>1, <2>1 DEF Ready, ReadyOnRule
  <2>4. (\A t, u \in Exists(trip) : trip[t].number = trip[u].number => t = u)'
    BY <1>1, <1>4, <2>1 DEF SerialTables
  <2> QED BY <2>1, <2>2, <2>3, <2>4 DEF SerialTables
<1>8. overlapped' \in BOOLEAN
  BY <1>1 DEF Inv
<1> QED BY <1>1, <1>5, <1>6, <1>7, <1>8, RestingIsReady DEF Keeps

LEMMA PatchesKeep ==
    ASSUME Inv, NEW h \in Handlers,
           \/ \E form \in RuleForms : LoadCreateRule(h, form)
           \/ \E r \in Rules, form \in RuleForms, active \in BOOLEAN :
                 LoadPatchRule(h, r, form, active)
           \/ \E r \in Rules : CreateRule(h, r)
           \/ PatchRule(h)
    PROVE  Keeps(h)
<1>0. PICK a : a = job[h]
  OBVIOUS
<1>1. /\ a \in Job /\ Good(a) /\ TablesOK
  BY <1>0 DEF Inv
<1>2. ASSUME NEW form \in RuleForms, LoadCreateRule(h, form) PROVE Keeps(h)
  <2> DEFINE j == [do |-> "createRule", form |-> form]
  <2>1. Begin(h, j)
    BY <1>2 DEF LoadCreateRule
  <2>2. j \in Job
    BY DEF Job, RuleJob
  <2>3. Good(j) /\ Ready(j)
    BY <2>2 DEF Good, Ready, ReadyOnRecord, ReadyOnRule, OnRule
  <2> QED BY <2>1, <2>3, BeginKeeps
<1>3. ASSUME NEW r \in Rules, NEW form \in RuleForms, NEW active \in BOOLEAN,
             LoadPatchRule(h, r, form, active)
      PROVE  Keeps(h)
  <2> DEFINE write == [do |-> "patchRule", of |-> r, form |-> form, active |-> active]
             ask == [do |-> "survivors", role |-> rule[r].form.role, next |-> write]
  <2>1. /\ Begin(h, IF AsksForSurvivors(r, active) THEN ask ELSE write)
        /\ rule[r] # None /\ (active \/ form = rule[r].form)
    BY <1>3 DEF LoadPatchRule, Live, Exists
  <2>2. rule[r].form \in RuleForm /\ rule[r].form.role \in CrewRole
    BY <1>1, <2>1, RulesAreThere DEF RuleForm
  <2>3. write \in RuleWrite
    BY DEF RuleWrite
  <2>4. CASE AsksForSurvivors(r, active)
    <3>1. ask \in Job
      BY <2>2, <2>3 DEF Job, RuleJob
    <3>2. Good(ask)
      BY <2>1, <3>1 DEF Good, OnRule
    <3>3. Ready(ask)
      BY <2>1, <2>4 DEF Ready, ReadyOnRecord, ReadyOnRule, AsksForSurvivors
    <3>4. Begin(h, ask)
      BY <2>1, <2>4
    <3> QED BY <3>2, <3>3, <3>4, BeginKeeps
  <2>5. CASE ~ AsksForSurvivors(r, active)
    <3>1. write \in Job
      BY <2>3 DEF Job, RuleJob
    <3>2. Good(write)
      BY <2>1, <3>1 DEF Good, OnRule
    <3>3. Ready(write)
      BY <2>1, <2>5 DEF Ready, ReadyOnRecord, ReadyOnRule, AsksForSurvivors
    <3>4. Begin(h, write)
      BY <2>1, <2>5
    <3> QED BY <3>2, <3>3, <3>4, BeginKeeps
  <2> QED BY <2>4, <2>5
<1>4. ASSUME NEW r \in Rules, CreateRule(h, r) PROVE Keeps(h)
  <2> DEFINE row == [form |-> a.form, active |-> TRUE, live |-> TRUE]
  <2>1. /\ rule' = [rule EXCEPT ![r] = row] /\ Done(h)
        /\ UNCHANGED <<trip, record, naming, winner>> /\ a.do = "createRule"
    BY <1>0, <1>4 DEF CreateRule, At
  <2>2. row \in RuleRow /\ row.live = TRUE
    BY <1>1, <2>1, JobShapes DEF RuleRow
  <2> HIDE DEF row
  <2> QED BY <1>0, <2>1, <2>2, RuleWritten
<1>5. CASE PatchRule(h)
  <2> DEFINE row == [rule[a.of] EXCEPT !.form = a.form, !.active = a.active]
  <2>1. /\ rule' = [rule EXCEPT ![a.of] = row] /\ Done(h)
        /\ UNCHANGED <<trip, record, naming, winner>> /\ a.do = "patchRule"
    BY <1>0, <1>5 DEF PatchRule, At
  <2>2. /\ a.of \in Rules /\ rule[a.of] # None /\ rule[a.of] \in RuleRow
        /\ a.form \in RuleForms /\ a.active \in BOOLEAN
    BY <1>1, <2>1, JobShapes, RulesAreThere DEF Good, OnRule
  <2>3. row \in RuleRow /\ row.live = rule[a.of].live
    BY <2>2 DEF RuleRow
  <2>4. SerialTables => row.live \/ winner # a.of
    BY <2>2, <2>3, NoneAssumption DEF SerialTables
  <2> HIDE DEF row
  <2> QED BY <1>0, <2>1, <2>2, <2>3, <2>4, RuleWritten
<1> QED BY <1>2, <1>3, <1>4, <1>5

LEMMA RemovalsKeep ==
    ASSUME Inv, NEW h \in Handlers,
           \/ \E r \in Rules : LoadRemoveRule(h, r)
           \/ CountSurvivors(h) \/ LastOfItsRole(h) \/ CountCommissions(h)
           \/ DeactivateRule(h) \/ SoftDeleteRule(h) \/ LoadPay(h)
    PROVE  Keeps(h)
<1>0. PICK a : a = job[h]
  OBVIOUS
<1>1. /\ a \in Job /\ Good(a) /\ TablesOK
  BY <1>0 DEF Inv
<1>2. ASSUME NEW r \in Rules, LoadRemoveRule(h, r) PROVE Keeps(h)
  <2> DEFINE next == [do |-> "commissions", of |-> r]
             j == [do |-> "survivors", role |-> rule[r].form.role, next |-> next]
  <2>1. Begin(h, j) /\ rule[r] # None
    BY <1>2 DEF LoadRemoveRule, Live, Exists
  <2>2. rule[r].form.role \in CrewRole
    BY <1>1, <2>1, RulesAreThere DEF RuleForm
  <2>3. next \in RuleRemoval
    BY DEF RuleRemoval
  <2>4. j \in Job
    BY <2>2, <2>3 DEF Job, RuleJob
  <2>5. Good(j) /\ Ready(j)
    BY <2>1, <2>4 DEF Good, Ready, ReadyOnRecord, ReadyOnRule, OnRule
  <2> QED BY <2>1, <2>5, BeginKeeps
<1>3. CASE CountSurvivors(h)
  <2>1. PICK j : j = a.next
    OBVIOUS
  <2>2. GoOn(h, j) /\ a.do = "survivors" /\ Survivors(j.of, a.role)
    BY <1>0, <1>3, <2>1 DEF CountSurvivors, At
  <2>3. j \in RuleWrite \cup RuleRemoval /\ j.of \in Rules /\ rule[j.of] # None
    BY <1>1, <2>1, <2>2, JobShapes DEF Good
  <2>4. j \in Job
    BY <2>3 DEF Job, RuleJob
  <2>5. j.do \in {"patchRule", "commissions", "deactivateRule", "softDeleteRule"}
    BY <2>3 DEF RuleWrite, RuleRemoval
  <2>6. Good(j)
    BY <2>3, <2>4, <2>5 DEF Good, OnRule
  <2>7. ASSUME Ready(a) PROVE Ready(j)
    <3>1. /\ a.role = rule[j.of].form.role
          /\ j.do \in {"patchRule", "commissions"}
          /\ j.do = "patchRule" => j.form = rule[j.of].form
      BY <2>1, <2>2, <2>7 DEF Ready, ReadyOnRule
    <3>2. Replaced(j.of)
      BY <2>2, <3>1 DEF Replaced
    <3> QED BY <3>1, <3>2 DEF Ready, ReadyOnRecord, ReadyOnRule
  <2> QED BY <1>0, <2>2, <2>6, <2>7, GoOnKeeps
<1>4. CASE LastOfItsRole(h)
  BY <1>4, RefuseKeeps DEF LastOfItsRole, At
<1>5. CASE CountCommissions(h)
  <2> DEFINE j == [do |-> IF winner = a.of THEN "deactivateRule" ELSE "softDeleteRule",
                   of |-> a.of]
  <2>1. GoOn(h, j) /\ a.do = "commissions"
    BY <1>0, <1>5 DEF CountCommissions, At
  <2>2. a.of \in Rules /\ rule[a.of] # None
    BY <1>1, <2>1, JobShapes DEF Good, OnRule
  <2>3. j \in RuleRemoval
    BY <2>2 DEF RuleRemoval
  <2>4. j \in Job
    BY <2>3 DEF Job, RuleJob
  <2>5. Good(j)
    BY <2>2, <2>4 DEF Good, OnRule
  <2>6. Ready(a) => Ready(j)
    BY <2>1 DEF Ready, ReadyOnRecord, ReadyOnRule
  <2> QED BY <1>0, <2>1, <2>5, <2>6, GoOnKeeps
<1>6. CASE DeactivateRule(h)
  <2> DEFINE row == [rule[a.of] EXCEPT !.active = FALSE]
  <2>1. /\ rule' = [rule EXCEPT ![a.of] = row] /\ Done(h)
        /\ UNCHANGED <<trip, record, naming, winner>> /\ a.do = "deactivateRule"
    BY <1>0, <1>6 DEF DeactivateRule, At
  <2>2. a.of \in Rules /\ rule[a.of] # None /\ rule[a.of] \in RuleRow
    BY <1>1, <2>1, JobShapes, RulesAreThere DEF Good, OnRule
  <2>3. row \in RuleRow /\ row.live = rule[a.of].live
    BY <2>2 DEF RuleRow
  <2>4. SerialTables => row.live \/ winner # a.of
    BY <2>2, <2>3, NoneAssumption DEF SerialTables
  <2> HIDE DEF row
  <2> QED BY <1>0, <2>1, <2>2, <2>3, <2>4, RuleWritten
<1>7. CASE SoftDeleteRule(h)
  <2> DEFINE row == [rule[a.of] EXCEPT !.live = FALSE]
  <2>1. /\ rule' = [rule EXCEPT ![a.of] = row] /\ Done(h)
        /\ UNCHANGED <<trip, record, naming, winner>> /\ a.do = "softDeleteRule"
    BY <1>0, <1>7 DEF SoftDeleteRule, At
  <2>2. a.of \in Rules /\ rule[a.of] # None /\ rule[a.of] \in RuleRow
    BY <1>1, <2>1, JobShapes, RulesAreThere DEF Good, OnRule
  <2>3. row \in RuleRow
    BY <2>2 DEF RuleRow
  <2>4. Ready(a) => winner # a.of
    BY <2>1 DEF Ready, ReadyOnRule
  <2> HIDE DEF row
  <2> QED BY <1>0, <2>1, <2>2, <2>3, <2>4, RuleWritten
<1>8. CASE LoadPay(h)
  <2>1. PICK r : r = Resolve("DRIVER", Followed, dispatched)
    OBVIOUS
  <2> DEFINE j == [do |-> "pay", of |-> r]
  <2>2. Begin(h, j) /\ r # None
    BY <1>8, <2>1 DEF LoadPay
  <2>3. r \in Live(rule)
    BY <1>1, <2>1, <2>2, ResolvedMatches
  <2>4. r \in Rules /\ rule[r] # None /\ rule[r].live
    BY <1>1, <2>3, RulesAreThere
  <2>5. j \in Job
    BY <2>4 DEF Job, RuleJob
  <2>6. Good(j) /\ Ready(j)
    BY <2>4, <2>5 DEF Good, Ready, ReadyOnRecord, ReadyOnRule, OnRule
  <2> QED BY <2>2, <2>6, BeginKeeps
<1> QED BY <1>2, <1>3, <1>4, <1>5, <1>6, <1>7, <1>8

-----------------------------------------------------------------------------
(* The invariant. *)

LEMMA StepKeeps ==
    ASSUME Inv, NEW h \in Handlers, BookingStep(h) \/ RecordStep(h) \/ RuleStep(h)
    PROVE  Keeps(h)
<1>1. CASE BookingStep(h)
  BY <1>1, BookingsKeep
<1>2. CASE RecordStep(h)
  BY <1>2, NamingsKeep, RecordsKeep DEF RecordStep
<1>3. CASE RuleStep(h)
  BY <1>3, PatchesKeep, RemovalsKeep, PayKeeps DEF RuleStep
<1> QED BY <1>1, <1>2, <1>3

LEMMA InitInv == Init => Inv
<1> SUFFICES ASSUME Init PROVE Inv
  OBVIOUS
<1> USE DEF Init
<1>1. /\ Exists(trip) = {} /\ Exists(naming) = {} /\ Exists(rule) = {}
      /\ Live(trip) = {} /\ Live(naming) = {}
  BY DEF Exists, Live
<1>2. IsFiniteSet({})
  BY FS_EmptySet
<1>3. desk \in Desks /\ entity \in Entity /\ dispatched \in Day
  BY DaysAssumption DEF Entity, NamedBy, Day
<1>4. NumbersOK
  BY <1>1, <1>2 DEF NumbersOK
<1>5. RecordsOK
  <2>1. record \in RecordRow
    BY DEF RecordRow
  <2>2. record # None
    BY <2>1, NoneIsNoRow
  <2>3. NoNameDangles
    BY <1>1 DEF NoNameDangles
  <2> QED BY <1>1, <2>1, <2>2, <2>3 DEF RecordsOK
<1>6. RulesOK
  BY <1>1, <1>2 DEF RulesOK
<1>7. RecordIsLive
  <2>1. record \in RecordRow /\ record.live = TRUE
    BY DEF RecordRow
  <2> QED BY <2>1, NoneIsNoRow DEF RecordIsLive
<1>8. SerialTables
  BY <1>1, <1>7 DEF SerialTables
<1>9. \A h \in Handlers : job[h] = Idle
  OBVIOUS
<1>10. Idle \in Job /\ job \in [Handlers -> Job]
  BY DEF Job
<1>11. Serial
  BY <1>8, <1>9, RestingIsReady DEF Serial, OneBusy
<1> QED BY <1>3, <1>4, <1>5, <1>6, <1>9, <1>10, <1>11, RestingIsReady DEF Inv, TablesOK

LEMMA StutterKeeps == ASSUME Inv, UNCHANGED vars PROVE Inv'
<1>1. UNCHANGED <<still, tables>> /\ job' = job /\ overlapped' = overlapped
  BY DEF vars
<1>2. TablesOK' /\ (SerialTables' <=> SerialTables)
  BY <1>1, SameTables DEF Inv
<1>3. ASSUME NEW h \in Handlers PROVE Good(job[h])' /\ (Ready(job[h]) => Ready(job[h])')
  <2>1. PICK a : a = job[h]
    OBVIOUS
  <2>2. job'[h] = a
    BY <1>1, <2>1
  <2>3. Good(a)' /\ (Ready(a) => Ready(a)')
    BY <1>1, <2>1, SameTables DEF Inv
  <2> QED BY <2>1, <2>2, <2>3
<1>4. OneBusy' <=> OneBusy
  BY <1>1 DEF OneBusy
<1>5. ~ overlapped' => Serial'
  BY <1>1, <1>2, <1>3, <1>4 DEF Inv, Serial
<1> QED BY <1>1, <1>2, <1>3, <1>5 DEF Inv

LEMMA NextInv == Inv /\ [Next]_vars => Inv'
  BY StepKeeps, KeepsKeepsInv, StutterKeeps DEF Next

LEMMA InvAlways == Spec => []Inv
  BY InitInv, NextInv, PTL DEF Spec

-----------------------------------------------------------------------------
(* Master data and the rules paid by. *)

\* Rows that name a record, or a rule, can go on naming it: nothing is left
\* naming a row that is gone, however requests race (onDelete: Restrict), and
\* until they race nothing in use names what removeRecord removed, but for a
\* payee on a billable expense.
THEOREM NamedStays == Spec => []WhatIsNamedStays
<1>1. ASSUME Inv PROVE WhatIsNamedStays
  <2>1. TypeOK
    BY <1>1 DEF Inv, TypeOK, TablesOK, NumbersOK, RecordsOK, RulesOK, Job
  <2>2. NothingNamesRemoved
    BY <1>1 DEF Inv, Serial, SerialTables, Unnamed, NothingNamesRemoved
  <2>3. NoNameDangles
    BY <1>1 DEF Inv, TablesOK, RecordsOK
  <2>4. PaidRuleStays
    BY <1>1 DEF Inv, Serial, SerialTables, PaidRuleStays
  <2> QED BY <2>1, <2>2, <2>3, <2>4 DEF WhatIsNamedStays
<1> QED BY <1>1, InvAlways, PTL

\* No two trips on the list share a number; until requests race, no two trips
\* ever did (generateShipmentNumber, shipment_number_live_key).
THEOREM LabelsAlwaysTellTrips == Spec => []LabelsTellTrips
<1>1. ASSUME Inv PROVE LabelsTellTrips
  BY <1>1 DEF Inv, TablesOK, NumbersOK, Serial, SerialTables, LabelsTellTrips
<1> QED BY <1>1, InvAlways, PTL

\* What the coverage report calls covered can be paid, today and at the end of
\* its horizon (CommissionCoverageService, rule-resolver.ts): a rule for
\* everybody matches any trip, so some rule matches and one of them is best.
THEOREM CoveredIsAlwaysPayable == Spec => []CoveredIsPayable
<1>1. ASSUME Inv PROVE CoveredIsPayable
  <2>1. SUFFICES ASSUME NEW role \in CrewRole, NEW on \in Day, NoGap(role, on),
                        NEW scope \in Scope, NEW day \in {on, on + Horizon}
                 PROVE  Resolve(role, scope, day) # None
    BY DEF CoveredIsPayable
  <2>2. PICK r \in ActiveRules(role) : Specificity(rule[r].form) = 0 /\ Covers(rule[r].form, day)
    BY <2>1 DEF NoGap, Baselines
  <2>3. TablesOK /\ r \in Live(rule)
    BY <1>1, <2>2 DEF Inv, ActiveRules
  <2>4. rule[r].form \in RuleForm
    BY <2>3, RulesAreThere
  <2>5. rule[r].form.client = FALSE /\ rule[r].form.route = FALSE
    BY <2>2, <2>4 DEF Specificity, RuleForm
  <2>6. r \in Matching(role, scope, day)
    BY <2>2, <2>5 DEF Matching
  <2>7. Resolve(role, scope, day) \in Rules
    BY <2>3, <2>6, ResolvedMatches
  <2> QED BY <2>7, NoneAssumption
<1> QED BY <1>1, InvAlways, PTL

-----------------------------------------------------------------------------
(* What a step may do. *)

LEMMA OwnJobOnly ==
    ASSUME Inv, NEW g \in Handlers, BookingStep(g) \/ RecordStep(g) \/ RuleStep(g)
    PROVE  \A h \in Handlers : h # g => job'[h] = job[h]
<1>1. Keeps(g)
  BY StepKeeps
<1> QED BY <1>1 DEF Keeps, Inv

\* What a booking does with the number it read.
LEMMA InsertingSteps ==
    ASSUME NEW h \in Handlers, At(h, "insertTrip"),
           BookingStep(h) \/ RecordStep(h) \/ RuleStep(h)
    PROVE  RetryBooking(h) \/ TurnAway(h) \/ \E t \in Trips : InsertTrip(h, t)
<1>1. job[h].do = "insertTrip" /\ job[h] # Idle
  BY DEF At, Idle
<1>2. CASE BookingStep(h)
  BY <1>1, <1>2 DEF BookingStep, LoadBook, ReadNumbers, RemoveTrip, LoadRemoveTrip, Waiting, At
<1>3. ~ RecordStep(h)
  BY <1>1 DEF RecordStep, LoadName, Count, InsertNaming, LoadRemoveNaming, LoadPatchRecord,
              InsertNamingRefused, RemoveNaming, PatchRecord, LoadRemoveRecord, Decide,
              DeactivateRecord, SoftDeleteRecord, HardDeleteRecord, WriteRecordRefused, Waiting, At
<1>4. ~ RuleStep(h)
  BY <1>1 DEF RuleStep, LoadCreateRule, CreateRule, LoadRemoveRule, LoadPatchRule, PatchRule,
              CountSurvivors, LastOfItsRole, CountCommissions, DeactivateRule, SoftDeleteRule,
              LoadPay, Pay, Waiting, At
<1> QED BY <1>2, <1>3, <1>4

\* A booking refused for want of a number lost it as often as it has attempts
\* (SHIPMENT_NUMBER_ATTEMPTS), each time to a trip booked since it came.
THEOREM OthersTurnAway == Spec => TurnedAwayByOthers
<1>1. ASSUME Inv, Next,
             NEW h \in Handlers, At(h, "insertTrip"), job'[h] = Idle, trip' = trip
      PROVE  Cardinality(Exists(trip)) >= job[h].seen + Attempts
  <2>1. PICK g \in Handlers : BookingStep(g) \/ RecordStep(g) \/ RuleStep(g)
    BY <1>1 DEF Next
  <2>2. g = h
    BY <1>1, <2>1, OwnJobOnly DEF At, Idle
  <2>3. ~ RetryBooking(h)
    <3>1. RetryBooking(h) => job'[h].do = "readNumbers"
      BY <1>1 DEF RetryBooking, GoOn, Inv
    <3> QED BY <1>1, <3>1 DEF Idle
  <2>4. ASSUME NEW t \in Trips, InsertTrip(h, t) PROVE FALSE
    <3>1. trip[t] = None
      BY <2>4 DEF InsertTrip, IsNew, Exists
    <3>2. trip'[t] = [number |-> job[h].number, live |-> TRUE]
      BY <1>1, <2>4 DEF InsertTrip, Inv, TablesOK, NumbersOK
    <3>3. job[h] \in Job /\ job[h].do = "insertTrip"
      BY <1>1 DEF Inv, At
    <3>4. trip'[t] \in TripRow
      BY <3>2, <3>3, JobShapes DEF TripRow
    <3> QED BY <1>1, <3>1, <3>4, NoneIsNoRow
  <2>5. TurnAway(h)
    BY <1>1, <2>1, <2>2, <2>3, <2>4, InsertingSteps
  <2>6. job[h].attempt = Attempts /\ job[h].number \in Issued /\ job[h].do = "insertTrip"
    BY <2>5, TakenIsIssued DEF TurnAway, At
  <2> QED BY <1>1, <2>6 DEF Inv, Good
<1>2. Inv /\ [Next]_vars => [\A h \in Handlers :
          At(h, "insertTrip") /\ job'[h] = Idle /\ trip' = trip
             => Cardinality(Exists(trip)) >= job[h].seen + Attempts]_vars
  BY <1>1
<1> QED BY <1>2, InvAlways, PTL DEF Spec, TurnedAwayByOthers

\* The steps that write a rule.
LEMMA RuleWrites ==
    ASSUME NEW h \in Handlers, BookingStep(h) \/ RecordStep(h) \/ RuleStep(h)
    PROVE  \/ UNCHANGED rule
           \/ \E r \in Rules : CreateRule(h, r)
           \/ PatchRule(h) \/ DeactivateRule(h) \/ SoftDeleteRule(h)
<1> USE DEF tables, Begin, GoOn, Refuse
<1>1. CASE BookingStep(h)
  BY <1>1 DEF BookingStep, LoadBook, ReadNumbers, RetryBooking, TurnAway, RemoveTrip, InsertTrip,
              LoadRemoveTrip
<1>2. CASE RecordStep(h)
  BY <1>2 DEF RecordStep, LoadName, Count, InsertNaming, LoadRemoveNaming, LoadPatchRecord,
              InsertNamingRefused, RemoveNaming, PatchRecord, LoadRemoveRecord, Decide,
              DeactivateRecord, SoftDeleteRecord, HardDeleteRecord, WriteRecordRefused
<1>3. CASE RuleStep(h)
  BY <1>3 DEF RuleStep, LoadCreateRule, LoadRemoveRule, LoadPatchRule, CountSurvivors,
              LastOfItsRole, CountCommissions, LoadPay, Pay
<1> QED BY <1>1, <1>2, <1>3

\* A rule that stays as it is counts for its role as before.
LEMMA UntouchedStays ==
    ASSUME TablesOK, TablesOK', NEW role, NEW q \in ActiveRules(role), rule'[q] = rule[q]
    PROVE  q \in ActiveRules(role)'
<1>1. q \in Rules /\ rule[q] # None /\ rule[q].live /\ rule[q].active /\ rule[q].form.role = role
  BY RulesAreThere DEF ActiveRules
<1>2. q \in DOMAIN rule'
  BY <1>1 DEF TablesOK, RulesOK
<1> QED BY <1>1, <1>2 DEF ActiveRules, Live, Exists

\* Only an overlap, or handing a rule to the other role, leaves a role without
\* rules (assertRoleKeepsCoverage).
THEOREM CoverageIsKept == Spec => KeepsCoverage
<1>1. ASSUME Inv, Next, Inv', ~ overlapped,
             NEW role \in CrewRole, ActiveRules(role) # {}, ActiveRules(role)' = {},
             \A r \in ActiveRules(role) : rule'[r].form.role = role
      PROVE  FALSE
  <2>1. PICK h \in Handlers : BookingStep(h) \/ RecordStep(h) \/ RuleStep(h)
    BY <1>1 DEF Next
  <2>2. PICK a : a = job[h]
    OBVIOUS
  <2>3. /\ TablesOK /\ TablesOK' /\ Ready(a) /\ Good(a) /\ a \in Job
        /\ rule \in [Rules -> RuleRow \cup {None}]
        /\ rule' \in [Rules -> RuleRow \cup {None}]
    BY <1>1, <2>2 DEF Inv, Serial, TablesOK, RulesOK
  <2>4. \A q \in ActiveRules(role) : q \in Rules /\ rule'[q] # rule[q]
    BY <1>1, <2>3, UntouchedStays, RulesAreThere DEF ActiveRules
  <2>5. PICK r \in ActiveRules(role) : TRUE
    BY <1>1
  <2>6. /\ r \in Rules /\ rule[r] # None /\ rule[r] \in RuleRow /\ rule[r].live /\ rule[r].active
        /\ rule[r].form.role = role
    BY <2>3, <2>5, RulesAreThere DEF ActiveRules
  <2>7. ~ UNCHANGED rule
    BY <2>4, <2>5
  <2>8. ASSUME NEW t \in Rules, CreateRule(h, t) PROVE FALSE
    <3>1. rule[t] = None /\ rule'[r] = IF r = t THEN rule'[t] ELSE rule[r]
      BY <2>3, <2>6, <2>8 DEF CreateRule, IsNew, Exists
    <3> QED BY <2>4, <2>5, <2>6, <3>1
  <2>9. ASSUME Replaced(r), \A q \in Rules \ {r} : rule'[q] = rule[q] PROVE FALSE
    <3>1. PICK q \in ActiveRules(role) : q # r
      BY <2>6, <2>9 DEF Replaced, Survivors
    <3> QED BY <2>4, <2>9, <3>1
  <2>10. CASE PatchRule(h)
    <3>1. a.do = "patchRule" /\ a.of \in Rules /\ a.active \in BOOLEAN /\ a.form \in RuleForms
      BY <2>2, <2>3, <2>10, JobShapes DEF PatchRule, At
    <3>2. \A q \in Rules : rule'[q] = IF q = a.of
                                       THEN [rule[q] EXCEPT !.form = a.form, !.active = a.active]
                                       ELSE rule[q]
      BY <2>2, <2>3, <2>10, <3>1 DEF PatchRule
    <3>3. a.of = r
      BY <2>4, <2>5, <2>6, <3>2
    <3>4. CASE a.active
      <4>1. rule'[r].live /\ rule'[r].active /\ rule'[r].form.role = role
        BY <1>1, <2>5, <2>6, <3>2, <3>3, <3>4 DEF RuleRow
      <4>2. rule'[r] \in RuleRow
        BY <2>6, <3>1, <3>2, <3>3 DEF RuleRow
      <4>3. r \in ActiveRules(role)'
        BY <2>3, <2>6, <4>1, <4>2, NoneIsNoRow DEF ActiveRules, Live, Exists
      <4> QED BY <1>1, <4>3
    <3>5. CASE ~ a.active
      BY <2>3, <2>6, <2>9, <3>1, <3>2, <3>3, <3>5 DEF Ready, ReadyOnRule
    <3> QED BY <3>1, <3>4, <3>5
  <2>11. CASE DeactivateRule(h) \/ SoftDeleteRule(h)
    <3>1. a.do \in {"deactivateRule", "softDeleteRule"} /\ \A q \in Rules \ {a.of} : rule'[q] = rule[q]
      BY <2>2, <2>3, <2>11 DEF DeactivateRule, SoftDeleteRule, At
    <3>2. a.of = r
      BY <2>4, <2>5, <2>6, <3>1
    <3> QED BY <2>3, <2>9, <3>1, <3>2 DEF Ready, ReadyOnRule
  <2> QED BY <2>1, <2>7, <2>8, <2>10, <2>11, RuleWrites
<1>2. Inv /\ Inv' /\ [Next]_vars => [\A role \in CrewRole :
          /\ ActiveRules(role) # {} /\ ActiveRules(role)' = {}
          => \/ overlapped
             \/ \E r \in ActiveRules(role) : rule'[r].form.role # role]_vars
  BY <1>1
<1> QED BY <1>2, InvAlways, PTL DEF Spec, KeepsCoverage

\* A change to rules that are not about the day of dispatch, before or after,
\* leaves the trip with the rule it had (effectiveDate): the same rules match,
\* saying the same, and the best of them is the same one.
THEOREM PriceStays == Spec => StaysPriced
<1>1. ASSUME Inv, Inv', Next,
             \A r \in Rules : rule'[r] # rule[r] =>
                ~ IsAbout(rule[r], dispatched) /\ ~ IsAbout(rule'[r], dispatched),
             NEW role \in CrewRole
      PROVE  Resolve(role, Followed, dispatched)' = Resolve(role, Followed, dispatched)
  <2>1. dispatched' = dispatched
    BY <1>1, StepKeeps DEF Next, Keeps, still
  <2> DEFINE M == Matching(role, Followed, dispatched)
             Said == [r \in M |-> rule[r].form]
  <2>2. TablesOK /\ TablesOK' /\ DOMAIN rule = Rules /\ DOMAIN rule' = Rules
    BY <1>1 DEF Inv, TablesOK, RulesOK
  <2>3. \A r : r \in M <=>
           /\ r \in Rules /\ rule[r] # None /\ rule[r].live /\ rule[r].active
           /\ rule[r].form.role = role /\ IsAbout(rule[r], dispatched)
    BY <2>2 DEF Matching, ActiveRules, Live, Exists, Covers, IsAbout, Followed
  <2>4. \A r : r \in M' <=>
           /\ r \in Rules /\ rule'[r] # None /\ rule'[r].live /\ rule'[r].active
           /\ rule'[r].form.role = role /\ IsAbout(rule'[r], dispatched)
    BY <2>1, <2>2 DEF Matching, ActiveRules, Live, Exists, Covers, IsAbout, Followed
  <2>5. M' = M /\ \A r \in M : rule'[r] = rule[r]
    <3>1. \A r : r \in M' <=> r \in M
      BY <1>1, <2>3, <2>4
    <3>2. \A r \in M : rule'[r] = rule[r]
      BY <1>1, <2>3
    <3> QED BY <3>1, <3>2
  <2>6. Said' = Said
    <3> HIDE DEF M
    <3> QED BY <2>5
  <2>7. /\ Resolve(role, Followed, dispatched) = IF M = {} THEN None ELSE Best(Said)
        /\ Resolve(role, Followed, dispatched)' = IF M' = {} THEN None ELSE Best(Said')
    BY DEF Resolve
  <2> HIDE DEF M, Said
  <2> QED BY <2>5, <2>6, <2>7
<1>2. Inv /\ Inv' /\ [Next]_vars =>
         [(\A r \in Rules : rule'[r] # rule[r] => ~ IsAbout(rule[r], dispatched) /\ ~ IsAbout(rule'[r], dispatched))
             => \A role \in CrewRole :
                   Resolve(role, Followed, dispatched)' = Resolve(role, Followed, dispatched)]_vars
  BY <1>1
<1> QED BY <1>2, InvAlways, PTL DEF Spec, StaysPriced
=============================================================================

----------------------------- MODULE AccountBook ----------------------------
(***************************************************************************)
(* What accounting is promised of one trip's accounts, whatever tables and *)
(* statements stand behind them.                                           *)
(*                                                                         *)
(* An account is with the crew, with accounting, or approved; exactly the  *)
(* approved ones carry a balance.  A balance is cleared by one movement of *)
(* cash or by slices of pay, never both, and an approval is undone only    *)
(* while nothing of its balance has moved.                                 *)
(***************************************************************************)
EXTENDS Integers, TLAPS

CONSTANTS
    Accounts,
    Variances,  \* what an approval may find the account to be out by
    None

ASSUME VariancesAreIntegers == Variances \subseteq Int

VARIABLES
    standing,   \* "none", "PENDING", "SUBMITTED", "APPROVED" or "removed"
    balance     \* None, or what is owed and how far clearing it has come

Progress == {"open", "carried", "sliced", "recovering", "cleared"}
Balance == [amount : Variances, progress : Progress]

ASSUME NoneIsNoBalance == None \notin Balance

TypeOK ==
    /\ standing \in [Accounts -> {"none", "PENDING", "SUBMITTED", "APPROVED", "removed"}]
    /\ balance \in [Accounts -> Balance \cup {None}]

Init ==
    /\ standing \in [Accounts -> {"none", "PENDING"}]
    /\ balance = [a \in Accounts |-> None]

\* Mutant: the balance is left behind.
KeepsBalance(a) == UNCHANGED balance

Becomes(a, from, to) ==
    /\ standing[a] \in from
    /\ standing' = [standing EXCEPT ![a] = to]

Open(a)   == Becomes(a, {"none"}, "PENDING") /\ UNCHANGED balance
Submit(a) == Becomes(a, {"PENDING"}, "SUBMITTED") /\ UNCHANGED balance
Return(a) == Becomes(a, {"SUBMITTED"}, "PENDING") /\ UNCHANGED balance
Remove(a) == Becomes(a, {"PENDING", "SUBMITTED"}, "removed") /\ UNCHANGED balance

\* The variance becomes the balance; one of zero has nothing left to move.
Approve(a) ==
    /\ Becomes(a, {"SUBMITTED"}, "APPROVED")
    /\ balance[a] = None
    /\ \E n \in Variances :
          balance' = [balance EXCEPT ![a] =
              [amount |-> n, progress |-> IF n = 0 THEN "cleared" ELSE "open"]]

Forget(a) == balance' = [balance EXCEPT ![a] = None]

\* Mutant: slices already taken do not count.
NothingHandedOver(a) == balance[a].progress # "cleared" \/ balance[a].amount = 0

NothingMoved(a) ==
    balance[a].progress \in {"open", "carried"} \/ balance[a].amount = 0

Unapprove(a) ==
    /\ Becomes(a, {"APPROVED"}, "SUBMITTED")
    /\ NothingMoved(a)
    /\ Forget(a)

\* The balance of an approved account moves on; the amount never does.
MovesOn(a, from, to) ==
    /\ standing[a] = "APPROVED"
    /\ balance[a].progress = from
    /\ balance' = [balance EXCEPT ![a].progress = to]
    /\ UNCHANGED standing

HandOver(a)    == balance[a] # None /\ MovesOn(a, "open", "cleared")
Carry(a)       == balance[a] # None /\ balance[a].amount > 0 /\ MovesOn(a, "open", "carried")
TakeSlice(a)   == balance[a] # None /\ MovesOn(a, "carried", "sliced")
DropSlices(a)  == balance[a] # None /\ MovesOn(a, "sliced", "carried")
PaySlices(a)   == balance[a] # None /\ MovesOn(a, "sliced", "recovering")
RecoverAll(a)  == balance[a] # None /\ MovesOn(a, "recovering", "cleared")

Next ==
    \E a \in Accounts :
        \/ Open(a) \/ Submit(a) \/ Return(a) \/ Remove(a) \/ Approve(a) \/ Unapprove(a)
        \/ HandOver(a) \/ Carry(a) \/ TakeSlice(a) \/ DropSlices(a) \/ PaySlices(a)
        \/ RecoverAll(a)

Spec == Init /\ [][Next]_<<standing, balance>>

-----------------------------------------------------------------------------
\* Exactly the approved accounts owe: no balance outlives its approval, and no
\* approval stands without the record of what is owed under it.
OwedWhileApproved ==
    \A a \in Accounts : (balance[a] # None) <=> (standing[a] = "APPROVED")

\* Once money of a balance has moved, the figure it is a part of stands for
\* good, and a balance that is cleared stays cleared.
MovedIsForGood ==
    [][\A a \in Accounts :
          /\ balance[a] # None
          /\ balance[a].amount # 0
          /\ balance[a].progress \in {"recovering", "cleared"}
          => /\ balance'[a] # None
             /\ balance'[a].amount = balance[a].amount
             /\ balance'[a].progress = "cleared"
                  \/ balance'[a].progress = balance[a].progress]_<<standing, balance>>

-----------------------------------------------------------------------------
(***************************************************************************)
(* AccountBook keeps its promises for any set of accounts and any amounts  *)
(* an approval may find them out by.                                       *)
(***************************************************************************)
\* What the steps of a balance that exists make of it.
LEMMA MovedOn ==
    ASSUME TypeOK, NEW a \in Accounts, balance[a] # None,
           NEW from, NEW to \in Progress, MovesOn(a, from, to)
    PROVE  /\ TypeOK'
           /\ balance'[a].amount = balance[a].amount
           /\ balance'[a].progress = to
           /\ balance'[a] # None
           /\ \A b \in Accounts : b # a => balance'[b] = balance[b]
  <1>1. balance[a] \in Balance
    BY DEF TypeOK
  <1> DEFINE moved == [balance[a] EXCEPT !.progress = to]
  <1>2. moved \in Balance /\ moved.amount = balance[a].amount /\ moved.progress = to
    BY <1>1 DEF Balance
  <1>3. balance' = [balance EXCEPT ![a] = moved]
    BY DEF MovesOn
  <1>4. moved # None
    BY <1>2, NoneIsNoBalance
  <1> HIDE DEF moved
  <1>5. balance'[a] = moved /\ \A b \in Accounts : b # a => balance'[b] = balance[b]
    BY <1>3 DEF TypeOK
  <1>6. TypeOK'
    BY <1>2, <1>3 DEF TypeOK, MovesOn
  <1> QED BY <1>2, <1>4, <1>5, <1>6

\* The actions that move a balance on, as one.
Clearing(a) ==
    HandOver(a) \/ Carry(a) \/ TakeSlice(a) \/ DropSlices(a) \/ PaySlices(a) \/ RecoverAll(a)

LEMMA ClearingMoves ==
    ASSUME NEW a, Clearing(a)
    PROVE  /\ balance[a] # None
           /\ \E to \in Progress : MovesOn(a, balance[a].progress, to)
           /\ \/ balance[a].progress \notin {"recovering", "cleared"}
              \/ MovesOn(a, "recovering", "cleared")
  BY DEF Clearing, HandOver, Carry, TakeSlice, DropSlices, PaySlices, RecoverAll, MovesOn, Progress

Inv == TypeOK /\ OwedWhileApproved

LEMMA InvInit == Init => Inv
  BY DEF Init, Inv, TypeOK, OwedWhileApproved

LEMMA InvNext == Inv /\ [Next]_<<standing, balance>> => Inv'
  <1> SUFFICES ASSUME Inv, [Next]_<<standing, balance>> PROVE Inv'
    OBVIOUS
  <1>1. CASE UNCHANGED <<standing, balance>>
    BY <1>1 DEF Inv, TypeOK, OwedWhileApproved
  <1>2. ASSUME NEW a \in Accounts, Open(a) \/ Submit(a) \/ Return(a) \/ Remove(a)
        PROVE  Inv'
    BY <1>2 DEF Open, Submit, Return, Remove, Becomes, Inv, TypeOK, OwedWhileApproved
  <1>3. ASSUME NEW a \in Accounts, Approve(a) PROVE Inv'
    <2>1. PICK r \in Balance : balance' = [balance EXCEPT ![a] = r]
      BY <1>3 DEF Approve, Balance, Progress
    <2>2. r # None
      BY NoneIsNoBalance
    <2>3. standing' = [standing EXCEPT ![a] = "APPROVED"]
      BY <1>3 DEF Approve, Becomes
    <2>4. TypeOK'
      BY <2>1, <2>3 DEF Inv, TypeOK
    <2>5. OwedWhileApproved'
      BY <2>1, <2>2, <2>3 DEF Inv, TypeOK, OwedWhileApproved
    <2> QED BY <2>4, <2>5 DEF Inv
  <1>4. ASSUME NEW a \in Accounts, Unapprove(a) PROVE Inv'
    BY <1>4 DEF Unapprove, Becomes, Forget, Inv, TypeOK, OwedWhileApproved
  <1>5. ASSUME NEW a \in Accounts, Clearing(a) PROVE Inv'
    <2>1. PICK to \in Progress : MovesOn(a, balance[a].progress, to)
      BY <1>5, ClearingMoves
    <2>2. balance[a] # None
      BY <1>5, ClearingMoves
    <2>3. TypeOK' /\ \A b \in Accounts : (balance'[b] # None) <=> (balance[b] # None)
      BY <2>1, <2>2, MovedOn DEF Inv
    <2> QED BY <2>1, <2>3 DEF Inv, OwedWhileApproved, MovesOn
  <1> QED BY <1>1, <1>2, <1>3, <1>4, <1>5 DEF Next, Clearing

\* Exactly the approved accounts owe.
THEOREM ApprovedOwe == Spec => []OwedWhileApproved
  BY InvInit, InvNext, PTL DEF Spec, Inv

\* A balance of which money has moved keeps its amount and its progress for
\* good, but for the last slice that clears it.
THEOREM MovedStands == Spec => MovedIsForGood
  <1> DEFINE Kept(a) ==
        /\ balance[a] # None
        /\ balance[a].amount # 0
        /\ balance[a].progress \in {"recovering", "cleared"}
        => /\ balance'[a] # None
           /\ balance'[a].amount = balance[a].amount
           /\ balance'[a].progress = "cleared"
                \/ balance'[a].progress = balance[a].progress
  <1>1. ASSUME Inv, NEW b \in Accounts, NEW a \in Accounts,
               Open(b) \/ Submit(b) \/ Return(b) \/ Remove(b)
        PROVE  Kept(a)
    BY <1>1 DEF Open, Submit, Return, Remove
  <1>2. ASSUME Inv, NEW b \in Accounts, NEW a \in Accounts, Approve(b) \/ Unapprove(b)
        PROVE  Kept(a)
    BY <1>2 DEF Approve, Unapprove, NothingMoved, Forget, Inv, TypeOK
  <1>3. ASSUME Inv, NEW b \in Accounts, NEW a \in Accounts, Clearing(b)
        PROVE  Kept(a)
    <2>1. PICK to \in Progress : MovesOn(b, balance[b].progress, to)
      BY <1>3, ClearingMoves
    <2>2. balance[b] # None
      BY <1>3, ClearingMoves
    <2>3. \A c \in Accounts : c # b => balance'[c] = balance[c]
      BY <1>3, <2>1, <2>2, MovedOn DEF Inv
    <2>4. CASE a # b
      BY <2>3, <2>4
    <2>5. CASE a = b
      <3>1. CASE balance[b].progress \notin {"recovering", "cleared"}
        BY <2>5, <3>1
      <3>2. CASE MovesOn(b, "recovering", "cleared")
        <4>1. /\ balance'[b].amount = balance[b].amount
              /\ balance'[b].progress = "cleared"
              /\ balance'[b] # None
          BY <1>3, <2>2, <3>2, MovedOn DEF Inv, Progress
        <4> QED BY <2>5, <4>1
      <3> QED BY <1>3, <3>1, <3>2, ClearingMoves
    <2> QED BY <2>4, <2>5
  <1>4. Inv /\ [Next]_<<standing, balance>> =>
            [\A a \in Accounts : Kept(a)]_<<standing, balance>>
    <2> HIDE DEF Kept
    <2> QED BY <1>1, <1>2, <1>3 DEF Next, Clearing
  <1>5. Spec => []Inv
    BY InvInit, InvNext, PTL DEF Spec
  <1> QED BY <1>4, <1>5, PTL DEF Spec, MovedIsForGood
=============================================================================

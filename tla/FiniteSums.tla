----------------------------- MODULE FiniteSums -----------------------------
(***************************************************************************)
(* Facts about finite sets that the proofs of several components need:     *)
(* a family of finite sets has a smallest member, and a sum of naturals    *)
(* over a finite set is a natural number.                                  *)
(*                                                                         *)
(* The sum is the fold of the community modules, whose recursion runs over *)
(* subsets.  That the recursion has a solution, and what the solution is,  *)
(* is shown without an induction rule: a smallest set for which it failed  *)
(* would have an element too many.                                         *)
(***************************************************************************)
EXTENDS Integers, Functions, FiniteSetTheorems, TLAPS

\* Among finite sets one is smallest: with any element less it is not among them.
THEOREM SmallestSet ==
    ASSUME NEW S, NEW Bad \in SUBSET SUBSET S, Bad # {}, \A T \in Bad : IsFiniteSet(T)
    PROVE  \E T \in Bad : \A x \in T : T \ {x} \notin Bad
<1>1. IsWellFoundedOn(StrictSubsetOrdering(S), FiniteSubsetsOf(S))
  BY FS_StrictSubsetOrderingWellFounded
<1>2. Bad \subseteq FiniteSubsetsOf(S)
  BY DEF FiniteSubsetsOf
<1>3. PICK T \in Bad : \A U \in Bad : <<U, T>> \notin StrictSubsetOrdering(S)
  <2> HIDE DEF FiniteSubsetsOf, StrictSubsetOrdering
  <2> QED BY <1>1, <1>2, WFMin
<1>4. ASSUME NEW x \in T, T \ {x} \in Bad PROVE FALSE
  <2>1. <<T \ {x}, T>> \in StrictSubsetOrdering(S)
    BY <1>4 DEF StrictSubsetOrdering
  <2> QED BY <1>3, <1>4, <2>1
<1> QED BY <1>4

-----------------------------------------------------------------------------
Chosen(s) == CHOOSE x \in s : TRUE
Summed(f, g, s) == IF s = {} THEN 0 ELSE f[Chosen(s)] + g[s \ {Chosen(s)}]

\* g gives the sum over each subset of S by the recursion of the fold.
SumsUp(f, g, S) == g = [s \in SUBSET S |-> Summed(f, g, s)]

LEMMA SumIsFold ==
    ASSUME NEW f, NEW S
    PROVE  SumFunctionOnSet(f, S) = (CHOOSE g : SumsUp(f, g, S))[S]
  BY DEF SumFunctionOnSet, FoldFunctionOnSet, MapThenFoldSet, SumsUp, Summed, Chosen

LEMMA ChosenIsThere == ASSUME NEW s, s # {} PROVE Chosen(s) \in s
  BY DEF Chosen

LEMMA Unrolled ==
    ASSUME NEW f, NEW g, NEW S, SumsUp(f, g, S)
    PROVE  /\ g[{}] = 0
           /\ \A s \in SUBSET S : s # {} =>
                 /\ Chosen(s) \in s
                 /\ g[s] = f[Chosen(s)] + g[s \ {Chosen(s)}]
<1>1. \A s \in SUBSET S : g[s] = Summed(f, g, s)
  <2> DEFINE h == [s \in SUBSET S |-> Summed(f, g, s)]
  <2>1. \A s \in SUBSET S : h[s] = Summed(f, g, s)
    OBVIOUS
  <2>2. g = h
    BY DEF SumsUp
  <2> HIDE DEF h
  <2> QED BY <2>1, <2>2
<1> QED BY <1>1, ChosenIsThere DEF Summed

\* Two solutions agree where both are defined.
LEMMA SumsAgree ==
    ASSUME NEW f, NEW g, NEW S, SumsUp(f, g, S), NEW h, NEW T, SumsUp(f, h, T),
           NEW U, U \subseteq S \cap T, IsFiniteSet(U)
    PROVE  g[U] = h[U]
<1> DEFINE Bad == {s \in SUBSET U : g[s] # h[s]}
<1>1. SUFFICES ASSUME Bad # {} PROVE FALSE
  OBVIOUS
<1>2. \A s \in Bad : IsFiniteSet(s)
  BY FS_Subset
<1>3. PICK s \in Bad : \A x \in s : s \ {x} \notin Bad
  BY <1>1, <1>2, SmallestSet
<1>4. s \in SUBSET S /\ s \in SUBSET T /\ s \in SUBSET U /\ g[s] # h[s]
  BY <1>3
<1>5. s # {}
  BY <1>4, Unrolled
<1>6. PICK x : x = Chosen(s) /\ x \in s
  BY <1>5, ChosenIsThere
<1>7. g[s] = f[x] + g[s \ {x}] /\ h[s] = f[x] + h[s \ {x}]
  BY <1>4, <1>5, <1>6, Unrolled
<1>8. g[s \ {x}] = h[s \ {x}]
  BY <1>3, <1>4, <1>6
<1> QED BY <1>4, <1>7, <1>8

\* There is a solution: on the subsets of all but one element there is one
\* for each element, and these fit together.
LEMMA SumsExist ==
    ASSUME NEW f, NEW S, IsFiniteSet(S)
    PROVE  \E g : SumsUp(f, g, S)
<1> DEFINE Bad == {T \in SUBSET S : ~ \E g : SumsUp(f, g, T)}
<1>1. SUFFICES ASSUME Bad # {} PROVE FALSE
  OBVIOUS
<1>2. \A T \in Bad : IsFiniteSet(T)
  BY FS_Subset
<1>3. PICK T \in Bad : \A x \in T : T \ {x} \notin Bad
  BY <1>1, <1>2, SmallestSet
<1>4. T \in SUBSET S /\ IsFiniteSet(T) /\ ~ \E g : SumsUp(f, g, T)
  BY <1>2, <1>3
<1> DEFINE part(x) == CHOOSE g : SumsUp(f, g, T \ {x})
           lacking(s) == CHOOSE x \in T \ s : TRUE
           below(s) == part(lacking(s))[s]
           whole == f[Chosen(T)] + below(T \ {Chosen(T)})
           g == [s \in SUBSET T |-> IF s = {} THEN 0 ELSE IF s = T THEN whole ELSE below(s)]
<1>5. \A x \in T : SumsUp(f, part(x), T \ {x})
  <2>1. ASSUME NEW x \in T PROVE \E h : SumsUp(f, h, T \ {x})
    BY <1>3, <1>4
  <2> QED BY <2>1
<1>6. \A s \in SUBSET T : s # T => lacking(s) \in T \ s
  OBVIOUS
<1> HIDE DEF part, lacking
<1>7. ASSUME NEW s \in SUBSET T, s # T, NEW x \in T \ s PROVE below(s) = part(x)[s]
  <2>1. s \subseteq (T \ {lacking(s)}) \cap (T \ {x})
    BY <1>6, <1>7
  <2>2. IsFiniteSet(s)
    BY <1>4, FS_Subset
  <2>3. PICK y : y = lacking(s) /\ y \in T
    BY <1>6, <1>7
  <2>4. SumsUp(f, part(y), T \ {y}) /\ SumsUp(f, part(x), T \ {x})
    BY <1>5, <1>7, <2>3
  <2>5. part(y)[s] = part(x)[s]
    BY <2>1, <2>2, <2>3, <2>4, SumsAgree
  <2> QED BY <2>3, <2>5
<1> HIDE DEF below
<1>8. \A s \in SUBSET T : s # T => g[s] = below(s)
  <2> SUFFICES ASSUME NEW s \in SUBSET T, s # T PROVE g[s] = below(s)
    OBVIOUS
  <2>1. CASE s = {}
    <3>1. PICK x \in T \ s : TRUE
      BY <1>6
    <3>2. below(s) = part(x)[s]
      BY <1>7, <3>1
    <3> QED BY <1>5, <2>1, <3>1, <3>2, Unrolled
  <2>2. CASE s # {}
    BY <2>2
  <2> QED BY <2>1, <2>2
<1>9. \A s \in SUBSET T : g[s] = Summed(f, g, s)
  <2> SUFFICES ASSUME NEW s \in SUBSET T PROVE g[s] = Summed(f, g, s)
    OBVIOUS
  <2>1. CASE s = {}
    BY <2>1 DEF Summed
  <2>2. CASE s # {} /\ s = T
    <3>1. PICK x : x = Chosen(T) /\ x \in T
      BY <2>2, ChosenIsThere
    <3>2. g[T] = f[x] + below(T \ {x})
      BY <2>2, <3>1
    <3>3. g[T \ {x}] = below(T \ {x})
      BY <1>8, <3>1
    <3> HIDE DEF g
    <3> QED BY <2>2, <3>1, <3>2, <3>3 DEF Summed
  <2>3. CASE s # {} /\ s # T
    <3>1. PICK x : x = Chosen(s) /\ x \in s
      BY <2>3, ChosenIsThere
    <3>2. PICK y \in T \ s : TRUE
      BY <2>3
    <3>3. s \in SUBSET (T \ {y}) /\ s \ {x} \in SUBSET T /\ s \ {x} # T /\ y \in T \ (s \ {x})
      BY <3>1, <3>2
    <3>4. part(y)[s] = f[x] + part(y)[s \ {x}]
      BY <1>5, <2>3, <3>1, <3>2, <3>3, Unrolled
    <3>5. g[s] = part(y)[s]
      BY <1>7, <1>8, <2>3, <3>2
    <3>6. g[s \ {x}] = part(y)[s \ {x}]
      BY <1>7, <1>8, <3>3
    <3> HIDE DEF g
    <3> QED BY <2>3, <3>1, <3>4, <3>5, <3>6 DEF Summed
  <2> QED BY <2>1, <2>2, <2>3
<1>10. SumsUp(f, g, T)
  <2> DEFINE h == [s \in SUBSET T |-> Summed(f, g, s)]
  <2>1. DOMAIN g = SUBSET T /\ g = [s \in SUBSET T |-> g[s]]
    OBVIOUS
  <2> HIDE DEF g
  <2>2. g = h
    BY <1>9, <2>1
  <2> QED BY <2>2 DEF SumsUp
<1> QED BY <1>4, <1>10

\* A sum of naturals over a finite set is a natural number.
THEOREM SumIsNatural ==
    ASSUME NEW S, IsFiniteSet(S), NEW f \in [S -> Nat]
    PROVE  SumFunctionOnSet(f, S) \in Nat
<1>1. PICK g : g = CHOOSE h : SumsUp(f, h, S)
  OBVIOUS
<1>2. SumsUp(f, g, S)
  BY <1>1, SumsExist
<1> DEFINE Bad == {s \in SUBSET S : g[s] \notin Nat}
<1>3. /\ g[{}] = 0
      /\ \A s \in SUBSET S : s # {} =>
            Chosen(s) \in s /\ g[s] = f[Chosen(s)] + g[s \ {Chosen(s)}]
  BY <1>2, Unrolled
<1>4. Bad = {}
  <2> SUFFICES ASSUME Bad # {} PROVE FALSE
    OBVIOUS
  <2>1. \A s \in Bad : IsFiniteSet(s)
    BY FS_Subset
  <2>2. PICK s \in Bad : \A x \in s : s \ {x} \notin Bad
    BY <2>1, SmallestSet
  <2>3. s \in SUBSET S /\ g[s] \notin Nat
    BY <2>2
  <2>4. s # {}
    <3>1. g[{}] \in Nat
      BY <1>3
    <3> QED BY <2>3, <3>1
  <2>5. PICK x : x = Chosen(s) /\ x \in s
    BY <2>4, ChosenIsThere
  <2>6. g[s] = f[x] + g[s \ {x}]
    BY <1>3, <2>3, <2>4, <2>5
  <2>7. g[s \ {x}] \in Nat /\ f[x] \in Nat
    BY <2>2, <2>3, <2>5
  <2> QED BY <2>3, <2>6, <2>7
<1>5. g[S] \in Nat
  BY <1>4
<1> QED BY <1>1, <1>5, SumIsFold
=============================================================================

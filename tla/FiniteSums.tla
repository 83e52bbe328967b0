----------------------------- MODULE FiniteSums -----------------------------
(***************************************************************************)
(* Sums over finite sets, as SumFunctionOnSet of the community modules     *)
(* defines them, and the two inductions that the proofs of the other       *)
(* modules need.  The wallet adds up ledger lines, a publication the costs *)
(* of an account's arguments; both change one addend at a time, which is   *)
(* what the lemmas at the end are about.                                   *)
(*                                                                         *)
(* Induction is stated for a SET of good values instead of a predicate, so *)
(* that it follows from the well-founded orderings of the library at first *)
(* order: a nonempty set of bad values has a least one (WFMin).            *)
(***************************************************************************)
EXTENDS Functions, FiniteSetTheorems, TLAPS

\* A set of subsets of a finite set is all of them if it holds every subset whose
\* strict subsets it holds.
LEMMA SubsetInduction ==
  ASSUME NEW S, IsFiniteSet(S), NEW Good,
         \A T \in SUBSET S : (\A U \in SUBSET T : U # T => U \in Good) => T \in Good
  PROVE  \A T \in SUBSET S : T \in Good
<1>. DEFINE Bad == (SUBSET S) \ Good
<1>1. SUFFICES ASSUME Bad # {}
               PROVE  FALSE
  OBVIOUS
<1>2. IsWellFoundedOn(StrictSubsetOrdering(S), SUBSET S)
  BY FS_StrictSubsetOrderingWellFounded, FS_FiniteSubsetsOfFinite
<1>3. Bad \subseteq SUBSET S
  OBVIOUS
<1>. HIDE DEF Bad
<1>4. PICK T \in Bad : \A U \in Bad : <<U, T>> \notin StrictSubsetOrdering(S)
  BY ONLY <1>1, <1>2, <1>3, WFMin, Zenon
<1>5. \A U \in SUBSET T : U # T => U \in Good
  BY <1>3, <1>4 DEF StrictSubsetOrdering, Bad
<1>. QED BY <1>4, <1>5 DEF Bad

\* A set that holds 0, and the successor of each natural it holds, holds them all.
LEMMA NaturalInduction ==
  ASSUME NEW Good, 0 \in Good, \A n \in Nat : n \in Good => n + 1 \in Good
  PROVE  \A n \in Nat : n \in Good
<1>. DEFINE Bad == Nat \ Good
<1>1. SUFFICES ASSUME Bad # {}
               PROVE  FALSE
  OBVIOUS
<1>2. PICK n \in Bad : \A m \in Bad : <<m, n>> \notin OpToRel(<, Nat)
  BY <1>1, NatLessThanWellFounded, WFMin, Zenon
<1>3. \A m \in Bad : ~(m < n)
  BY <1>2, Zenon DEF OpToRel
<1>4. n # 0 /\ n - 1 \in Nat /\ n - 1 < n
  OBVIOUS
<1>5. n - 1 \in Good
  BY <1>3, <1>4
<1>. QED BY <1>4, <1>5

\* A strict order on a finite set that is not empty leaves an element that none
\* comes after.
LEMMA MaximalElement ==
  ASSUME NEW S, IsFiniteSet(S), S # {}, NEW R,
         \A x \in S : <<x, x>> \notin R,
         \A x, y, z \in S : <<x, y>> \in R /\ <<y, z>> \in R => <<x, z>> \in R
  PROVE  \E x \in S : \A y \in S : <<x, y>> \notin R
<1>. DEFINE HasTop(T) == T = {} \/ \E x \in T : \A y \in T : <<x, y>> \notin R
            Good == {T \in SUBSET S : HasTop(T)}
<1>1. ASSUME NEW T \in SUBSET S, \A U \in SUBSET T : U # T => U \in Good
      PROVE  T \in Good
  <2>. SUFFICES ASSUME NEW x \in T
                PROVE  HasTop(T)
    OBVIOUS
  <2>. DEFINE Above == {y \in T : <<x, y>> \in R}
  <2>1. Above \in SUBSET T /\ x \notin Above /\ Above # T
    OBVIOUS
  <2>2. HasTop(Above)
    BY <1>1, <2>1
  <2>3. CASE Above = {}
    BY <2>3
  <2>4. ASSUME NEW u \in Above, \A y \in Above : <<u, y>> \notin R
        PROVE  \A y \in T : <<u, y>> \notin R
    BY <2>4
  <2>. QED BY <2>2, <2>3, <2>4
<1>. HIDE DEF Good
<1>2. S \in Good
  BY <1>1, SubsetInduction
<1>. QED BY <1>2 DEF Good
-----------------------------------------------------------------------------
\* The addend that a sum over s takes first.
Pick(s) == CHOOSE x \in s : TRUE

\* g is the table that SumFunctionOnSet fills for the subsets of S.
Tabulates(g, f, S) ==
  g = [s \in SUBSET S |-> IF s = {} THEN 0 ELSE f[Pick(s)] + g[s \ {Pick(s)}]]

Table(f, S) == CHOOSE g : Tabulates(g, f, S)

\* SumFunctionOnSet is the entry of its table for the whole set.
LEMMA SumIsTabled ==
  ASSUME NEW f, NEW S
  PROVE  SumFunctionOnSet(f, S) = Table(f, S)[S]
  BY DEF SumFunctionOnSet, FoldFunctionOnSet, MapThenFoldSet, Table, Tabulates, Pick

\* Two tables agree on a set where their functions do, whatever else they hold.
LEMMA TablesAgree ==
  ASSUME NEW S, IsFiniteSet(S), NEW V, S \subseteq V,
         NEW f, NEW g, NEW e, NEW h,
         Tabulates(g, f, S), Tabulates(h, e, V), \A x \in S : f[x] = e[x]
  PROVE  g[S] = h[S]
<1>. DEFINE Good == {T \in SUBSET S : g[T] = h[T]}
<1>1. ASSUME NEW T \in SUBSET S, \A U \in SUBSET T : U # T => U \in Good
      PROVE  T \in Good
  <2>1. CASE T = {}
    BY <2>1 DEF Tabulates
  <2>2. CASE T # {}
    <3>1. Pick(T) \in T
      BY <2>2 DEF Pick
    <3>2. g[T \ {Pick(T)}] = h[T \ {Pick(T)}]
      BY <1>1, <3>1
    <3>3. g[T] = f[Pick(T)] + g[T \ {Pick(T)}] /\ h[T] = e[Pick(T)] + h[T \ {Pick(T)}]
      BY <2>2 DEF Tabulates
    <3>. QED BY <3>1, <3>2, <3>3
  <2>. QED BY <2>1, <2>2
<1>. HIDE DEF Good
<1>2. S \in Good
  BY <1>1, SubsetInduction
<1>. QED BY <1>2 DEF Good

\* The table that the definition of a sum chooses exists.
LEMMA TableExists ==
  ASSUME NEW S, IsFiniteSet(S), NEW f
  PROVE  Tabulates(Table(f, S), f, S)
<1>. DEFINE Good == {T \in SUBSET S : Tabulates(Table(f, T), f, T)}
<1>1. ASSUME NEW T \in SUBSET S, \A U \in SUBSET T : U # T => U \in Good
      PROVE  T \in Good
  <2>. DEFINE Value(s) == IF s = {} THEN 0
                          ELSE f[Pick(s)] + Table(f, s \ {Pick(s)})[s \ {Pick(s)}]
              g == [s \in SUBSET T |-> Value(s)]
  <2>1. ASSUME NEW s \in SUBSET T, s # T
        PROVE  Table(f, s)[s] = Value(s)
    <3>1. Tabulates(Table(f, s), f, s)
      BY <1>1, <2>1
    <3>2. CASE s = {}
      BY <3>1, <3>2 DEF Tabulates
    <3>3. CASE s # {}
      <4>1. Pick(s) \in s
        BY <3>3 DEF Pick
      <4>2. s \ {Pick(s)} \in SUBSET T /\ s \ {Pick(s)} # T /\ IsFiniteSet(s \ {Pick(s)})
        BY <4>1, FS_Subset
      <4>3. Tabulates(Table(f, s \ {Pick(s)}), f, s \ {Pick(s)})
        BY <1>1, <4>2
      <4>4. Table(f, s)[s \ {Pick(s)}] = Table(f, s \ {Pick(s)})[s \ {Pick(s)}]
        BY <3>1, <4>2, <4>3, TablesAgree
      <4>. QED BY <3>1, <3>3, <4>4 DEF Tabulates
    <3>. QED BY <3>2, <3>3
  <2>2. ASSUME NEW s \in SUBSET T, s # {}
        PROVE  Value(s) = f[Pick(s)] + g[s \ {Pick(s)}]
    <3>1. Pick(s) \in s
      BY <2>2 DEF Pick
    <3>2. s \ {Pick(s)} \in SUBSET T /\ s \ {Pick(s)} # T
      BY <3>1
    <3>. QED BY <2>1, <2>2, <3>2
  <2>3. Tabulates(g, f, T)
    BY <2>2 DEF Tabulates
  <2>. QED BY <2>3 DEF Table
<1>. HIDE DEF Good
<1>2. S \in Good
  BY <1>1, SubsetInduction
<1>. QED BY <1>2 DEF Good
-----------------------------------------------------------------------------
\* A sum depends only on the addends of its set.
LEMMA SumAgrees ==
  ASSUME NEW S, IsFiniteSet(S), NEW f, NEW e, \A x \in S : f[x] = e[x]
  PROVE  SumFunctionOnSet(f, S) = SumFunctionOnSet(e, S)
<1>1. Tabulates(Table(f, S), f, S) /\ Tabulates(Table(e, S), e, S)
  BY TableExists
<1>2. Table(f, S)[S] = Table(e, S)[S]
  BY <1>1, TablesAgree
<1>. QED BY <1>2, SumIsTabled

\* The empty sum.
LEMMA SumEmpty ==
  ASSUME NEW f
  PROVE  SumFunctionOnSet(f, {}) = 0
  BY TableExists, SumIsTabled, FS_EmptySet DEF Tabulates

\* A sum takes out the addend the definition picks.
LEMMA SumUnfolds ==
  ASSUME NEW S, IsFiniteSet(S), S # {}, NEW f
  PROVE  SumFunctionOnSet(f, S) = f[Pick(S)] + SumFunctionOnSet(f, S \ {Pick(S)})
<1>. DEFINE T == S \ {Pick(S)}
<1>1. IsFiniteSet(T) /\ T \subseteq S
  BY FS_Subset
<1>2. Tabulates(Table(f, S), f, S) /\ Tabulates(Table(f, T), f, T)
  BY <1>1, TableExists
<1>3. Table(f, S)[T] = Table(f, T)[T]
  BY <1>1, <1>2, TablesAgree
<1>4. Table(f, S)[S] = f[Pick(S)] + Table(f, S)[T]
  BY <1>2 DEF Tabulates
<1>. QED BY <1>3, <1>4, SumIsTabled

\* A sum of integers is one, and may take out any addend.
LEMMA SumRemoves ==
  ASSUME NEW S, IsFiniteSet(S), NEW f, \A x \in S : f[x] \in Int
  PROVE  /\ SumFunctionOnSet(f, S) \in Int
         /\ \A x \in S : SumFunctionOnSet(f, S) = f[x] + SumFunctionOnSet(f, S \ {x})
<1>. DEFINE Removes(T) ==
       /\ SumFunctionOnSet(f, T) \in Int
       /\ \A x \in T : SumFunctionOnSet(f, T) = f[x] + SumFunctionOnSet(f, T \ {x})
     Good == {T \in SUBSET S : Removes(T)}
<1>1. ASSUME NEW T \in SUBSET S, \A U \in SUBSET T : U # T => U \in Good
      PROVE  T \in Good
  <2>1. CASE T = {}
    BY <2>1, SumEmpty
  <2>2. CASE T # {}
    <3>. DEFINE p == Pick(T)
    <3>1. p \in T
      BY <2>2 DEF Pick
    <3>. HIDE DEF p
    <3>2. SumFunctionOnSet(f, T) = f[p] + SumFunctionOnSet(f, T \ {p})
      BY <2>2, SumUnfolds, FS_Subset DEF p
    <3>3. Removes(T \ {p})
      BY <1>1, <3>1
    <3>4. SumFunctionOnSet(f, T) \in Int
      BY <3>1, <3>2, <3>3
    <3>5. ASSUME NEW x \in T
          PROVE  SumFunctionOnSet(f, T) = f[x] + SumFunctionOnSet(f, T \ {x})
      <4>1. CASE x = p
        BY <3>2, <4>1
      <4>2. CASE x # p
        <5>. DEFINE U == (T \ {p}) \ {x}
        <5>1. U = (T \ {x}) \ {p}
          OBVIOUS
        <5>2. SumFunctionOnSet(f, T \ {p}) = f[x] + SumFunctionOnSet(f, U)
          BY <3>3, <4>2
        <5>3. SumFunctionOnSet(f, T \ {x}) = f[p] + SumFunctionOnSet(f, U)
          <6>1. Removes(T \ {x})
            BY <1>1
          <6>. QED BY <3>1, <4>2, <5>1, <6>1
        <5>4. SumFunctionOnSet(f, U) \in Int
          <6>1. Removes(U)
            BY <1>1, <3>1
          <6>. QED BY <6>1
        <5>5. f[x] \in Int /\ f[p] \in Int
          BY <3>1
        <5>. HIDE DEF U
        <5>. QED BY <3>2, <5>2, <5>3, <5>4, <5>5
      <4>. QED BY <4>1, <4>2
    <3>. QED BY <3>4, <3>5
  <2>. QED BY <2>1, <2>2
<1>. HIDE DEF Good
<1>2. S \in Good
  BY <1>1, SubsetInduction
<1>. QED BY <1>2 DEF Good

\* One more addend, the others unchanged: what a ledger line adds to a balance.
LEMMA SumAdds ==
  ASSUME NEW S, IsFiniteSet(S), NEW x, x \notin S, NEW f, NEW e,
         \A y \in S : f[y] \in Int /\ e[y] = f[y], e[x] \in Int
  PROVE  /\ SumFunctionOnSet(f, S) \in Int
         /\ SumFunctionOnSet(e, S \cup {x}) = SumFunctionOnSet(f, S) + e[x]
<1>1. IsFiniteSet(S \cup {x}) /\ (S \cup {x}) \ {x} = S
  BY FS_AddElement
<1>2. SumFunctionOnSet(e, S \cup {x}) = e[x] + SumFunctionOnSet(e, S)
  BY <1>1, SumRemoves
<1>3. SumFunctionOnSet(e, S) = SumFunctionOnSet(f, S) /\ SumFunctionOnSet(f, S) \in Int
  BY SumAgrees, SumRemoves
<1>. QED BY <1>2, <1>3
=============================================================================

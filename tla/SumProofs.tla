-------------------------------- MODULE SumProofs --------------------------------
(***************************************************************************)
(* Proofs about the two models that add things up: Ratings, whose bands    *)
(* are sums of the weights of what the providers say, and Repair, whose    *)
(* books are as long as their tracks together.  Facts about such sums come *)
(* first, then each model's inductive invariant and its theorems.          *)
(***************************************************************************)
EXTENDS Ratings, Repair, FiniteSetTheorems, WellFoundedInduction, TLAPS

--------------------------------------------------------------------------------
(***************************************************************************)
(* Sums over finite sets.  The library sums by taking out one element      *)
(* after another; what holds of every sum is shown for the smallest set it *)
(* could fail for, which is the form induction takes here.                 *)
(***************************************************************************)
\* The element a sum over T takes out first.
Taken(T) == CHOOSE x \in T : TRUE

LEMMA TakenIsIn == ASSUME NEW T, T # {} PROVE Taken(T) \in T
BY DEF Taken

\* Of the sets of subsets of a finite set, each one that is not empty has a
\* member none of whose proper subsets is in it.
LEMMA Smallest ==
  ASSUME NEW S, IsFiniteSet(S), NEW A, \A T \in A : T \subseteq S, A # {}
  PROVE  \E T \in A : \A U \in A : U \subseteq T => U = T
<1>1. IsWellFoundedOn(StrictSubsetOrdering(S), FiniteSubsetsOf(S))
  BY FS_StrictSubsetOrderingWellFounded
<1>2. FiniteSubsetsOf(S) = SUBSET S
  BY FS_FiniteSubsetsOfFinite
<1>3. PICK T \in A : \A U \in A : ~ (<<U, T>> \in StrictSubsetOrdering(S))
  <2>1. A \subseteq FiniteSubsetsOf(S)
    BY <1>2
  <2>2. QED
    BY <1>1, <2>1, WFMin
<1>4. ASSUME NEW U \in A, U \subseteq T PROVE U = T
  <2>1. U \in SUBSET S /\ T \in SUBSET S
    OBVIOUS
  <2>2. QED
    BY <1>3, <1>4, <2>1 DEF StrictSubsetOrdering
<1>5. QED
  BY <1>4

\* g adds f up over each set of subs.
Unfolds(g, f, subs) ==
  \A T \in subs : g[T] = IF T = {} THEN 0 ELSE f[Taken(T)] + g[T \ {Taken(T)}]

Adds(g, f, subs) == g \in [subs -> Nat] /\ Unfolds(g, f, subs)

\* What is left of a member when one element is taken out is a member too.
Shrinks(subs, S) ==
  subs \subseteq SUBSET S /\ \A T \in subs : T # {} => T \ {Taken(T)} \in subs

LEMMA SubsetsShrink == ASSUME NEW S, NEW A, A \subseteq S PROVE Shrinks(SUBSET A, S)
BY DEF Shrinks

\* Adding up gives one result.
LEMMA AddsOnce ==
  ASSUME NEW S, IsFiniteSet(S), NEW f, NEW A, NEW B, Shrinks(A, S), Shrinks(B, S),
         NEW g, NEW h, Unfolds(g, f, A), Unfolds(h, f, B), NEW T, T \in A, T \in B
  PROVE  g[T] = h[T]
<1> DEFINE Bad == {U \in A \cap B : g[U] # h[U]}
<1>1. SUFFICES ASSUME Bad # {} PROVE FALSE
  OBVIOUS
<1>2. \A U \in Bad : U \subseteq S
  BY DEF Shrinks
<1>3. PICK V \in Bad : \A U \in Bad : U \subseteq V => U = V
  <2> HIDE DEF Bad
  <2>1. QED
    BY <1>1, <1>2, Smallest
<1>4. V \in A /\ V \in B /\ g[V] # h[V]
  OBVIOUS
<1>5. CASE V = {}
  BY <1>4, <1>5 DEF Unfolds
<1>6. CASE V # {}
  <2> DEFINE U == V \ {Taken(V)}
  <2>1. Taken(V) \in V
    BY <1>6, TakenIsIn
  <2>2. U \notin Bad
    BY <1>3, <2>1
  <2>3. U \in A /\ U \in B
    BY <1>4, <1>6 DEF Shrinks
  <2>4. g[U] = h[U]
    BY <2>2, <2>3
  <2>5. g[V] = f[Taken(V)] + g[U] /\ h[V] = f[Taken(V)] + h[U]
    BY <1>4, <1>6 DEF Unfolds
  <2>6. QED
    BY <1>4, <2>4, <2>5
<1>7. QED
  BY <1>5, <1>6

\* Every finite set can be added up over.
LEMMA AddsExists ==
  ASSUME NEW S, IsFiniteSet(S), NEW f, \A x \in S : f[x] \in Nat
  PROVE  \E g : Adds(g, f, SUBSET S)
<1> DEFINE Bad == {T \in SUBSET S : ~ \E g : Adds(g, f, SUBSET T)}
<1>1. SUFFICES ASSUME Bad # {} PROVE FALSE
  <2> HIDE DEF Adds
  <2>1. S \in SUBSET S
    OBVIOUS
  <2>2. QED
    BY <2>1
<1>2. PICK T \in Bad : \A U \in Bad : U \subseteq T => U = T
  <2>1. \A U \in Bad : U \subseteq S
    OBVIOUS
  <2> HIDE DEF Bad
  <2>2. QED
    BY <1>1, <2>1, Smallest
<1>3. T \in SUBSET S
  OBVIOUS
<1> DEFINE part(U) == CHOOSE g : Adds(g, f, SUBSET U)
           g == [U \in SUBSET T |-> IF U = {} THEN 0
                                    ELSE f[Taken(U)] + part(U \ {Taken(U)})[U \ {Taken(U)}]]
<1>4. ASSUME NEW U \in SUBSET T, U # T PROVE Adds(part(U), f, SUBSET U)
  <2>1. U \notin Bad /\ U \in SUBSET S
    BY <1>2, <1>3, <1>4
  <2>2. \E h : Adds(h, f, SUBSET U)
    BY <2>1
  <2>3. QED
    BY <2>2
<1>5. ASSUME NEW U \in SUBSET T, U # {}
      PROVE  /\ U \ {Taken(U)} \in SUBSET T /\ U \ {Taken(U)} # T
             /\ Taken(U) \in U /\ f[Taken(U)] \in Nat
             /\ part(U \ {Taken(U)})[U \ {Taken(U)}] \in Nat
  <2>1. Taken(U) \in U
    BY <1>5, TakenIsIn
  <2> DEFINE V == U \ {Taken(U)}
  <2>2. V \in SUBSET T /\ V # T
    BY <2>1
  <2> HIDE DEF V
  <2>3. Adds(part(V), f, SUBSET V)
    BY <1>4, <2>2
  <2> HIDE DEF part
  <2>4. part(V)[V] \in Nat
    BY <2>3 DEF Adds
  <2>5. QED
    BY <1>3, <2>1, <2>2, <2>4 DEF V
<1> HIDE DEF part
<1>6. g \in [SUBSET T -> Nat]
  BY <1>5
<1>7. ASSUME NEW U \in SUBSET T, U # {} PROVE g[U] = f[Taken(U)] + g[U \ {Taken(U)}]
  <2> DEFINE V == U \ {Taken(U)}
  <2>1. V \in SUBSET T /\ V # T
    BY <1>5, <1>7
  <2>2. g[U] = f[Taken(U)] + part(V)[V]
    BY <1>7
  <2> HIDE DEF V
  <2>3. part(V)[V] = g[V]
    <3>1. CASE V = {}
      <4>1. Adds(part(V), f, SUBSET V) /\ V \in SUBSET V
        BY <1>4, <2>1
      <4>2. part(V)[V] = 0
        BY <3>1, <4>1 DEF Adds, Unfolds
      <4>3. QED
        BY <2>1, <3>1, <4>2
    <3>2. CASE V # {}
      <4> DEFINE W == V \ {Taken(V)}
      <4>1. W \in SUBSET T /\ W # T /\ V \in SUBSET V /\ W \in SUBSET V /\ W \in SUBSET W
        BY <1>5, <2>1, <3>2
      <4>2. g[V] = f[Taken(V)] + part(W)[W]
        BY <2>1, <3>2
      <4> HIDE DEF W
      <4>3. Adds(part(V), f, SUBSET V) /\ Adds(part(W), f, SUBSET W)
        BY <1>4, <2>1, <4>1
      <4>4. part(V)[V] = f[Taken(V)] + part(V)[W]
        BY <3>2, <4>1, <4>3 DEF Adds, Unfolds, W
      <4>5. part(V)[W] = part(W)[W]
        <5>1. Shrinks(SUBSET V, S) /\ Shrinks(SUBSET W, S)
          BY <1>3, <2>1, <4>1, SubsetsShrink
        <5>2. Unfolds(part(V), f, SUBSET V) /\ Unfolds(part(W), f, SUBSET W)
          BY <4>3 DEF Adds
        <5> DEFINE A == SUBSET V
                   B == SUBSET W
        <5>3. W \in A /\ W \in B
          BY <4>1
        <5> HIDE DEF A, B
        <5>4. QED
          BY <5>1, <5>2, <5>3, AddsOnce DEF A, B
      <4>6. QED
        BY <4>2, <4>4, <4>5
    <3>3. QED
      BY <3>1, <3>2
  <2>4. QED
    BY <2>2, <2>3 DEF V
<1>8. g[{}] = 0
  OBVIOUS
<1> HIDE DEF g
<1>9. Adds(g, f, SUBSET T)
  BY <1>6, <1>7, <1>8 DEF Adds, Unfolds
<1>10. T \notin Bad
  BY <1>9
<1>11. QED
  BY <1>10

\* What SumFunctionOnSet computes.
LEMMA SumAdds ==
  ASSUME NEW S, IsFiniteSet(S), NEW f, \A x \in S : f[x] \in Nat
  PROVE  \E g : Adds(g, f, SUBSET S) /\ SumFunctionOnSet(f, S) = g[S]
<1> DEFINE iter == CHOOSE h : h = [s \in SUBSET S |-> IF s = {} THEN 0
                                  ELSE f[Taken(s)] + h[s \ {Taken(s)}]]
<1>1. SumFunctionOnSet(f, S) = iter[S]
  BY Zenon DEF SumFunctionOnSet, FoldFunctionOnSet, MapThenFoldSet, Taken
<1>2. PICK g : Adds(g, f, SUBSET S)
  BY AddsExists
<1>3. g = [s \in SUBSET S |-> IF s = {} THEN 0 ELSE f[Taken(s)] + g[s \ {Taken(s)}]]
  BY <1>2 DEF Adds, Unfolds
<1>4. iter = [s \in SUBSET S |-> IF s = {} THEN 0 ELSE f[Taken(s)] + iter[s \ {Taken(s)}]]
  BY <1>3
<1> HIDE DEF iter
<1>5. Unfolds(iter, f, SUBSET S) /\ Unfolds(g, f, SUBSET S)
  BY <1>2, <1>4 DEF Adds, Unfolds
<1>6. iter[S] = g[S]
  BY <1>5, SubsetsShrink, AddsOnce
<1>7. QED
  BY <1>1, <1>2, <1>6

\* A sum is a number no term exceeds.
LEMMA SumHasTerms ==
  ASSUME NEW S, IsFiniteSet(S), NEW f, \A x \in S : f[x] \in Nat
  PROVE  /\ SumFunctionOnSet(f, S) \in Nat
         /\ \A x \in S : f[x] <= SumFunctionOnSet(f, S)
<1>1. PICK g : Adds(g, f, SUBSET S) /\ SumFunctionOnSet(f, S) = g[S]
  BY SumAdds
<1> DEFINE Bad == {T \in SUBSET S : \E x \in T : ~(f[x] <= g[T])}
<1>2. \A T \in SUBSET S : g[T] \in Nat
  BY <1>1 DEF Adds
<1>3. Bad = {}
  <2>1. SUFFICES ASSUME Bad # {} PROVE FALSE
    OBVIOUS
  <2>2. PICK T \in Bad : \A U \in Bad : U \subseteq T => U = T
    <3>1. \A U \in Bad : U \subseteq S
      OBVIOUS
    <3> HIDE DEF Bad
    <3>2. QED
      BY <2>1, <3>1, Smallest
  <2>3. PICK x \in T : ~(f[x] <= g[T])
    OBVIOUS
  <2>4. Taken(T) \in T /\ T \in SUBSET S
    BY <2>3, TakenIsIn
  <2> DEFINE U == T \ {Taken(T)}
  <2>5. U \in SUBSET S /\ U \subseteq T /\ U # T
    BY <2>4
  <2>6. g[T] = f[Taken(T)] + g[U]
    BY <1>1, <2>4 DEF Adds, Unfolds
  <2>7. \A y \in U : f[y] <= g[U]
    <3>1. U \notin Bad
      BY <2>2, <2>5
    <3>2. QED
      BY <2>5, <3>1
  <2>8. f[Taken(T)] \in Nat /\ f[x] \in Nat /\ g[U] \in Nat
    BY <1>2, <2>3, <2>4, <2>5
  <2>9. x = Taken(T) \/ x \in U
    BY <2>3
  <2> HIDE DEF U
  <2>10. QED
    BY <2>3, <2>6, <2>7, <2>8, <2>9
<1>4. S \in SUBSET S /\ S \notin Bad
  BY <1>3
<1>5. QED
  BY <1>1, <1>2, <1>4

\* A sum is at most its greatest term times the number of terms that count.
LEMMA SumIsBounded ==
  ASSUME NEW S, IsFiniteSet(S), NEW f, \A x \in S : f[x] \in Nat,
         NEW Z \in SUBSET S, NEW b \in Nat, \A x \in S : f[x] <= b /\ (x \notin Z => f[x] = 0)
  PROVE  SumFunctionOnSet(f, S) <= b * Cardinality(Z)
<1>1. PICK g : Adds(g, f, SUBSET S) /\ SumFunctionOnSet(f, S) = g[S]
  BY SumAdds
<1> DEFINE Bad == {T \in SUBSET S : ~(g[T] <= b * Cardinality(T \cap Z))}
<1>2. \A T \in SUBSET S : g[T] \in Nat
  BY <1>1 DEF Adds
<1>3. \A T \in SUBSET S : IsFiniteSet(T \cap Z) /\ Cardinality(T \cap Z) \in Nat
  <2>1. ASSUME NEW T \in SUBSET S PROVE IsFiniteSet(T \cap Z)
    <3>1. T \cap Z \in SUBSET S
      OBVIOUS
    <3>2. QED
      BY <3>1, FS_Subset
  <2>2. QED
    BY <2>1, FS_CardinalityType
<1>4. Bad = {}
  <2>1. SUFFICES ASSUME Bad # {} PROVE FALSE
    OBVIOUS
  <2>2. PICK T \in Bad : \A U \in Bad : U \subseteq T => U = T
    <3>1. \A U \in Bad : U \subseteq S
      OBVIOUS
    <3> HIDE DEF Bad
    <3>2. QED
      BY <2>1, <3>1, Smallest
  <2>3. T \in SUBSET S /\ ~(g[T] <= b * Cardinality(T \cap Z))
    OBVIOUS
  <2>4. T # {}
    <3>1. SUFFICES ASSUME T = {} PROVE FALSE
      OBVIOUS
    <3>2. g[T] = 0 /\ T \cap Z = {}
      BY <1>1, <3>1 DEF Adds, Unfolds
    <3>3. Cardinality(T \cap Z) = 0 /\ b * 0 = 0
      BY <3>2, FS_EmptySet
    <3>4. QED
      BY <2>3, <3>2, <3>3
  <2> DEFINE x == Taken(T)
             U == T \ {x}
             c == Cardinality(U \cap Z)
             d == Cardinality(T \cap Z)
  <2>5. x \in T /\ x \in S
    BY <2>3, <2>4, TakenIsIn
  <2>6. U \in SUBSET S /\ U \subseteq T /\ U # T
    BY <2>5
  <2>7. g[T] = f[x] + g[U]
    BY <1>1, <2>3, <2>4 DEF Adds, Unfolds
  <2>8. U \notin Bad
    BY <2>2, <2>6
  <2>9. g[U] <= b * c
    BY <2>6, <2>8
  <2>10. d = IF x \in Z THEN c + 1 ELSE c
    <3>1. U \cap Z = (T \cap Z) \ {x} /\ (x \in T \cap Z <=> x \in Z)
      BY <2>5
    <3>2. IsFiniteSet(T \cap Z) /\ d \in Nat /\ c \in Nat
      BY <1>3, <2>3, <2>6
    <3> DEFINE e == Cardinality((T \cap Z) \ {x})
    <3>3. e = IF x \in T \cap Z THEN d - 1 ELSE d
      BY <3>2, FS_RemoveElement
    <3>4. c = e
      BY <3>1
    <3> HIDE DEF c, d, e, x
    <3>5. QED
      BY <3>1, <3>2, <3>3, <3>4
  <2>11. /\ f[x] \in Nat /\ g[U] \in Nat /\ g[T] \in Nat /\ c \in Nat /\ d \in Nat
         /\ f[x] <= b /\ (x \notin Z => f[x] = 0)
    BY <1>2, <1>3, <2>3, <2>5, <2>6
  <2>12. ~(g[T] <= b * d)
    BY <2>3
  <2> HIDE DEF x, U, c, d
  <2>13. CASE x \in Z
    <3>1. b * d = b * c + b /\ b * c \in Nat
      BY <2>10, <2>11, <2>13
    <3>2. QED
      BY <2>7, <2>9, <2>11, <2>12, <2>13, <3>1
  <2>14. CASE x \notin Z
    <3>1. d = c /\ f[x] = 0 /\ b * c \in Nat
      BY <2>10, <2>11, <2>14
    <3>2. QED
      BY <2>7, <2>9, <2>11, <2>12, <3>1
  <2>15. QED
    BY <2>13, <2>14
<1>5. S \in SUBSET S /\ S \notin Bad /\ S \cap Z = Z
  BY <1>4
<1>6. QED
  BY <1>1, <1>5

\* The greatest of finitely many numbers is one of them.
LEMMA MaxOfFinite ==
  ASSUME NEW S \in SUBSET Nat, S # {}, IsFiniteSet(S)
  PROVE  /\ Max(S) \in S
         /\ \A y \in S : y <= Max(S)
<1> DEFINE From(x) == {y \in S : x <= y}
           A == {From(x) : x \in S}
<1>2. (\A T \in A : T \subseteq S) /\ A # {}
  OBVIOUS
<1>3. PICK T \in A : \A U \in A : U \subseteq T => U = T
  <2> HIDE DEF A
  <2>1. QED
    BY <1>2, Smallest
<1>4. PICK x \in S : T = From(x)
  OBVIOUS
<1>5. ASSUME NEW y \in S PROVE x >= y
  <2>1. SUFFICES ASSUME ~(x >= y) PROVE FALSE
    OBVIOUS
  <2>2. /\ x \in Nat /\ y \in Nat /\ x < y /\ x <= x
        /\ \A z \in S : z \in Nat /\ (y <= z => x <= z) /\ (z = x => ~(y <= z))
    BY <2>1
  <2>3. From(y) \in A /\ From(y) \subseteq T /\ x \in T /\ x \notin From(y)
    BY <1>4, <2>2
  <2>4. From(y) = T
    BY <1>3, <2>3
  <2>5. QED
    BY <2>3, <2>4
<1>6. Max(S) \in S /\ \A y \in S : Max(S) >= y
  BY <1>5 DEF Max
<1>7. QED
  BY <1>6

LEMMA MaxIsIn ==
  ASSUME NEW S \in SUBSET Nat, S # {}, NEW n \in Nat, \A x \in S : x <= n
  PROVE  /\ Max(S) \in S
         /\ \A y \in S : y <= Max(S)
<1>1. IsFiniteSet(S)
  BY FS_BoundedSetOfNaturals
<1>2. QED
  BY <1>1, MaxOfFinite

LEMMA MinOfTwo == ASSUME NEW a \in Nat, NEW b \in Nat PROVE Min({a, b}) \in {a, b}
<1>1. \E x \in {a, b} : \A y \in {a, b} : x <= y
  <2>1. a <= b \/ b <= a
    OBVIOUS
  <2>2. QED
    BY <2>1
<1>2. QED
  BY <1>1 DEF Min

--------------------------------------------------------------------------------
(***************************************************************************)
(* Ratings: what a rule scores.                                            *)
(***************************************************************************)
\* A signal weighs something, its label's own worth at most, and enough where it
\* is not the storefront's young adult.
Weighed(s) == /\ s.weight \in 7 .. 19
              /\ s.label # "MATURE" => s.weight <= 18
              /\ s.label # "young-adult" => s.weight >= 11

LEMMA SignalsAreWeighed ==
  ASSUME NEW p \in Providers, NEW r, NEW s \in Signals(p, r)
  PROVE  Weighed(s)
<1>1. p \in {"audible", "audnexus", "applebooks", "googlebooks", "openlibrary", "audiosilo"}
  BY RatingsAssumption
<1>2. ASSUME NEW l, NEW w \in 11 .. 18 PROVE Weighed(Signal(l, w))
  <2>1. Signal(l, w).weight = w /\ w \in 7 .. 19 /\ w <= 18 /\ w >= 11
    BY DEF Signal
  <2>2. QED
    BY <2>1 DEF Weighed
<1>3. Weighed(Signal("MATURE", 19)) /\ Weighed(Signal("MATURE", 18)) /\ Weighed(Signal("young-adult", 7))
  BY DEF Weighed, Signal
<1>4. ASSUME NEW x \in Mature(r, 19) PROVE Weighed(x)
  BY <1>3, <1>4 DEF Mature
<1>5. ASSUME NEW x \in AudibleSignals(r) PROVE Weighed(x)
  <2>1. CASE x \in Mature(r, 19)
    BY <1>4, <2>1
  <2>2. CASE x \in {Signal(l, IF l \in Leaves(r) THEN 18 ELSE 11) : l \in Said(r)}
    BY <1>2, <2>2
  <2>3. QED
    BY <1>5, <2>1, <2>2 DEF AudibleSignals
<1>6. ASSUME NEW x \in AudnexusSignals(r) PROVE Weighed(x)
  <2>1. CASE x \in Mature(r, 19)
    BY <1>4, <2>1
  <2>2. CASE x \in {Signal(l, 18) : l \in Said(r)}
    BY <1>2, <2>2
  <2>3. QED
    BY <1>6, <2>1, <2>2 DEF AudnexusSignals
<1>7. ASSUME NEW x \in AppleSignals(r) PROVE Weighed(x)
  <2>1. PICK l \in Said(r) : x = Signal(l, IF l = "young-adult" THEN 7 ELSE 16)
    BY <1>7 DEF AppleSignals
  <2>2. CASE l = "young-adult"
    BY <1>3, <2>1, <2>2
  <2>3. CASE l # "young-adult"
    <3>1. x = Signal(l, 16)
      BY <2>1, <2>3
    <3>2. QED
      BY <1>2, <3>1
  <2>4. QED
    BY <2>2, <2>3
<1>8. ASSUME NEW x \in GoogleSignals(r) PROVE Weighed(x)
  BY <1>2, <1>8 DEF GoogleSignals
<1>9. ASSUME NEW x \in OpenLibrarySignals(r) PROVE Weighed(x)
  BY <1>2, <1>9 DEF OpenLibrarySignals
<1>10. ASSUME NEW x \in AudioSiloSignals(r) PROVE Weighed(x)
  BY <1>2, <1>10 DEF AudioSiloSignals
<1>11. QED
  BY <1>1, <1>5, <1>6, <1>7, <1>8, <1>9, <1>10 DEF Signals

\* What the rules are like: enough of a strength each, and the kids' shelf little.
LEMMA RulesAreRules ==
  /\ \A r \in Rules : r.strength \in 3 .. 10 /\ r.band \in Range(AgeBands) \cup {"none"}
  /\ KidsShelf \in Rules /\ KidsShelf.strength = 3 /\ "MATURE" \notin KidsShelf.patterns
  /\ \A r \in Rules : r.band = "early-reader" => "young-adult" \notin r.patterns
<1>0. \A a, b, c, d : /\ Rule(a, b, c, d).patterns = a /\ Rule(a, b, c, d).band = b
                      /\ Rule(a, b, c, d).strength = d
  BY DEF Rule
<1>1. Range(AgeBands) = {"early-reader", "middle-grade", "young-adult", "adult"}
  BY DEF Range, AgeBands
<1>2. \A r \in Rules : r.strength \in 3 .. 10
  BY <1>0 DEF Rules, KidsShelf
<1>3. \A r \in Rules : r.band \in Range(AgeBands) \cup {"none"}
  BY <1>0, <1>1 DEF Rules, KidsShelf
<1>4. KidsShelf \in Rules /\ KidsShelf.strength = 3 /\ "MATURE" \notin KidsShelf.patterns
  <2>1. KidsShelf \in Rules
    BY DEF Rules
  <2>2. KidsShelf.strength = 3 /\ KidsShelf.patterns = {"kids-shelf", "kids"}
    BY <1>0 DEF KidsShelf
  <2>3. QED
    BY <2>1, <2>2
<1>5. \A r \in Rules : r.band = "early-reader" => "young-adult" \notin r.patterns
  BY <1>0 DEF Rules, KidsShelf
<1>6. QED
  BY <1>2, <1>3, <1>4, <1>5

LEMMA FiveAreFinite ==
  ASSUME NEW a, NEW b, NEW c, NEW d, NEW e
  PROVE  IsFiniteSet({a, b, c, d, e})
<1>1. IsFiniteSet({a}) /\ IsFiniteSet({b}) /\ IsFiniteSet({c}) /\ IsFiniteSet({d}) /\ IsFiniteSet({e})
  BY FS_Singleton
<1>2. IsFiniteSet({a} \cup {b}) /\ IsFiniteSet({c} \cup {d})
  BY <1>1, FS_Union
<1>3. IsFiniteSet(({a} \cup {b}) \cup ({c} \cup {d}))
  BY <1>2, FS_Union
<1>4. IsFiniteSet((({a} \cup {b}) \cup ({c} \cup {d})) \cup {e})
  BY <1>1, <1>3, FS_Union
<1>5. {a, b, c, d, e} = (({a} \cup {b}) \cup ({c} \cup {d})) \cup {e}
  OBVIOUS
<1>6. QED
  BY <1>4, <1>5

LEMMA RulesAreFinite == IsFiniteSet(Rules)
<1> DEFINE A == {Rule({"picture-books", "early-readers"}, "early-reader", {}, 10),
                 Rule({"ages-3-5"}, "early-reader", {}, 10),
                 Rule({"reader-level-1"}, "early-reader", {}, 8),
                 Rule({"basic-concepts"}, "early-reader", {}, 9),
                 KidsShelf}
           B == {Rule({"middle-grade"}, "middle-grade", {}, 10),
                 Rule({"juvenile-fiction"}, "middle-grade", {}, 9),
                 Rule({"ages-8-12"}, "middle-grade", {}, 10),
                 Rule({"chapter-books"}, "middle-grade", {}, 7),
                 Rule({"fiction-for-kids"}, "middle-grade", {}, 8)}
           C == {Rule({"young-adult"}, "young-adult", {}, 10),
                 Rule({"ages-12-and-up"}, "young-adult", {}, 10),
                 Rule({"literary-fiction"}, "adult", {}, 6),
                 Rule({"MATURE"}, "adult", {"sexual-content"}, 10),
                 Rule({"erotica"}, "adult", {"sexual-content"}, 10)}
           D == {Rule({"sexuality"}, "none", {"sexual-content"}, 8),
                 Rule({"romance"}, "none", {"romance"}, 7),
                 Rule({"massacres"}, "adult", {"violence"}, 9),
                 Rule({"murder", "war"}, "none", {"violence"}, 7),
                 Rule({"profanity"}, "none", {"profanity"}, 8)}
           E == {Rule({"alcoholism"}, "none", {"substance-use"}, 8),
                 Rule({"smoking"}, "none", {"substance-use"}, 4),
                 Rule({"ghosts"}, "none", {"horror"}, 6),
                 Rule({"suicide"}, "none", {"self-harm"}, 9),
                 Rule({"bible"}, "none", {"religion"}, 6)}
<1>1. Rules = A \cup B \cup C \cup D \cup E
  BY DEF Rules
<1>2. IsFiniteSet(A) /\ IsFiniteSet(B) /\ IsFiniteSet(C) /\ IsFiniteSet(D) /\ IsFiniteSet(E)
  BY FiveAreFinite
<1> HIDE DEF A, B, C, D, E
<1>3. IsFiniteSet(A \cup B)
  BY <1>2, FS_Union
<1>4. IsFiniteSet(A \cup B \cup C)
  BY <1>2, <1>3, FS_Union
<1>5. IsFiniteSet(A \cup B \cup C \cup D)
  BY <1>2, <1>4, FS_Union
<1>6. IsFiniteSet(A \cup B \cup C \cup D \cup E)
  BY <1>2, <1>5, FS_Union
<1>7. QED
  BY <1>1, <1>6

LEMMA ProvidersAreFinite == IsFiniteSet(Providers)
<1>1. IsFiniteSet({"audible", "audnexus", "applebooks", "googlebooks", "openlibrary"} \cup {"audiosilo"})
  BY FiveAreFinite, FS_AddElement
<1>2. Providers \subseteq {"audible", "audnexus", "applebooks", "googlebooks", "openlibrary"} \cup {"audiosilo"}
  BY RatingsAssumption
<1>3. QED
  BY <1>1, <1>2, FS_Subset

\* What a rule makes of some signals: more than nothing if one of them is its
\* own, and no more than its strength and the weight of its matches allow.
LEMMA StrongestBounds ==
  ASSUME NEW signals, \A s \in signals : Weighed(s), NEW r \in Rules
  PROVE  /\ Strongest(signals, r) \in Nat
         /\ ~Matches(signals, r) => Strongest(signals, r) = 0
         /\ \A s \in signals : s.label \in r.patterns => r.strength * s.weight <= Strongest(signals, r)
         /\ \A w \in Nat : (\A s \in signals : s.label \in r.patterns => s.weight <= w)
              => Strongest(signals, r) <= r.strength * w
<1> DEFINE own == {s \in signals : s.label \in r.patterns}
           S == {0} \cup {r.strength * s.weight : s \in own}
<1>1. r.strength \in 3 .. 10
  BY RulesAreRules
<1>2. \A s \in own : s.weight \in 7 .. 19
  BY DEF Weighed
<1>3. \A s \in own : r.strength * s.weight \in 0 .. 190
  <2>1. ASSUME NEW a \in 3 .. 10, NEW b \in 7 .. 19 PROVE a * b \in 0 .. 190
    <3>1. a * b \in Nat
      OBVIOUS
    <3>2. a * b <= 10 * b /\ 10 * b <= 190
      OBVIOUS
    <3>3. QED
      BY <3>1, <3>2
  <2>2. QED
    BY <1>1, <1>2, <2>1
<1>4. S \in SUBSET Nat /\ S # {} /\ \A x \in S : x <= 190
  BY <1>3
<1>5. Strongest(signals, r) = Max(S)
  BY DEF Strongest
<1>6. Strongest(signals, r) \in S /\ \A y \in S : y <= Strongest(signals, r)
  <2> HIDE DEF S
  <2>1. QED
    BY <1>4, <1>5, MaxIsIn
<1>7. ~Matches(signals, r) => own = {}
  BY DEF Matches
<1>8. ASSUME NEW w \in Nat, \A s \in own : s.weight <= w PROVE Strongest(signals, r) <= r.strength * w
  <2>1. ASSUME NEW a \in 3 .. 10, NEW b \in 7 .. 19, b <= w PROVE a * b <= a * w /\ 0 <= a * w
    BY <2>1
  <2>2. 0 <= r.strength * w
    BY <1>1
  <2>3. \A s \in own : r.strength * s.weight <= r.strength * w
    BY <1>1, <1>2, <1>8, <2>1
  <2>4. QED
    BY <1>6, <2>2, <2>3
<1>9. QED
  BY <1>4, <1>6, <1>7, <1>8

\* All that the catalogues said weighs something.
AllWeighed(results) ==
  \A p \in Providers : \A s \in UNION Range(results[p]) : Weighed(s)

Says(results, p, r) == Matches(UNION Range(results[p]), r)

\* What a set of rules makes of one catalogue: no less than each of them, nothing
\* if none speaks, and little if it is the kids' shelf that speaks.
LEMMA WeightBounds ==
  ASSUME NEW results, AllWeighed(results), NEW p \in Providers, NEW rules \in SUBSET Rules
  PROVE  /\ Weight(results, p, rules) \in Nat
         /\ \A r \in rules : Says(results, p, r) =>
              Contribution(results[p], r) <= Weight(results, p, rules)
         /\ (\A r \in rules : ~Says(results, p, r)) => Weight(results, p, rules) = 0
         /\ (\A r \in rules : Says(results, p, r) => r = KidsShelf) =>
              Weight(results, p, rules) <= 54
<1> DEFINE S == {r \in rules : Matches(UNION Range(results[p]), r)}
           f == [r \in S |-> Contribution(results[p], r)]
<1>1. IsFiniteSet(S)
  <2>1. S \in SUBSET Rules
    OBVIOUS
  <2>2. QED
    BY <2>1, RulesAreFinite, FS_Subset
<1>2. Weight(results, p, rules) = SumFunctionOnSet(f, S)
  <2>1. DOMAIN f = S
    OBVIOUS
  <2>2. Weight(results, p, rules) = SumFunction(f)
    BY DEF Weight
  <2> HIDE DEF f, S
  <2>3. QED
    BY <2>1, <2>2 DEF SumFunction
<1>3. \A s \in UNION Range(results[p]) : Weighed(s)
  BY DEF AllWeighed
<1>4. \A r \in rules : Contribution(results[p], r) \in Nat
  <2>1. ASSUME NEW r \in rules PROVE Strongest(UNION Range(results[p]), r) \in Nat
    BY <1>3, StrongestBounds
  <2>2. QED
    BY <2>1 DEF Contribution
<1>5. \A r \in S : f[r] \in Nat /\ f[r] = Contribution(results[p], r)
  BY <1>4
<1>6. \A r \in rules : Says(results, p, r) <=> r \in S
  BY DEF Says
<1>7. \A r \in S : r \in rules
  OBVIOUS
<1> HIDE DEF f, S
<1>8. SumFunctionOnSet(f, S) \in Nat /\ \A r \in S : f[r] <= SumFunctionOnSet(f, S)
  BY <1>1, <1>5, SumHasTerms
<1>9. ASSUME S = {} PROVE SumFunctionOnSet(f, S) = 0
  <2>1. \A r \in S : f[r] <= 0 /\ (r \notin {} => f[r] = 0)
    BY <1>9
  <2>2. SumFunctionOnSet(f, S) <= 0 * Cardinality({})
    BY <1>1, <1>5, <2>1, SumIsBounded
  <2>3. QED
    BY <1>8, <2>2, FS_EmptySet
<1>10. ASSUME \A r \in S : r = KidsShelf PROVE SumFunctionOnSet(f, S) <= 54
  <2>1. \A s \in UNION Range(results[p]) : s.label \in KidsShelf.patterns => s.weight <= 18
    BY <1>3, RulesAreRules DEF Weighed
  <2>2. Strongest(UNION Range(results[p]), KidsShelf) <= KidsShelf.strength * 18
    BY <1>3, <2>1, RulesAreRules, StrongestBounds
  <2>3. KidsShelf.strength * 18 = 54
    BY RulesAreRules
  <2>4. \A r \in S : f[r] <= 54 /\ (r \notin S => f[r] = 0)
    BY <1>5, <1>10, <2>2, <2>3 DEF Contribution
  <2>5. SumFunctionOnSet(f, S) <= 54 * Cardinality(S)
    BY <1>1, <1>5, <2>4, SumIsBounded
  <2>6. Cardinality(S) \in Nat /\ Cardinality(S) <= 1
    <3>1. IsFiniteSet({KidsShelf}) /\ Cardinality({KidsShelf}) = 1
      BY FS_Singleton
    <3>2. S \subseteq {KidsShelf}
      BY <1>10
    <3>3. Cardinality(S) <= 1
      BY <3>1, <3>2, FS_Subset
    <3>4. QED
      BY <1>1, <3>3, FS_CardinalityType
  <2>7. QED
    BY <1>8, <2>5, <2>6
<1>11. QED
  BY <1>2, <1>5, <1>6, <1>7, <1>8, <1>9, <1>10

\* What a set of rules makes of all catalogues.
LEMMA SummedBounds ==
  ASSUME NEW results, AllWeighed(results), NEW rules \in SUBSET Rules
  PROVE  /\ Summed(results, rules) \in Nat
         /\ \A p \in Providers, r \in rules : Says(results, p, r) =>
              Contribution(results[p], r) <= Summed(results, rules)
         /\ (\A p \in Providers, r \in rules : ~Says(results, p, r)) => Summed(results, rules) = 0
         /\ \A Z \in SUBSET Providers :
              (\A p \in Providers, r \in rules : Says(results, p, r) => p \in Z /\ r = KidsShelf) =>
                Summed(results, rules) <= 54 * Cardinality(Z)
<1> DEFINE f == [p \in Providers |-> Weight(results, p, rules)]
<1>1. Summed(results, rules) = SumFunctionOnSet(f, Providers)
  <2>1. DOMAIN f = Providers /\ Summed(results, rules) = SumFunction(f)
    BY DEF Summed
  <2> HIDE DEF f
  <2>2. QED
    BY <2>1 DEF SumFunction
<1>2. \A p \in Providers : f[p] = Weight(results, p, rules) /\ f[p] \in Nat
  BY WeightBounds
<1> HIDE DEF f
<1>3. /\ SumFunctionOnSet(f, Providers) \in Nat
      /\ \A p \in Providers : f[p] <= SumFunctionOnSet(f, Providers)
  BY <1>2, ProvidersAreFinite, SumHasTerms
<1>4. ASSUME NEW p \in Providers, NEW r \in rules, Says(results, p, r)
      PROVE  Contribution(results[p], r) <= Summed(results, rules)
  <2>1. Contribution(results[p], r) <= f[p] /\ f[p] <= Summed(results, rules)
    BY <1>1, <1>2, <1>3, <1>4, WeightBounds
  <2>2. Contribution(results[p], r) \in Nat
    <3>1. \A s \in UNION Range(results[p]) : Weighed(s)
      BY DEF AllWeighed
    <3>2. QED
      BY <3>1, StrongestBounds DEF Contribution
  <2>3. QED
    BY <1>1, <1>2, <1>3, <2>1, <2>2
<1>5. ASSUME NEW Z \in SUBSET Providers,
             \A p \in Providers, r \in rules : Says(results, p, r) => p \in Z /\ r = KidsShelf
      PROVE  Summed(results, rules) <= 54 * Cardinality(Z)
  <2>1. ASSUME NEW p \in Providers PROVE f[p] <= 54 /\ (p \notin Z => f[p] = 0)
    <3>1. /\ \A r \in rules : Says(results, p, r) => r = KidsShelf
          /\ p \notin Z => \A r \in rules : ~Says(results, p, r)
      BY <1>5
    <3>2. QED
      BY <1>2, <3>1, WeightBounds
  <2>2. QED
    BY <1>1, <1>2, <2>1, ProvidersAreFinite, SumIsBounded
<1>6. ASSUME \A p \in Providers, r \in rules : ~Says(results, p, r)
      PROVE  Summed(results, rules) = 0
  <2>1. Summed(results, rules) <= 54 * Cardinality({})
    BY <1>5, <1>6
  <2>2. QED
    BY <1>1, <1>3, <2>1, FS_EmptySet
<1>7. QED
  BY <1>1, <1>3, <1>4, <1>5, <1>6

\* Whatever a rule hears counts for something, and a full rule for more than two
\* of the kids' shelves.
LEMMA HeardCounts ==
  ASSUME NEW results, AllWeighed(results), NEW p \in Providers, NEW r \in Rules, Says(results, p, r)
  PROVE  /\ Contribution(results[p], r) \in Nat \ {0}
         /\ r.band = "early-reader" /\ r.strength = 10 => Contribution(results[p], r) >= 110
<1>1. PICK s \in UNION Range(results[p]) : s.label \in r.patterns
  BY DEF Says, Matches
<1>2. \A x \in UNION Range(results[p]) : Weighed(x)
  BY DEF AllWeighed
<1>3. /\ s.weight \in 7 .. 19 /\ r.strength \in 3 .. 10
      /\ r.band = "early-reader" => s.weight >= 11
  BY <1>1, <1>2, RulesAreRules DEF Weighed
<1>4. /\ Strongest(UNION Range(results[p]), r) \in Nat
      /\ r.strength * s.weight <= Strongest(UNION Range(results[p]), r)
  BY <1>1, <1>2, StrongestBounds
<1>5. ASSUME NEW a \in 3 .. 10, NEW b \in 7 .. 19
      PROVE  a * b \in Nat /\ a * b >= 21 /\ (b >= 11 => 10 * b >= 110)
  <2>1. a * b \in Nat
    OBVIOUS
  <2>2. a * b >= 3 * b
    OBVIOUS
  <2>3. QED
    BY <2>1, <2>2
<1>6. /\ r.strength * s.weight \in Nat /\ r.strength * s.weight >= 21
      /\ s.weight >= 11 => 10 * s.weight >= 110
  BY <1>3, <1>5
<1> DEFINE c == Contribution(results[p], r)
<1>7. c \in Nat /\ r.strength * s.weight <= c
  BY <1>4 DEF Contribution
<1> HIDE DEF c
<1>8. c \in Nat /\ c >= 21
  BY <1>6, <1>7
<1>9. r.band = "early-reader" /\ r.strength = 10 => c >= 110
  BY <1>3, <1>6, <1>7
<1>10. QED
  BY <1>8, <1>9 DEF c

LEMMA TopOfFour ==
  ASSUME NEW s \in [1 .. 4 -> Nat]
  PROVE  /\ TopOf(s) \in 1 .. 4
         /\ \A j \in 1 .. 4 : s[j] <= s[TopOf(s)]
         /\ \A j \in 1 .. TopOf(s) - 1 : s[j] < s[TopOf(s)]
<1> DEFINE Top(k) == /\ \A j \in DOMAIN s : s[j] <= s[k]
                     /\ \A j \in 1 .. k - 1 : s[j] < s[k]
<1>0. DOMAIN s = {1, 2, 3, 4} /\ 1 .. 4 = {1, 2, 3, 4}
  OBVIOUS
<1>1. /\ s[1] \in Nat /\ s[2] \in Nat /\ s[3] \in Nat /\ s[4] \in Nat
  OBVIOUS
<1>2. 1 .. 1 - 1 = {} /\ 1 .. 2 - 1 = {1} /\ 1 .. 3 - 1 = {1, 2} /\ 1 .. 4 - 1 = {1, 2, 3}
  OBVIOUS
<1>3. /\ Top(1) <=> s[2] <= s[1] /\ s[3] <= s[1] /\ s[4] <= s[1]
      /\ Top(2) <=> s[1] < s[2] /\ s[3] <= s[2] /\ s[4] <= s[2]
      /\ Top(3) <=> s[1] < s[3] /\ s[2] < s[3] /\ s[4] <= s[3]
      /\ Top(4) <=> s[1] < s[4] /\ s[2] < s[4] /\ s[3] < s[4]
  BY <1>0, <1>1, <1>2
<1> HIDE DEF Top
<1>4. Top(1) \/ Top(2) \/ Top(3) \/ Top(4)
  BY <1>1, <1>3
<1>5. \E k \in DOMAIN s : Top(k)
  BY <1>0, <1>4
<1>6. TopOf(s) \in DOMAIN s /\ Top(TopOf(s))
  BY <1>5 DEF TopOf, Top
<1>7. QED
  BY <1>0, <1>6 DEF Top

\* The scores of the bands, youngest first.
Scores(results) == <<Score(results, AgeBands[1]), Score(results, AgeBands[2]),
                     Score(results, AgeBands[3]), Score(results, AgeBands[4])>>

LEMMA BandsAreFour ==
  /\ AgeBands[1] = "early-reader" /\ AgeBands[2] = "middle-grade"
  /\ AgeBands[3] = "young-adult" /\ AgeBands[4] = "adult"
  /\ Range(AgeBands) = {"early-reader", "middle-grade", "young-adult", "adult"}
BY DEF AgeBands, Range

LEMMA ScoreBounds ==
  ASSUME NEW results, AllWeighed(results), NEW band
  PROVE  /\ Score(results, band) \in Nat
         /\ Score(results, band) # 0 <=> \E p \in Providers, r \in Rules : r.band = band /\ Says(results, p, r)
<1> DEFINE rules == {r \in Rules : r.band = band}
<1>1. rules \in SUBSET Rules /\ Score(results, band) = Summed(results, rules)
  BY DEF Score
<1>2. Summed(results, rules) \in Nat
  BY <1>1, SummedBounds
<1>3. ASSUME NEW p \in Providers, NEW r \in Rules, r.band = band, Says(results, p, r)
      PROVE  Summed(results, rules) # 0
  <2>1. Contribution(results[p], r) <= Summed(results, rules)
    BY <1>1, <1>3, SummedBounds
  <2>2. Contribution(results[p], r) \in Nat \ {0}
    BY <1>3, HeardCounts
  <2>3. QED
    BY <1>2, <2>1, <2>2
<1>4. (\A p \in Providers, r \in rules : ~Says(results, p, r)) => Summed(results, rules) = 0
  BY <1>1, SummedBounds
<1>5. QED
  BY <1>1, <1>2, <1>3, <1>4

LEMMA RoundDivIsNat == ASSUME NEW a \in Nat, NEW b \in Nat, b > 0 PROVE RoundDiv(a, b) \in Nat
<1> DEFINE c == 2 * a + b
           d == 2 * b
<1>1. c \in Nat /\ d \in Nat /\ d > 0
  OBVIOUS
<1>2. RoundDiv(a, b) = c \div d
  BY DEF RoundDiv
<1> HIDE DEF c, d
<1>3. c \div d \in Nat
  BY <1>1
<1>4. QED
  BY <1>2, <1>3

LEMMA ConfidenceIsNat == ASSUME NEW top \in Nat, NEW next \in Nat PROVE Confidence(top, next) \in Nat
<1>1. CASE top = 0
  BY <1>1 DEF Confidence
<1>2. CASE top # 0
  <2> DEFINE m == Min({180, top})
             n == 10 * top + next
             b == 18 * (top + next)
  <2>1. m \in Nat
    BY MinOfTwo
  <2>2. n \in Nat /\ b \in Nat /\ b > 0
    BY <1>2
  <2>3. Confidence(top, next) = RoundDiv(m * n, b)
    BY <1>2 DEF Confidence
  <2> HIDE DEF m, n, b
  <2>4. m * n \in Nat
    BY <2>1, <2>2
  <2>5. QED
    BY <2>2, <2>3, <2>4, RoundDivIsNat
<1>3. QED
  BY <1>1, <1>2

LEMMA DescribedIsNat ==
  ASSUME NEW results
  PROVE  /\ DescribedBy(results) \in Nat
         /\ DescribedBy(results) >= 2 =>
              \E p, q \in Providers : /\ p # q /\ UNION Range(results[p]) # {}
                                      /\ UNION Range(results[q]) # {}
<1> DEFINE S == {p \in Providers : UNION Range(results[p]) # {}}
<1>1. S \in SUBSET Providers /\ DescribedBy(results) = Cardinality(S)
  BY DEF DescribedBy
<1>2. IsFiniteSet(S)
  BY <1>1, ProvidersAreFinite, FS_Subset
<1>3. Cardinality(S) \in Nat
  BY <1>2, FS_CardinalityType
<1>4. ASSUME Cardinality(S) >= 2 PROVE \E p, q \in S : p # q
  <2>1. SUFFICES ASSUME \A p, q \in S : p = q PROVE FALSE
    OBVIOUS
  <2>2. S # {}
    BY <1>4, FS_EmptySet
  <2>3. PICK p \in S : S = {p}
    <3>1. PICK p \in S : TRUE
      BY <2>2
    <3>2. S = {p}
      BY <2>1, <3>1
    <3>3. QED
      BY <3>2
  <2>4. Cardinality(S) = 1
    BY <2>3, FS_Singleton
  <2>5. QED
    BY <1>4, <2>4
<1>5. QED
  BY <1>1, <1>3, <1>4

\* What assessContent makes of the scores.
LEMMA Assessed ==
  ASSUME NEW results, AllWeighed(results)
  PROVE  LET a == Assess(results)
             s == Scores(results)
             k == TopOf(s)
         IN /\ s \in [1 .. 4 -> Nat] /\ k \in 1 .. 4
            /\ \A j \in 1 .. 4 : s[j] <= s[k]
            /\ \A j \in 1 .. k - 1 : s[j] < s[k]
            /\ a.confidence \in Nat
            /\ s[k] # 0 => a.band = AgeBands[k]
            /\ s[k] = 0 => a.band = IF DescribedBy(results) >= 2 THEN "adult" ELSE "unknown"
            /\ \A x \in a.flags : \E flag \in ContentFlags :
                 /\ x = <<flag, FlagConfidence(Summed(results, {r \in Rules : flag \in r.flags}))>>
                 /\ x[2] >= 20
<1> DEFINE s == Scores(results)
           k == TopOf(s)
           next == Max({s[j] : j \in DOMAIN s \ {k}})
           n == DescribedBy(results)
           byAbsence == s[k] = 0 /\ n >= 2
           a == Assess(results)
<1>1. s \in [1 .. 4 -> Nat]
  <2>1. \A band : Score(results, band) \in Nat
    BY ScoreBounds
  <2>2. QED
    BY <2>1 DEF Scores
<1>2. /\ k \in 1 .. 4
      /\ \A j \in 1 .. 4 : s[j] <= s[k]
      /\ \A j \in 1 .. k - 1 : s[j] < s[k]
  BY <1>1, TopOfFour
<1>3. n \in Nat
  BY DescribedIsNat
<1>4. next \in Nat
  <2> DEFINE T == {s[j] : j \in DOMAIN s \ {k}}
  <2>1. T \in SUBSET Nat /\ \A x \in T : x <= s[k]
    BY <1>1, <1>2
  <2>2. T # {}
    <3>1. 1 \in DOMAIN s /\ 2 \in DOMAIN s
      BY <1>1
    <3>2. QED
      BY <3>1
  <2>3. s[k] \in Nat
    BY <1>1, <1>2
  <2> HIDE DEF T, s, k
  <2>4. Max(T) \in T
    BY <2>1, <2>2, <2>3, MaxIsIn
  <2>5. QED
    BY <2>1, <2>4 DEF T
<1>5. /\ a.band = IF byAbsence THEN "adult" ELSE IF s[k] = 0 THEN "unknown" ELSE AgeBands[k]
      /\ a.confidence = IF byAbsence THEN AbsenceConfidence(n) ELSE Confidence(s[k], next)
      /\ a.flags = {f \in {<<flag, FlagConfidence(Summed(results, {r \in Rules : flag \in r.flags}))>> :
                              flag \in ContentFlags} : f[2] >= 20}
  BY DEF Assess, Scores, MinSourcesForAdultByAbsence
<1> HIDE DEF a, s, k, next, n
<1>6. a.confidence \in Nat
  <2>1. byAbsence => AbsenceConfidence(n) \in Nat
    <3>1. SUFFICES ASSUME byAbsence PROVE AbsenceConfidence(n) \in Nat
      OBVIOUS
    <3>2. 40 + 10 * (n - 2) \in Nat
      BY <1>3, <3>1
    <3>3. Min({60, 40 + 10 * (n - 2)}) \in Nat
      BY <3>2, MinOfTwo
    <3>4. QED
      BY <3>3 DEF AbsenceConfidence, MinSourcesForAdultByAbsence
  <2>2. s[k] \in Nat
    BY <1>1, <1>2
  <2>3. Confidence(s[k], next) \in Nat
    BY <1>4, <2>2, ConfidenceIsNat
  <2>4. QED
    BY <1>5, <2>1, <2>3
<1>7. \A x \in a.flags : \E flag \in ContentFlags :
         /\ x = <<flag, FlagConfidence(Summed(results, {r \in Rules : flag \in r.flags}))>>
         /\ x[2] >= 20
  BY <1>5
<1>8. QED
  BY <1>1, <1>2, <1>5, <1>6, <1>7 DEF a, s, k, n

\* An assessment depends on what each catalogue said, not on how often.
LEMMA HeardIsAll ==
  ASSUME NEW x, NEW y, \A p \in Providers : UNION Range(x[p]) = UNION Range(y[p])
  PROVE  Assess(x) = Assess(y)
<1>1. ASSUME NEW p \in Providers, NEW rules PROVE Weight(x, p, rules) = Weight(y, p, rules)
  <2>1. UNION Range(x[p]) = UNION Range(y[p])
    OBVIOUS
  <2>2. \A r : Contribution(x[p], r) = Contribution(y[p], r)
    BY <2>1 DEF Contribution
  <2> DEFINE S == {r \in rules : Matches(UNION Range(x[p]), r)}
             T == {r \in rules : Matches(UNION Range(y[p]), r)}
             f == [r \in S |-> Contribution(x[p], r)]
             g == [r \in T |-> Contribution(y[p], r)]
  <2>3. S = T
    BY <2>1
  <2>4. f = g
    <3> HIDE DEF S, T
    <3>1. QED
      BY <2>2, <2>3
  <2>5. Weight(x, p, rules) = SumFunction(f) /\ Weight(y, p, rules) = SumFunction(g)
    BY DEF Weight
  <2> HIDE DEF f, g, S, T
  <2>6. QED
    BY <2>4, <2>5
<1>2. ASSUME NEW rules PROVE Summed(x, rules) = Summed(y, rules)
  <2> DEFINE f == [p \in Providers |-> Weight(x, p, rules)]
             g == [p \in Providers |-> Weight(y, p, rules)]
  <2>1. f = g
    BY <1>1
  <2>2. Summed(x, rules) = SumFunction(f) /\ Summed(y, rules) = SumFunction(g)
    BY DEF Summed
  <2> HIDE DEF f, g
  <2>3. QED
    BY <2>1, <2>2
<1>3. ASSUME NEW band PROVE Score(x, band) = Score(y, band)
  BY <1>2 DEF Score
<1>4. Scores(x) = Scores(y)
  BY <1>3 DEF Scores
<1>5. DescribedBy(x) = DescribedBy(y)
  <2> DEFINE S == {p \in Providers : UNION Range(x[p]) # {}}
             T == {p \in Providers : UNION Range(y[p]) # {}}
  <2>1. S = T
    OBVIOUS
  <2>2. DescribedBy(x) = Cardinality(S) /\ DescribedBy(y) = Cardinality(T)
    BY DEF DescribedBy
  <2> HIDE DEF S, T
  <2>3. QED
    BY <2>1, <2>2
<1> DEFINE Flags(z) == {f \in {<<flag, FlagConfidence(Summed(z, {r \in Rules : flag \in r.flags}))>> :
                                  flag \in ContentFlags} : f[2] >= 20}
           Next4(s) == Max({s[j] : j \in DOMAIN s \ {TopOf(s)}})
           Band(s, n) == IF s[TopOf(s)] = 0 /\ n >= MinSourcesForAdultByAbsence THEN "adult"
                         ELSE IF s[TopOf(s)] = 0 THEN "unknown" ELSE AgeBands[TopOf(s)]
           Sure(s, n) == IF s[TopOf(s)] = 0 /\ n >= MinSourcesForAdultByAbsence
                         THEN AbsenceConfidence(n) ELSE Confidence(s[TopOf(s)], Next4(s))
<1>6. Flags(x) = Flags(y)
  BY <1>2
<1>7. ASSUME NEW z
      PROVE  Assess(z) = [band |-> Band(Scores(z), DescribedBy(z)),
                          confidence |-> Sure(Scores(z), DescribedBy(z)), flags |-> Flags(z)]
  BY DEF Assess, Scores
<1> HIDE DEF Flags, Band, Sure
<1>8. QED
  BY <1>4, <1>5, <1>6, <1>7

--------------------------------------------------------------------------------
(***************************************************************************)
(* Ratings: the invariant.                                                 *)
(***************************************************************************)
\* What is heard was said by a catalogue.
HeardInv ==
  /\ DOMAIN answers = Providers
  /\ \A p \in Providers : answers[p] \in Seq({Signals(p, r) : r \in Catalogue[p]})
  /\ explicit \in BOOLEAN

\* After a rating the tool's tags are those the evidence calls for.
SettledInv ==
  settled => \E min \in Thresholds :
    {t \in tags : IsButlerTag(t)} = AssessmentToTags(Rating, min)

RatingInv == HeardInv /\ SettledInv

LEMMA AllHeardWeighed == ASSUME HeardInv PROVE AllWeighed(answers)
<1>1. ASSUME NEW p \in Providers, NEW s \in UNION Range(answers[p]) PROVE Weighed(s)
  <2> DEFINE V == {Signals(p, r) : r \in Catalogue[p]}
  <2>1. answers[p] \in Seq(V)
    BY DEF HeardInv
  <2>2. Range(answers[p]) \subseteq V
    <3> HIDE DEF V
    <3>1. QED
      BY <2>1 DEF Range
  <2>3. PICK r \in Catalogue[p] : s \in Signals(p, r)
    BY <2>2
  <2>4. QED
    BY <2>3, SignalsAreWeighed
<1>2. QED
  BY <1>1 DEF AllWeighed

\* The tags a rating writes are the tool's.
LEMMA ButlerWritesItsOwn ==
  ASSUME NEW a, NEW min, NEW t \in AssessmentToTags(a, min)
  PROVE  IsButlerTag(t)
BY DEF AssessmentToTags, IsButlerTag, AgeTag, ContentTag, Marker

LEMMA RatingInvInit == RatingInit => RatingInv
<1>1. SUFFICES ASSUME RatingInit PROVE HeardInv /\ SettledInv
  BY DEF RatingInv
<1>2. \A p \in Providers : <<>> \in Seq({Signals(p, r) : r \in Catalogue[p]})
  OBVIOUS
<1>3. QED
  BY <1>1, <1>2 DEF RatingInit, HeardInv, SettledInv

LEMMA RatingInvStep ==
  ASSUME RatingInv, [RatingNext]_ratingVars
  PROVE  RatingInv'
<1> USE DEF RatingInv, HeardInv, SettledInv
<1>1. ASSUME NEW min \in Thresholds, Rate(min) PROVE RatingInv'
  <2>1. /\ tags' = {t \in tags : ~IsButlerTag(t)} \cup AssessmentToTags(Rating, min)
        /\ answers' = answers /\ explicit' = explicit
    BY <1>1 DEF Rate, ProposedTags
  <2>2. {t \in tags' : IsButlerTag(t)} = AssessmentToTags(Rating, min)
    BY <2>1, ButlerWritesItsOwn
  <2>3. Rating' = Rating
    BY <2>1 DEF Rating, Assessment
  <2>4. QED
    BY <2>1, <2>2, <2>3
<1>2. ASSUME NEW p \in Providers, NEW r \in Catalogue[p], Answer(p, r) PROVE RatingInv'
  <2>1. /\ answers' = [answers EXCEPT ![p] = Append(answers[p], Signals(p, r))]
        /\ settled' = FALSE /\ explicit' = explicit
    BY <1>2 DEF Answer
  <2> DEFINE V == {Signals(p, q) : q \in Catalogue[p]}
  <2>2. Append(answers[p], Signals(p, r)) \in Seq(V)
    <3>1. answers[p] \in Seq(V) /\ Signals(p, r) \in V
      OBVIOUS
    <3> HIDE DEF V
    <3>2. QED
      BY <3>1
  <2>3. QED
    BY <2>1, <2>2
<1>3. ASSUME NEW p \in Providers, FallSilent(p) PROVE RatingInv'
  <2>1. <<>> \in Seq({Signals(p, q) : q \in Catalogue[p]})
    OBVIOUS
  <2>2. QED
    BY <1>3, <2>1 DEF FallSilent
<1>4. CASE Tick
  BY <1>4 DEF Tick
<1>5. ASSUME NEW t \in HandTags, Tag(t) PROVE RatingInv'
  BY <1>5 DEF Tag
<1>6. CASE UNCHANGED ratingVars
  BY <1>6 DEF ratingVars, Rating, Assessment
<1>7. QED
  BY <1>1, <1>2, <1>3, <1>4, <1>5, <1>6 DEF RatingNext

LEMMA RatingInvariance == RatingSpec => []RatingInv
<1>1. RatingInv /\ [RatingNext]_ratingVars => RatingInv'
  BY RatingInvStep
<1>2. QED
  BY RatingInvInit, <1>1, PTL DEF RatingSpec
\* What the server's own flag makes of an assessment.
LEMMA FlagWins ==
  /\ ~explicit => Rating = Assessment
  /\ explicit => /\ Rating.band = "adult"
                 /\ Rating.confidence = Max({Assessment.confidence, 90})
  /\ Rating.flags = Assessment.flags
<1>1. PICK b, c, f : Assessment = [band |-> b, confidence |-> c, flags |-> f]
  BY DEF Assessment, Assess
<1>2. QED
  BY <1>1 DEF Rating

\* A book is called adult for one of three reasons: AdultHasAReason.
THEOREM AdultHasAReasonHolds == RatingSpec => []AdultHasAReason
<1>1. ASSUME HeardInv PROVE AdultHasAReason
  <2>1. SUFFICES ASSUME Rating.band = "adult", ~explicit
                 PROVE  \/ \E p \in Providers : States(p, "adult")
                        \/ /\ \E p, q \in Providers : p # q /\ Heard(p) # {} /\ Heard(q) # {}
                           /\ \A p \in Providers, b \in Range(AgeBands) : ~States(p, b)
    BY DEF AdultHasAReason
  <2> DEFINE s == Scores(answers)
             k == TopOf(s)
  <2>2. AllWeighed(answers)
    BY <1>1, AllHeardWeighed
  <2>3. Assess(answers).band = "adult"
    BY <2>1, FlagWins DEF Assessment
  <2>4. /\ s \in [1 .. 4 -> Nat] /\ k \in 1 .. 4
        /\ \A j \in 1 .. 4 : s[j] <= s[k]
        /\ s[k] # 0 => AgeBands[k] = "adult"
        /\ s[k] = 0 => DescribedBy(answers) >= 2
    BY <2>2, <2>3, Assessed
  <2>5. \A p \in Providers, r \in Rules : Says(answers, p, r) <=> Matches(Heard(p), r)
    BY DEF Says, Heard
  <2>6. \A p \in Providers : \A b : States(p, b) <=> \E r \in Rules : r.band = b /\ Says(answers, p, r)
    BY <2>5 DEF States
  <2>7. \A b : Score(answers, b) # 0 <=> \E p \in Providers : States(p, b)
    BY <2>2, <2>6, ScoreBounds
  <2>8. \A j \in 1 .. 4 : s[j] = Score(answers, AgeBands[j])
    BY DEF Scores
  <2> HIDE DEF s, k
  <2>9. CASE s[k] # 0
    <3>1. Score(answers, "adult") # 0
      BY <2>4, <2>8, <2>9
    <3>2. QED
      BY <2>7, <3>1
  <2>10. CASE s[k] = 0
    <3>1. \A j \in 1 .. 4 : Score(answers, AgeBands[j]) = 0
      <4>1. ASSUME NEW j \in 1 .. 4 PROVE s[j] = 0
        BY <2>4, <2>10
      <4>2. QED
        BY <2>8, <4>1
    <3>2. \A b \in Range(AgeBands) : Score(answers, b) = 0
      BY <3>1, BandsAreFour
    <3>3. \E p, q \in Providers : p # q /\ Heard(p) # {} /\ Heard(q) # {}
      BY <2>4, <2>10, DescribedIsNat DEF Heard
    <3>4. QED
      BY <2>7, <3>2, <3>3
  <2>11. QED
    BY <2>9, <2>10
<1>2. RatingInv => AdultHasAReason
  BY <1>1 DEF RatingInv
<1>3. QED
  BY RatingInvariance, <1>2, PTL

\* A flag no label raises is not reported.
LEMMA FlagsAreRaised ==
  ASSUME AllWeighed(answers), NEW x \in Assessment.flags
  PROVE  /\ x[1] \in ContentFlags
         /\ \E p \in Providers, r \in Rules : x[1] \in r.flags /\ Matches(Heard(p), r)
<1>1. PICK flag \in ContentFlags :
         /\ x = <<flag, FlagConfidence(Summed(answers, {r \in Rules : flag \in r.flags}))>>
         /\ x[2] >= 20
  BY Assessed DEF Assessment
<1> DEFINE rules == {r \in Rules : flag \in r.flags}
<1>2. \E p \in Providers, r \in rules : Says(answers, p, r)
  <2>1. SUFFICES ASSUME \A p \in Providers, r \in rules : ~Says(answers, p, r) PROVE FALSE
    OBVIOUS
  <2>2. Summed(answers, rules) = 0
    BY <2>1, SummedBounds
  <2>3. x[2] = FlagConfidence(0)
    BY <1>1, <2>2
  <2>4. Min({300, 0}) = 0
    <3>1. Min({300, 0}) \in {300, 0} /\ \A y \in {300, 0} : Min({300, 0}) <= y
      <4>1. \E m \in {300, 0} : \A y \in {300, 0} : m <= y
        OBVIOUS
      <4>2. QED
        BY <4>1 DEF Min
    <3>2. QED
      BY <3>1
  <2>5. FlagConfidence(0) = 0
    BY <2>4 DEF FlagConfidence, RoundDiv
  <2>6. QED
    BY <1>1, <2>3, <2>5
<1>3. x[1] = flag
  BY <1>1
<1>4. QED
  BY <1>2, <1>3 DEF Says, Heard

\* After a rating no tag of the tool's is left that nothing calls for:
\* NoTagOutlivesItsEvidence.
THEOREM TagsHaveEvidence == RatingSpec => []NoTagOutlivesItsEvidence
<1>1. ASSUME HeardInv, SettledInv, settled
      PROVE  /\ Cardinality({b \in Range(AgeBands) : AgeTag(b) \in tags}) <= 1
             /\ explicit => AgeTag("adult") \in tags
             /\ \A f \in ContentFlags : ContentTag(f) \in tags =>
                  \E p \in Providers, r \in Rules : f \in r.flags /\ Matches(Heard(p), r)
  <2>1. PICK min \in Thresholds : {t \in tags : IsButlerTag(t)} = AssessmentToTags(Rating, min)
    BY <1>1 DEF SettledInv
  <2>2. AllWeighed(answers)
    BY <1>1, AllHeardWeighed
  <2> DEFINE written == {t \in tags : IsButlerTag(t)}
  <2>3. \A t \in written : \/ t = Marker
                           \/ t = AgeTag(Rating.band)
                           \/ \E f \in Rating.flags : t = ContentTag(f[1])
    BY <2>1 DEF AssessmentToTags
  <2>4. \A b \in Range(AgeBands) : AgeTag(b) \in tags => b = Rating.band
    BY <2>3 DEF IsButlerTag, AgeTag, ContentTag, Marker
  <2>5. Cardinality({b \in Range(AgeBands) : AgeTag(b) \in tags}) <= 1
    <3>1. {b \in Range(AgeBands) : AgeTag(b) \in tags} \subseteq {Rating.band}
      BY <2>4
    <3>2. IsFiniteSet({Rating.band}) /\ Cardinality({Rating.band}) = 1
      BY FS_Singleton
    <3>3. QED
      BY <3>1, <3>2, FS_Subset
  <2>6. ASSUME explicit PROVE AgeTag("adult") \in tags
    <3> DEFINE c == Assess(answers).confidence
    <3>1. c \in Nat
      BY <2>2, Assessed
    <3>2. Rating.band = "adult" /\ Rating.confidence = Max({c, 90})
      BY <2>6, FlagWins DEF Assessment
    <3> HIDE DEF c
    <3>3. Max({c, 90}) \in {c, 90} /\ Max({c, 90}) >= 90
      <4> DEFINE S == {c, 90}
      <4>1. /\ S \in SUBSET Nat /\ S # {} /\ c + 90 \in Nat /\ 90 \in S
            /\ \A x \in S : x <= c + 90
        BY <3>1
      <4> HIDE DEF S
      <4>2. Max(S) \in S /\ 90 <= Max(S)
        BY <4>1, MaxIsIn
      <4>3. QED
        BY <3>1, <4>1, <4>2 DEF S
    <3>4. Rating.confidence \in Nat /\ Rating.confidence >= 90 /\ min \in 0 .. 90
      BY <3>1, <3>2, <3>3, RatingsAssumption
    <3>5. AgeTag("adult") \in AssessmentToTags(Rating, min)
      BY <3>2, <3>4 DEF AssessmentToTags
    <3>6. QED
      BY <2>1, <3>5
  <2>7. ASSUME NEW f \in ContentFlags, ContentTag(f) \in tags
        PROVE  \E p \in Providers, r \in Rules : f \in r.flags /\ Matches(Heard(p), r)
    <3>1. ContentTag(f) \in written
      BY <2>7 DEF IsButlerTag, ContentTag
    <3>2. PICK x \in Rating.flags : ContentTag(f) = ContentTag(x[1])
      BY <2>3, <3>1 DEF ContentTag, AgeTag, Marker
    <3>3. x \in Assessment.flags /\ x[1] = f
      BY <3>2, FlagWins DEF ContentTag
    <3>4. QED
      BY <2>2, <3>3, FlagsAreRaised
  <2>8. QED
    BY <2>5, <2>6, <2>7
<1>2. RatingInv => NoTagOutlivesItsEvidence
  BY <1>1 DEF RatingInv, NoTagOutlivesItsEvidence
<1>3. QED
  BY RatingInvariance, <1>2, PTL
\* However often a catalogue answers, it counts once, and two kids' shelves do
\* not outweigh a catalogue that names a picture book: LoudnessIsEarned.
THEOREM LoudnessIsEarnedHolds == RatingSpec => []LoudnessIsEarned
<1>1. ChattyIsNotLoud
  <2> DEFINE once == [p \in Providers |-> IF Heard(p) = {} THEN <<>> ELSE <<Heard(p)>>]
  <2>1. \A p \in Providers : UNION Range(once[p]) = UNION Range(answers[p])
    <3>1. ASSUME NEW p \in Providers PROVE UNION Range(once[p]) = Heard(p)
      <4>1. CASE Heard(p) = {}
        <5>1. once[p] = <<>> /\ Range(<<>>) = {}
          BY <4>1 DEF Range
        <5>2. QED
          BY <4>1, <5>1
      <4>2. CASE Heard(p) # {}
        <5>1. once[p] = <<Heard(p)>> /\ Range(<<Heard(p)>>) = {Heard(p)}
          BY <4>2 DEF Range
        <5>2. QED
          BY <5>1
      <4>3. QED
        BY <4>1, <4>2
    <3>2. QED
      BY <3>1 DEF Heard
  <2> HIDE DEF once
  <2>2. Assess(answers) = Assess(once)
    BY <2>1, HeardIsAll
  <2>3. QED
    BY <2>2 DEF ChattyIsNotLoud, Assessment, once
<1>2. ASSUME HeardInv PROVE TwoShelvesAreQuieter
  <2>1. SUFFICES ASSUME OnlyShelfDisagrees, Cardinality(OnShelf) <= 2
                 PROVE  Assess(answers).band = "early-reader"
    BY DEF TwoShelvesAreQuieter, Assessment
  <2>2. AllWeighed(answers)
    BY <1>2, AllHeardWeighed
  <2> DEFINE s == Scores(answers)
             k == TopOf(s)
             Of(band) == {r \in Rules : r.band = band}
  <2>3. /\ s \in [1 .. 4 -> Nat] /\ k \in 1 .. 4
        /\ \A j \in 1 .. 4 : s[j] <= s[k]
        /\ s[k] # 0 => Assess(answers).band = AgeBands[k]
    BY <2>2, Assessed
  <2>4. /\ s[1] = Summed(answers, Of("early-reader")) /\ s[2] = Summed(answers, Of("middle-grade"))
        /\ s[3] = Summed(answers, Of("young-adult")) /\ s[4] = Summed(answers, Of("adult"))
    BY BandsAreFour DEF Scores, Score
  <2>5. \A p \in Providers : \A r : Says(answers, p, r) <=> Matches(Heard(p), r)
    BY DEF Says, Heard
  <2>6. s[1] >= 110
    <3>1. PICK p \in Providers, r \in Rules :
            r.band = "early-reader" /\ r.strength = 10 /\ Matches(Heard(p), r)
      BY <2>1 DEF OnlyShelfDisagrees, NamedOutright
    <3>2. Contribution(answers[p], r) \in Nat /\ Contribution(answers[p], r) >= 110
      BY <2>2, <2>5, <3>1, HeardCounts
    <3>3. r \in Of("early-reader") /\ Of("early-reader") \in SUBSET Rules /\ Says(answers, p, r)
      BY <2>5, <3>1
    <3>4. Contribution(answers[p], r) <= s[1]
      BY <2>2, <2>4, <3>3, SummedBounds
    <3>5. s[1] \in Nat
      BY <2>3
    <3> HIDE DEF s
    <3>6. QED
      BY <3>2, <3>4, <3>5
  <2>7. \A p \in Providers, r \in Rules : r.band \notin {"none", "early-reader"} /\ Says(answers, p, r) =>
          p \in OnShelf /\ r = KidsShelf
    BY <2>1, <2>5 DEF OnlyShelfDisagrees, OnShelf
  <2>8. s[2] <= 108
    <3>1. \A p \in Providers, r \in Of("middle-grade") : Says(answers, p, r) => p \in OnShelf /\ r = KidsShelf
      BY <2>7
    <3>2. OnShelf \in SUBSET Providers /\ Of("middle-grade") \in SUBSET Rules
      BY DEF OnShelf
    <3>3. s[2] <= 54 * Cardinality(OnShelf)
      BY <2>2, <2>4, <3>1, <3>2, SummedBounds
    <3>4. Cardinality(OnShelf) \in Nat /\ s[2] \in Nat
      BY <2>3, <3>2, ProvidersAreFinite, FS_Subset, FS_CardinalityType
    <3> HIDE DEF s
    <3>5. QED
      BY <2>1, <3>3, <3>4
  <2>9. s[3] = 0 /\ s[4] = 0
    <3>1. KidsShelf.band = "middle-grade"
      BY DEF KidsShelf, Rule
    <3>2. ASSUME NEW band \in {"young-adult", "adult"} PROVE Summed(answers, Of(band)) = 0
      <4>1. Of(band) \in SUBSET Rules /\ \A p \in Providers, r \in Of(band) : ~Says(answers, p, r)
        BY <2>7, <3>1
      <4>2. QED
        BY <2>2, <4>1, SummedBounds
    <3>3. QED
      BY <2>4, <3>2
  <2>10. k = 1 /\ s[k] # 0
    <3>1. s[1] \in Nat /\ s[2] \in Nat /\ s[1] <= s[k] /\ 1 .. 4 = {1, 2, 3, 4}
      BY <2>3
    <3>2. k \in {1, 2, 3, 4}
      BY <2>3, <3>1
    <3> HIDE DEF s, k
    <3>3. k # 2 /\ k # 3 /\ k # 4
      BY <2>6, <2>8, <2>9, <3>1
    <3>4. QED
      BY <2>6, <3>1, <3>2, <3>3
  <2>11. QED
    BY <2>3, <2>10, BandsAreFour
<1>3. RatingInv => LoudnessIsEarned
  BY <1>1, <1>2 DEF RatingInv, LoudnessIsEarned
<1>4. QED
  BY RatingInvariance, <1>3, PTL
--------------------------------------------------------------------------------
(***************************************************************************)
(* Repair: what the server and the task keep.                              *)
(***************************************************************************)
LEMMA TotalIsNat == ASSUME NEW recs \in SUBSET Ino PROVE Total(recs) \in Nat
<1>1. Total(recs) = SumFunctionOnSet(Length, recs)
  BY Zenon DEF Total, MapThenSumSet, SumFunctionOnSet, FoldFunctionOnSet, MapThenFoldSet
<1>2. IsFiniteSet(recs) /\ \A i \in recs : Length[i] \in Nat
  BY RepairAssumption, FS_Subset
<1>3. QED
  BY <1>1, <1>2, SumHasTerms

LEMMA RescannedIsItem ==
  ASSUME NEW it \in Item
  PROVE  Rescanned(it) \in Item /\ it.recs \subseteq Rescanned(it).recs
<1>1. CASE ~it.changed /\ Cardinality(it.disk) = Cardinality(it.recs)
  BY <1>1 DEF Rescanned
<1>2. CASE ~(~it.changed /\ Cardinality(it.disk) = Cardinality(it.recs))
  <2> DEFINE recs == it.recs \cup it.disk
             chapters == IF Cardinality(it.disk) > 1 THEN <<Total(recs)>> ELSE it.chapters
  <2>1. recs \in SUBSET Ino
    BY DEF Item
  <2>2. Total(recs) \in Nat
    BY <2>1, TotalIsNat
  <2>3. chapters \in Seq(Nat)
    BY <2>2 DEF Item
  <2>4. Rescanned(it) = [it EXCEPT !.recs = recs, !.length = Total(recs), !.changed = FALSE,
                                   !.chapters = chapters]
    BY <1>2 DEF Rescanned
  <2> HIDE DEF chapters
  <2>5. Rescanned(it) \in Item /\ Rescanned(it).recs = recs
    BY <2>1, <2>2, <2>3, <2>4 DEF Item
  <2>6. QED
    BY <2>5
<1>3. QED
  BY <1>1, <1>2

LEMMA RenumberedIsItem ==
  ASSUME NEW it \in Item, NEW i \in Ino, NEW j \in Ino
  PROVE  Renumbered(it, i, j) \in Item
<1> DEFINE recs == it.recs \cup {j}
           chapters == Append(it.chapters, Total(recs))
<1>1. recs \in SUBSET Ino
  BY DEF Item
<1>2. Total(recs) \in Nat
  BY <1>1, TotalIsNat
<1>3. chapters \in Seq(Nat)
  BY <1>2 DEF Item
<1>4. Renumbered(it, i, j) = [it EXCEPT !.disk = (it.disk \ {i}) \cup {j}, !.recs = recs,
                                        !.length = Total(recs), !.chapters = chapters]
  BY DEF Renumbered
<1> HIDE DEF recs, chapters
<1>5. (it.disk \ {i}) \cup {j} \in SUBSET Ino
  BY DEF Item
<1>6. QED
  BY <1>1, <1>2, <1>3, <1>4, <1>5 DEF Item

LEMMA WithTracksIsItem ==
  ASSUME NEW it \in Item, NEW keep, NEW off
  PROVE  WithTracks(it, keep, off) \in Item /\ WithTracks(it, keep, off).recs = keep \cap it.recs
BY DEF WithTracks, Item

LEMMA CutIsSeq ==
  ASSUME NEW chapters \in Seq(Nat), NEW length \in Nat, NEW c \in Trimmed(chapters, length)
  PROVE  c \in Seq(Nat) /\ \A k \in DOMAIN c : c[k] <= length
<1> DEFINE kept == {k \in DOMAIN chapters : Starts(chapters, k) < length}
           n == Cardinality(kept)
<1>1. n \in Nat /\ n <= Len(chapters)
  <2>1. IsFiniteSet(1 .. Len(chapters)) /\ Cardinality(1 .. Len(chapters)) = Len(chapters)
    BY FS_Interval
  <2>2. kept \subseteq 1 .. Len(chapters)
    OBVIOUS
  <2> HIDE DEF kept
  <2>3. QED
    BY <2>1, <2>2, FS_Subset, FS_CardinalityType
<1>2. c = [k \in 1 .. n |-> IF k = n \/ chapters[k] > length THEN length ELSE chapters[k]]
  BY DEF Trimmed
<1> HIDE DEF n
<1>3. \A k \in 1 .. n : c[k] \in Nat /\ c[k] <= length
  <2>1. \A k \in 1 .. n : /\ chapters[k] \in Nat
                          /\ c[k] = (IF k = n \/ chapters[k] > length THEN length ELSE chapters[k])
    BY <1>1, <1>2
  <2>2. QED
    BY <2>1
<1>4. QED
  BY <1>1, <1>2, <1>3

LEMMA ChaptersAreItem ==
  ASSUME NEW it \in Item, NEW chapters \in Seq(Nat)
  PROVE  [it EXCEPT !.chapters = chapters] \in Item
BY DEF Item

LEMMA ExceptInSeq ==
  ASSUME NEW S, NEW s \in Seq(S), NEW v, NEW r, v \in DOMAIN s => r \in S
  PROVE  [s EXCEPT ![v] = r] \in Seq(S) /\ DOMAIN [s EXCEPT ![v] = r] = DOMAIN s
<1> DEFINE t == [s EXCEPT ![v] = r]
<1>1. DOMAIN s = 1 .. Len(s) /\ Len(s) \in Nat /\ DOMAIN t = DOMAIN s
  OBVIOUS
<1>2. t \in [1 .. Len(s) -> S]
  <2>1. t = [k \in DOMAIN s |-> IF k = v THEN r ELSE s[k]]
    OBVIOUS
  <2>2. \A k \in DOMAIN s : s[k] \in S
    OBVIOUS
  <2> HIDE DEF t
  <2>3. QED
    BY <1>1, <2>1, <2>2
<1> HIDE DEF t
<1>3. t \in Seq(S)
  BY <1>1, <1>2
<1>4. QED
  BY <1>1, <1>3 DEF t

LEMMA LiveIsIno == ASSUME NEW it \in Item PROVE Live(it) \in SUBSET Ino /\ Dead(it) \in SUBSET Ino
BY DEF Item, Live, Dead

\* The undo record a drop relies on: written before it, and pending.
DropInv ==
  task.phase = "dropping" =>
    LET v == task.revision[task.cur] IN
    /\ task.cur \in Books /\ v \in DOMAIN revisions
    /\ revisions[v].book = task.cur /\ ~revisions[v].reverted
    /\ revisions[v].before.recs = task.seen[task.cur].recs

\* A library is being scanned for while a scan is seen to.
LibInv == task.phase \in {"settling", "requesting", "awaiting"} => task.lib \in Libraries

MendInv == TypeOK /\ LibInv /\ DropInv

LEMMA MendInvInit == Init => MendInv
<1>1. SUFFICES ASSUME Init PROVE MendInv
  OBVIOUS
<1>2. item \in [Books -> Item]
  BY <1>1, RepairAssumption DEF Init
<1>3. task \in Task
  BY <1>1, <1>2 DEF Init, Fresh, Task, Method
<1>4. /\ plan \in [Books -> {NoPlan} \cup {PlanOf(d) : d \in SUBSET Ino}]
      /\ outcome \in [Books -> Outcome]
  BY <1>1 DEF Init, Outcome
<1>5. /\ left \in SUBSET Books /\ scanning \in SUBSET Libraries
      /\ reach \in BOOLEAN /\ revisions \in Seq(Revision)
      /\ runs \in 0 .. MaxRuns /\ upsets \in 0 .. MaxUpsets /\ late \in BOOLEAN
  <2>1. revisions \in Seq(Revision)
    BY <1>1 DEF Init
  <2>2. /\ left = {} /\ scanning = {} /\ reach \in BOOLEAN
        /\ runs = 0 /\ upsets = 0 /\ late = FALSE
    BY <1>1 DEF Init
  <2>3. 0 \in 0 .. MaxRuns /\ 0 \in 0 .. MaxUpsets
    BY RepairAssumption
  <2>4. QED
    BY <2>1, <2>2, <2>3
<1>6. task.phase = "idle"
  BY <1>1 DEF Init, Fresh
<1>7. QED
  BY <1>2, <1>3, <1>4, <1>5, <1>6 DEF MendInv, TypeOK, DropInv, LibInv

LEMMA TaskParts ==
  ASSUME TypeOK
  PROVE  /\ task.phase \in {"idle", "reading", "items", "dropping", "touching", "rescanning",
                            "settling", "requesting", "awaiting", "finishing", "trimming", "closing"}
         /\ task.kind \in {"preview", "repair", "apply"} /\ task.access \in BOOLEAN
         /\ task.todo \in SUBSET Books /\ task.seen \in [Books -> Item]
         /\ task.targets \in SUBSET Books /\ task.cur \in Books \cup {NoBook}
         /\ task.method \in [Books -> Method] /\ task.revision \in [Books -> Nat]
         /\ task.cut \in Seq(Nat) /\ task.wait \in SUBSET Books /\ task.group \in SUBSET Books
         /\ task.lib \in Libraries \cup {NoLibrary} /\ task.stop \in BOOLEAN
BY DEF TypeOK, Task

LEMMA DiedIsTask == ASSUME TypeOK PROVE Died(task) \in Task
<1>1. task \in Task /\ <<>> \in Seq(Nat)
  BY DEF TypeOK
<1>2. QED
  BY <1>1 DEF Died, Task

\* What stays typed whatever a step of the task does to its place in the run.
LEMMA StaysTask ==
  ASSUME TypeOK, NEW b \in Books
  PROVE  Over(task, b) \in Task /\ Died(task) \in Task
<1>1. task \in Task /\ <<>> \in Seq(Nat)
  BY DEF TypeOK
<1>2. Over(task, b) \in Task
  BY <1>1 DEF Over, Task
<1>3. QED
  BY <1>2, DiedIsTask

\* What the reading of a book leaves of the task.
LEMMA ReadingOn ==
  ASSUME TypeOK, NEW b \in Books, Read(b) \/ ReadFails(b)
  PROVE  /\ task' \in Task
         /\ task.phase = "reading" /\ b \in task.todo /\ task'.todo = task.todo \ {b}
         /\ task'.phase \in {"reading", "items"} /\ task'.access \in {task.access, reach}
         /\ task'.phase = "items" => task.kind = "apply"
         /\ task'.targets = task.targets \/ task'.targets = task.targets \cup {b}
         /\ UNCHANGED <<task.kind, task.cur, task.method, task.revision, task.cut, task.wait,
                        task.group, task.lib, task.stop>>
<1>1. task \in Task /\ item[b] \in Item /\ reach \in BOOLEAN
  BY DEF TypeOK
<1>2. /\ Onwards(b) \in Task
      /\ Onwards(b).todo = task.todo \ {b} /\ Onwards(b).targets = task.targets
      /\ Onwards(b).phase = (IF task.todo = {b} /\ task.kind = "apply" THEN "items" ELSE task.phase)
      /\ Onwards(b).access \in {task.access, reach} /\ Onwards(b).seen = task.seen
      /\ Onwards(b).kind = task.kind /\ Onwards(b).cur = task.cur
      /\ Onwards(b).method = task.method /\ Onwards(b).revision = task.revision
      /\ Onwards(b).cut = task.cut /\ Onwards(b).wait = task.wait /\ Onwards(b).group = task.group
      /\ Onwards(b).lib = task.lib /\ Onwards(b).stop = task.stop
  BY <1>1 DEF Onwards, Task
<1> DEFINE t == Onwards(b)
<1>3. task.phase = "reading" /\ b \in task.todo
  BY DEF Read, ReadFails
<1>4. CASE ReadFails(b)
  BY <1>2, <1>3, <1>4 DEF ReadFails
<1>5. CASE Read(b)
  <2> DEFINE seen == [t.seen EXCEPT ![b] = item[b]]
             targets == IF Judged(b, item[b]) = "none" THEN t.targets \cup {b} ELSE t.targets
  <2>1. task' = [t EXCEPT !.seen = seen, !.targets = targets]
    BY <1>5 DEF Read
  <2>2. targets \in SUBSET Books /\ targets \in {t.targets, t.targets \cup {b}}
    BY <1>2 DEF Task
  <2>3. t \in Task /\ seen \in [Books -> Item]
    BY <1>1, <1>2 DEF Task
  <2> HIDE DEF t, seen, targets
  <2>4. /\ task' \in Task /\ task'.targets = targets
        /\ task'.revision = t.revision
        /\ task'.todo = t.todo /\ task'.phase = t.phase /\ task'.access = t.access
        /\ task'.kind = t.kind /\ task'.cur = t.cur /\ task'.method = t.method
        /\ task'.cut = t.cut /\ task'.wait = t.wait /\ task'.group = t.group
        /\ task'.lib = t.lib /\ task'.stop = t.stop
    BY <2>1, <2>2, <2>3 DEF Task
  <2>5. QED
    BY <1>2, <1>3, <2>2, <2>4 DEF t
<1>6. QED
  BY <1>4, <1>5

\* Onwards, book by book: what a read book adds.
LEMMA ReadingIs ==
  ASSUME TypeOK, NEW b \in Books, Read(b)
  PROVE  /\ task'.seen = [task.seen EXCEPT ![b] = item[b]]
         /\ task'.targets = IF Judged(b, item[b]) = "none" THEN task.targets \cup {b}
                            ELSE task.targets
<1> DEFINE verdict == Judged(b, item[b])
           t == Onwards(b)
<1>1. t \in Task /\ t.seen = task.seen /\ t.targets = task.targets
  BY DEF Onwards, TypeOK, Task
<1>2. task' = [t EXCEPT !.seen[b] = item[b],
                        !.targets = IF verdict = "none" THEN @ \cup {b} ELSE @]
  BY DEF Read
<1> HIDE DEF verdict, t
<1>3. QED
  BY <1>1, <1>2 DEF Task, verdict

LEMMA TypeStep ==
  ASSUME TypeOK, LibInv, [Next]_vars
  PROVE  TypeOK'
<1> USE DEF TypeOK
<1> DEFINE Rest == /\ left' \in SUBSET Books /\ scanning' \in SUBSET Libraries
                   /\ reach' \in BOOLEAN /\ plan' \in [Books -> {NoPlan} \cup {PlanOf(d) : d \in SUBSET Ino}]
                   /\ runs' \in 0 .. MaxRuns /\ upsets' \in 0 .. MaxUpsets /\ late' \in BOOLEAN
<1>a. ASSUME Upset PROVE upsets' \in 0 .. MaxUpsets
  BY <1>a, RepairAssumption DEF Upset
<1>b. ASSUME NEW l \in Libraries, ScanStarts(l)
      PROVE  left' \in SUBSET Books /\ scanning' \in SUBSET Libraries
  BY <1>b DEF ScanStarts
<1>1. ASSUME NEW b \in Books, Read(b) PROVE TypeOK'
  <2>1. Judged(b, item[b]) \in Outcome
    BY DEF Judged, Outcome
  <2>2. task' \in Task
    BY <1>1, ReadingOn
  <2>3. QED
    BY <1>1, <2>1, <2>2 DEF Read
<1>2. ASSUME NEW b \in Books, ReadFails(b) PROVE TypeOK'
  <2>1. task' \in Task
    BY <1>2, ReadingOn
  <2>2. "unread" \in Outcome
    BY DEF Outcome
  <2>3. QED
    BY <1>2, <1>a, <2>1, <2>2 DEF ReadFails
<1>3. ASSUME NEW b \in Books, Begin(b) PROVE TypeOK'
  <2> DEFINE it == task.seen[b]
  <2>0. it \in Item /\ Live(it) \in SUBSET Ino
    BY TaskParts, LiveIsIno
  <2>1. CASE NeedsFileChanges(b, it, task.access)
    <3>1. "failed" \in Outcome
      BY DEF Outcome
    <3>2. task' \in Task /\ outcome' \in [Books -> Outcome] /\ revisions' \in Seq(Revision)
      BY <1>3, <2>1, <3>1, StaysTask DEF Begin
    <3>3. QED
      BY <1>3, <3>2 DEF Begin
  <2>2. CASE ~NeedsFileChanges(b, it, task.access)
    <3> DEFINE r == [book |-> b, before |-> [recs |-> it.recs, off |-> it.off, chapters |-> it.chapters],
                     recs |-> Live(it), chapters |-> <<>>, reverted |-> FALSE]
               m == ChooseMethod(b, it, task.access)
    <3>1. r \in Revision
      <4>1. [recs |-> it.recs, off |-> it.off, chapters |-> it.chapters] \in Lists
        BY <2>0 DEF Item, Lists
      <4>2. QED
        BY <2>0, <4>1 DEF Revision
    <3>2. m \in Method
      BY DEF ChooseMethod, Method
    <3>3. /\ revisions' = Append(revisions, r) /\ outcome' = outcome
          /\ task' = [task EXCEPT !.phase = "dropping", !.cur = b, !.targets = @ \ {b},
                                  !.method[b] = m, !.revision[b] = Len(revisions) + 1]
      BY <1>3, <2>2 DEF Begin
    <3> HIDE DEF r, m
    <3>4. Len(revisions) + 1 \in Nat /\ revisions' \in Seq(Revision)
      BY <3>1, <3>3
    <3>5. task' \in Task
      BY <3>2, <3>3, <3>4 DEF Task
    <3>6. QED
      BY <1>3, <3>3, <3>4, <3>5 DEF Begin
  <2>3. QED
    BY <2>1, <2>2
<1>4. ASSUME NEW b \in Books, Drop(b) PROVE TypeOK'
  <2>1. Dropped(b) \in Item
    BY WithTracksIsItem DEF Dropped
  <2>2. task' \in Task
    BY <1>4 DEF Drop, Task
  <2>3. QED
    BY <1>4, <2>1, <2>2 DEF Drop
<1>5. ASSUME NEW b \in Books, Touch(b) PROVE TypeOK'
  <2>1. [item[b] EXCEPT !.changed = TRUE] \in Item
    BY DEF Item
  <2>2. item' = [item EXCEPT ![b] = [item[b] EXCEPT !.changed = TRUE]]
    BY <1>5 DEF Touch
  <2>3. task' \in Task
    <3>1. task \in Task /\ Over(task, b) \in Task
      BY StaysTask
    <3>2. [task EXCEPT !.phase = "rescanning"] \in Task
      BY <3>1 DEF Task
    <3>3. [Over(task, b) EXCEPT !.wait = @ \cup {b}] \in Task
      <4> DEFINE next == Over(task, b)
      <4>1. next \in Task
        BY <3>1
      <4> HIDE DEF next
      <4>2. [next EXCEPT !.wait = @ \cup {b}] \in Task
        BY <4>1 DEF Task
      <4>3. QED
        BY <4>2 DEF next
    <3>4. \/ task' = [task EXCEPT !.phase = "rescanning"]
          \/ task' = [Over(task, b) EXCEPT !.wait = @ \cup {b}]
      BY <1>5 DEF Touch
    <3>5. QED
      BY <3>2, <3>3, <3>4
  <2>4. QED
    BY <1>5, <2>1, <2>2, <2>3 DEF Touch
<1>6. ASSUME NEW b \in Books, RescanItem(b) PROVE TypeOK'
  <2>1. Rescanned(item[b]) \in Item
    BY RescannedIsItem
  <2>2. task' \in Task
    BY <1>6 DEF RescanItem, Task
  <2>3. QED
    BY <1>6, <2>1, <2>2 DEF RescanItem
<1>7. ASSUME NEW b \in Books, Failed(b) PROVE task' \in Task /\ outcome' \in [Books -> Outcome]
  <2>1. "failed" \in Outcome /\ "none" \in Outcome
    BY DEF Outcome
  <2>2. CASE task.stop
    BY <1>7, <2>1, <2>2, StaysTask DEF Failed
  <2>3. CASE ~task.stop
    <3>1. Over(task, b) \in Task
      BY StaysTask
    <3>2. task' = [Over(task, b) EXCEPT !.group = Over(task, b).group \ {b}]
      BY <1>7, <2>3 DEF Failed
    <3>3. task' \in Task
      BY <3>1, <3>2 DEF Task
    <3>4. QED
      BY <1>7, <2>1, <2>3, <3>3 DEF Failed
  <2>4. QED
    BY <2>2, <2>3
<1>8. ASSUME NEW b \in Books, TouchFails(b) PROVE TypeOK'
  BY <1>7, <1>8 DEF TouchFails
<1>9. ASSUME NEW b \in Books, StepFails(b) PROVE TypeOK'
  <2>1. Dropped(b) \in Item /\ Rescanned(item[b]) \in Item
    BY WithTracksIsItem, RescannedIsItem DEF Dropped
  <2>2. [item[b] EXCEPT !.chapters = task.cut] \in Item
    BY TaskParts, ChaptersAreItem
  <2> DEFINE it == CASE task.phase = "dropping" -> Dropped(b)
                     [] task.phase = "rescanning" -> Rescanned(item[b])
                     [] task.phase = "trimming" -> [item[b] EXCEPT !.chapters = task.cut]
                     [] OTHER -> item[b]
  <2>3. it \in Item
    BY <2>1, <2>2
  <2>4. item' = item \/ item' = [item EXCEPT ![b] = it]
    BY <1>9 DEF StepFails
  <2> HIDE DEF it
  <2>5. item' \in [Books -> Item]
    BY <2>3, <2>4
  <2>6. task' \in Task /\ outcome' \in [Books -> Outcome]
    BY <1>7, <1>9 DEF StepFails
  <2>7. QED
    BY <1>9, <1>a, <2>5, <2>6 DEF StepFails
<1>10. ASSUME NEW b \in Books, Closed(b)
       PROVE  task' \in Task /\ outcome' \in [Books -> Outcome] /\ revisions' \in Seq(Revision)
  <2>1. Over(task, b) \in Task
    BY StaysTask
  <2>2. task' = [Over(task, b) EXCEPT !.group = Over(task, b).group \ {b}]
    BY <1>10 DEF Closed
  <2>3. task' \in Task
    BY <2>1, <2>2 DEF Task
  <2>4. outcome' \in [Books -> Outcome]
    BY <1>10 DEF Closed, Outcome
  <2> DEFINE v == task.revision[b]
             r == [revisions[v] EXCEPT !.recs = item[b].recs, !.chapters = <<item[b].chapters>>]
  <2>5. revisions' = [revisions EXCEPT ![v] = r]
    BY <1>10 DEF Closed
  <2>6. v \in DOMAIN revisions => r \in Revision
    <3>1. item[b].recs \in SUBSET Ino /\ <<item[b].chapters>> \in Seq(Seq(Nat))
      BY DEF Item
    <3>2. v \in DOMAIN revisions => revisions[v] \in Revision
      OBVIOUS
    <3>3. QED
      BY <3>1, <3>2 DEF Revision
  <2> HIDE DEF v, r
  <2>7. revisions' \in Seq(Revision)
    BY <2>5, <2>6, ExceptInSeq
  <2>8. QED
    BY <2>3, <2>4, <2>7
<1>11. ASSUME NEW b \in Books, Finish(b) PROVE TypeOK'
  BY <1>10, <1>11 DEF Finish
<1>12. ASSUME NEW b \in Books, FinishLong(b) PROVE TypeOK'
  <2> DEFINE c == CHOOSE c \in Cut(b, item[b]) : TRUE
             n == IF Partial(b) THEN Total(Live(task.seen[b])) ELSE item[b].length
  <2>1. c \in Trimmed(item[b].chapters, n)
    <3>1. c \in Cut(b, item[b])
      BY <1>12 DEF FinishLong
    <3>2. QED
      BY <3>1 DEF Cut
  <2>2. n \in Nat /\ item[b].chapters \in Seq(Nat)
    <3>1. item[b].length \in Nat /\ item[b].chapters \in Seq(Nat)
      BY DEF Item
    <3>2. Total(Live(task.seen[b])) \in Nat
      BY TaskParts, LiveIsIno, TotalIsNat
    <3>3. QED
      BY <3>1, <3>2
  <2> HIDE DEF n
  <2>3. c \in Seq(Nat)
    BY <2>1, <2>2, CutIsSeq
  <2>4. task' = [task EXCEPT !.phase = "trimming", !.cur = b, !.cut = c]
    BY <1>12 DEF FinishLong
  <2> HIDE DEF c
  <2>5. task' \in Task
    BY <2>3, <2>4 DEF Task
  <2>6. QED
    BY <1>12, <2>5 DEF FinishLong
<1>13. ASSUME NEW b \in Books, Trim(b) PROVE TypeOK'
  <2>1. [item[b] EXCEPT !.chapters = task.cut] \in Item
    BY TaskParts, ChaptersAreItem
  <2>2. item' = [item EXCEPT ![b] = [item[b] EXCEPT !.chapters = task.cut]]
    BY <1>13 DEF Trim
  <2>3. task' \in Task
    <3>1. <<>> \in Seq(Nat) /\ task' = [task EXCEPT !.phase = "closing", !.cut = <<>>]
      BY <1>13 DEF Trim
    <3>2. QED
      BY <3>1 DEF Task
  <2>4. QED
    BY <1>13, <2>1, <2>2, <2>3 DEF Trim
<1>14. ASSUME NEW b \in Books, Close(b) PROVE TypeOK'
  BY <1>10, <1>14 DEF Close
<1>15. ASSUME NEW l \in Libraries, Settle(l) PROVE TypeOK'
  <2>1. task' \in Task
    BY <1>15 DEF Settle, Task
  <2>2. QED
    BY <1>15, <2>1 DEF Settle
<1>e. CASE CountProgress
  <2>1. task' \in Task
    BY <1>e DEF CountProgress, Blocked, Task
  <2>2. outcome' \in [Books -> Outcome]
    BY <1>e DEF CountProgress, Outcome
  <2>3. QED
    BY <1>e, <2>1, <2>2 DEF CountProgress
<1>16. CASE Settled
  <2>1. task' \in Task
    BY <1>16 DEF Settled, Task
  <2>2. QED
    BY <1>16, <2>1 DEF Settled
<1>17. CASE RequestScan
  <2>1. task' \in Task
    BY <1>17 DEF RequestScan, Task
  <2>2. left' \in SUBSET Books /\ scanning' \in SUBSET Libraries
    <3>1. task.lib \in Libraries /\ ScanStarts(task.lib)
      BY <1>17 DEF RequestScan, LibInv
    <3>2. QED
      BY <1>b, <3>1
  <2>3. QED
    BY <1>17, <2>1, <2>2 DEF RequestScan
<1>18. CASE ScanDone
  <2>1. OfLib \in SUBSET Books
    BY TaskParts DEF OfLib
  <2>2. task' \in Task
    BY <1>18, <2>1 DEF ScanDone, Task
  <2>3. QED
    BY <1>18, <2>2 DEF ScanDone
<1>c. ASSUME GivenUp PROVE task' \in Task /\ outcome' \in [Books -> Outcome]
  <2>1. "failed" \in Outcome
    BY DEF Outcome
  <2>2. task' \in Task
    BY <1>c DEF GivenUp, Task
  <2>3. outcome' \in [Books -> Outcome]
    BY <1>c, <2>1 DEF GivenUp
  <2>4. QED
    BY <2>2, <2>3
<1>19. CASE ScanTooLong
  BY <1>c, <1>19 DEF ScanTooLong
<1>20. CASE ScanRefused
  <2>1. left' \in SUBSET Books /\ scanning' \in SUBSET Libraries
    <3>1. CASE task.phase = "requesting"
      <4>1. task.lib \in Libraries
        BY <3>1 DEF LibInv
      <4>2. ScanStarts(task.lib) \/ UNCHANGED <<scanning, left>>
        BY <1>20, <3>1 DEF ScanRefused
      <4>3. QED
        BY <1>b, <4>1, <4>2
    <3>2. CASE task.phase # "requesting"
      BY <1>20, <3>2 DEF ScanRefused
    <3>3. QED
      BY <3>1, <3>2
  <2>2. task' \in Task /\ outcome' \in [Books -> Outcome] /\ upsets' \in 0 .. MaxUpsets
    BY <1>a, <1>c, <1>20 DEF ScanRefused
  <2>3. QED
    BY <1>20, <2>1, <2>2 DEF ScanRefused
<1>d. ASSUME Dies PROVE task' \in Task /\ outcome' \in [Books -> Outcome]
  <2>1. task' = Died(task) /\ outcome' = [b \in Books |-> "none"] /\ "none" \in Outcome
    BY <1>d DEF Dies, Outcome
  <2>2. Died(task) \in Task
    BY DiedIsTask
  <2>3. QED
    BY <2>1, <2>2
<1>21. CASE ReadStopped
  BY <1>d, <1>21 DEF ReadStopped, Dies
<1>22. CASE Crash
  BY <1>a, <1>d, <1>22 DEF Crash, Dies
<1>23. CASE EndRun
  <2>1. Died(task) \in Task
    BY DiedIsTask
  <2>2. outcome' \in [Books -> Outcome]
    <3>1. "not-reached" \in Outcome
      BY DEF Outcome
    <3>2. QED
      BY <1>23, <3>1 DEF EndRun
  <2> DEFINE final == [b \in Books |-> IF b \in Unreached THEN "not-reached" ELSE outcome[b]]
             new(b) == CASE task.kind = "preview" ->
                              IF b \in task.targets THEN PlanOf(Dead(task.seen[b])) ELSE NoPlan
                         [] task.kind = "repair" ->
                              IF final[b] \in {"not-reached", "partly"}
                                THEN PlanOf(Dead(task.seen[b])) ELSE NoPlan
                         [] OTHER -> IF final[b] \in Keeps \cup {"none"} THEN plan[b] ELSE NoPlan
  <2>3. ASSUME NEW b \in Books PROVE new(b) \in {NoPlan} \cup {PlanOf(d) : d \in SUBSET Ino}
    <3>1. Dead(task.seen[b]) \in SUBSET Ino
      BY TaskParts, LiveIsIno
    <3>2. new(b) \in {NoPlan, plan[b], PlanOf(Dead(task.seen[b]))}
      BY TaskParts
    <3> HIDE DEF new
    <3>3. QED
      BY <3>1, <3>2
  <2>4. plan' = [b \in Books |-> new(b)]
    BY <1>23 DEF EndRun
  <2> HIDE DEF new
  <2>5. plan' \in [Books -> {NoPlan} \cup {PlanOf(d) : d \in SUBSET Ino}]
    BY <2>3, <2>4
  <2>6. QED
    BY <1>23, <2>1, <2>2, <2>5 DEF EndRun
<1>24. ASSUME NEW kind \in {"preview", "repair", "apply"}, StartRun(kind) PROVE TypeOK'
  <2> DEFINE chosen == IF kind = "apply" THEN {b \in Books : plan[b] # NoPlan} ELSE Books
  <2>1. chosen \in SUBSET Books
    OBVIOUS
  <2>2. Fresh("reading", kind, reach, chosen) \in Task
    <3> HIDE DEF chosen
    <3>1. QED
      BY <2>1 DEF Fresh, Task, Method
  <2>3. task' = Fresh("reading", kind, reach, chosen) /\ outcome' = [b \in Books |-> "none"]
    BY <1>24 DEF StartRun
  <2>4. outcome' \in [Books -> Outcome] /\ runs' \in 0 .. MaxRuns
    BY <1>24, <2>3, RepairAssumption DEF StartRun, Outcome
  <2> HIDE DEF chosen
  <2>5. QED
    BY <1>24, <2>2, <2>3, <2>4 DEF StartRun
<1>25. ASSUME NEW b \in Books, ScanBook(b) PROVE TypeOK'
  <2>1. Rescanned(item[b]) \in Item
    BY RescannedIsItem
  <2>2. QED
    BY <1>25, <2>1 DEF ScanBook
<1>26. ASSUME NEW b \in Books, RemoveDead(b) PROVE TypeOK'
  <2>1. WithTracks(item[b], Live(item[b]), item[b].off) \in Item
    BY WithTracksIsItem
  <2>2. QED
    BY <1>26, <1>a, <2>1 DEF RemoveDead
<1>27. ASSUME NEW b \in Books, NEW i \in Ino, NEW j \in Ino, Renumber(b, i, j) PROVE TypeOK'
  <2>1. Renumbered(item[b], i, j) \in Item
    BY RenumberedIsItem
  <2>2. QED
    BY <1>27, <1>a, <2>1 DEF Renumber
<1>28. ASSUME NEW l \in Libraries, ScanEnds(l) PROVE TypeOK'
  BY <1>28 DEF ScanEnds
<1>29. ASSUME NEW l \in Libraries, OthersScan(l) PROVE TypeOK'
  BY <1>29, <1>b DEF OthersScan
<1>30. CASE StopRun
  <2>1. task' \in Task
    BY <1>30 DEF StopRun, Task
  <2>2. QED
    BY <1>30, <1>a, <2>1 DEF StopRun
<1>31. CASE FlipReach
  BY <1>31, <1>a DEF FlipReach
<1>32. ASSUME NEW v \in DOMAIN revisions, NEW force \in BOOLEAN, Revert(v, force) PROVE TypeOK'
  <2> DEFINE r == revisions[v]
             new == [item[r.book] EXCEPT !.recs = r.before.recs, !.off = r.before.off,
                                         !.chapters = r.before.chapters]
  <2>1. r \in Revision
    OBVIOUS
  <2>2. r.book \in Books /\ r.before \in Lists
    BY <2>1 DEF Revision
  <2>3. new \in Item
    BY <2>2 DEF Item, Lists
  <2>4. item' = [item EXCEPT ![r.book] = new] /\ revisions' = [revisions EXCEPT ![v].reverted = TRUE]
    BY <1>32 DEF Revert
  <2>5. [r EXCEPT !.reverted = TRUE] \in Revision
    BY <2>1 DEF Revision
  <2>6. revisions' = [revisions EXCEPT ![v] = [r EXCEPT !.reverted = TRUE]]
    BY <2>4
  <2> HIDE DEF r, new
  <2>7. revisions' \in Seq(Revision)
    BY <2>5, <2>6, ExceptInSeq
  <2>8. item' \in [Books -> Item]
    BY <2>2, <2>3, <2>4
  <2>9. QED
    BY <1>32, <2>7, <2>8 DEF Revert
<1>33. CASE UNCHANGED vars
  BY <1>33 DEF vars
<1>34. QED
  <2>1. ASSUME TaskStep PROVE TypeOK'
    BY <2>1, <1>1, <1>3, <1>4, <1>5, <1>6, <1>8, <1>11, <1>12, <1>13, <1>14, <1>15,
       <1>16, <1>17, <1>18, <1>19, <1>21, <1>23, <1>e DEF TaskStep
  <2>2. QED
    BY <2>1, <1>2, <1>9, <1>20, <1>22, <1>24, <1>25, <1>26, <1>27, <1>28, <1>29, <1>30,
       <1>31, <1>32, <1>33 DEF Next

LEMMA LibStep ==
  ASSUME TypeOK, LibInv, [Next]_vars
  PROVE  LibInv'
<1> USE DEF LibInv
<1>0. task \in Task
  BY DEF TypeOK
<1>a. ASSUME NEW b \in Books, Read(b) \/ ReadFails(b) PROVE LibInv'
  BY <1>a, ReadingOn
<1>b. ASSUME NEW b \in Books, \/ Begin(b) \/ Drop(b) \/ Touch(b)
             \/ RescanItem(b) \/ FinishLong(b) \/ Trim(b)
      PROVE  LibInv'
  BY <1>0, <1>b DEF Begin, Drop, Touch, RescanItem, FinishLong, Trim, Over, Task
<1>1. ASSUME NEW b \in Books, \/ Read(b) \/ ReadFails(b) \/ Begin(b) \/ Drop(b) \/ Touch(b)
             \/ RescanItem(b) \/ FinishLong(b) \/ Trim(b)
      PROVE  LibInv'
  BY <1>1, <1>a, <1>b
<1>2. ASSUME NEW b \in Books, Closed(b) PROVE LibInv'
  BY <1>0, <1>2 DEF Closed, Over, Task
<1>3. ASSUME NEW b \in Books, Failed(b) PROVE LibInv'
  BY <1>0, <1>3 DEF Failed, Over, Died, Task
<1>4. ASSUME NEW l \in Libraries, Settle(l) PROVE LibInv'
  BY <1>0, <1>4 DEF Settle, Task
<1>5. CASE CountProgress \/ Settled \/ RequestScan \/ ScanDone \/ StopRun
  BY <1>0, <1>5 DEF CountProgress, Settled, RequestScan, ScanDone, StopRun, Task
<1>6. ASSUME GivenUp PROVE LibInv'
  BY <1>0, <1>6 DEF GivenUp, Task
<1>7. ASSUME task' = Died(task) PROVE LibInv'
  BY <1>0, <1>7 DEF Died, Task
<1>8. ASSUME NEW kind, StartRun(kind) PROVE LibInv'
  BY <1>8 DEF StartRun, Fresh
<1>9. ASSUME task' = task PROVE LibInv'
  BY <1>9
<1>10. QED
  <2>1. ASSUME TaskStep PROVE LibInv'
    BY <2>1, <1>1, <1>2, <1>3, <1>4, <1>5, <1>6, <1>7
       DEF TaskStep, TouchFails, Finish, Close, ScanTooLong, ReadStopped, Dies, EndRun
  <2>2. CASE \/ \E kind \in {"preview", "repair", "apply"} : StartRun(kind)
             \/ \E b \in Books : ReadFails(b) \/ StepFails(b)
             \/ ScanRefused \/ StopRun \/ Crash
    BY <2>2, <1>1, <1>3, <1>5, <1>6, <1>7, <1>8 DEF StepFails, ScanRefused, Crash, Dies
  <2>3. CASE \/ \E b \in Books : ScanBook(b) \/ RemoveDead(b)
             \/ \E b \in Books, i, j \in Ino : Renumber(b, i, j)
             \/ \E l \in Libraries : ScanEnds(l) \/ OthersScan(l)
             \/ FlipReach \/ \E v \in DOMAIN revisions, force \in BOOLEAN : Revert(v, force)
             \/ UNCHANGED vars
    BY <2>3, <1>9 DEF ScanBook, RemoveDead, Renumber, ScanEnds, OthersScan, FlipReach, Revert, vars
  <2>4. QED
    BY <2>1, <2>2, <2>3 DEF Next

LEMMA DropStep ==
  ASSUME TypeOK, DropInv, [Next]_vars
  PROVE  DropInv'
<1> USE DEF DropInv
<1>0. task \in Task /\ revisions \in Seq(Revision)
  BY DEF TypeOK
<1>1. ASSUME task'.phase # "dropping" PROVE DropInv'
  BY <1>1
<1>2. ASSUME NEW b \in Books, Begin(b) PROVE DropInv'
  <2> DEFINE it == task.seen[b]
  <2>1. CASE NeedsFileChanges(b, it, task.access)
    <3>1. task'.phase = "items"
      BY <1>0, <1>2, <2>1 DEF Begin, Over, Task
    <3>2. QED
      BY <3>1
  <2>2. CASE ~NeedsFileChanges(b, it, task.access)
    <3> DEFINE r == [book |-> b, before |-> [recs |-> it.recs, off |-> it.off, chapters |-> it.chapters],
                     recs |-> Live(it), chapters |-> <<>>, reverted |-> FALSE]
               m == ChooseMethod(b, it, task.access)
               n == Len(revisions) + 1
    <3>1. /\ revisions' = Append(revisions, r)
          /\ task' = [task EXCEPT !.phase = "dropping", !.cur = b, !.targets = @ \ {b},
                                  !.method[b] = m, !.revision[b] = n]
      BY <1>2, <2>2 DEF Begin
    <3>2. r.book = b /\ r.reverted = FALSE /\ r.before.recs = task.seen[b].recs
      OBVIOUS
    <3> HIDE DEF r, m, it
    <3>3. n \in DOMAIN revisions' /\ revisions'[n] = r
      BY <1>0, <3>1
    <3> HIDE DEF n
    <3>4. task'.cur = b /\ task'.revision[b] = n /\ task'.seen = task.seen
      BY <1>0, <3>1 DEF Task
    <3>5. QED
      BY <3>2, <3>3, <3>4
  <2>3. QED
    BY <2>1, <2>2
<1>3. ASSUME UNCHANGED revisions, task'.phase = task.phase, task'.cur = task.cur,
             task'.revision = task.revision, task'.seen = task.seen
      PROVE  DropInv'
  BY <1>3
<1>4. ASSUME NEW v \in DOMAIN revisions, NEW force, Revert(v, force) PROVE DropInv'
  BY <1>4 DEF Revert
<1>a. ASSUME NEW b \in Books, Read(b) \/ ReadFails(b) PROVE task'.phase # "dropping"
  BY <1>a, ReadingOn
<1>b. ASSUME NEW b \in Books, Drop(b) \/ Touch(b) \/ RescanItem(b) \/ FinishLong(b) \/ Trim(b)
      PROVE  task'.phase # "dropping"
  BY <1>0, <1>b DEF Drop, Touch, RescanItem, FinishLong, Trim, Over, Task
<1>5. ASSUME NEW b \in Books, \/ Read(b) \/ ReadFails(b) \/ Drop(b) \/ Touch(b)
             \/ RescanItem(b) \/ FinishLong(b) \/ Trim(b)
      PROVE  task'.phase # "dropping"
  BY <1>5, <1>a, <1>b
<1>6. ASSUME NEW b \in Books, Closed(b) \/ Failed(b) PROVE task'.phase # "dropping"
  BY <1>0, <1>6 DEF Closed, Failed, Over, Died, Task
<1>7. ASSUME NEW l \in Libraries, Settle(l) PROVE task'.phase # "dropping"
  BY <1>0, <1>7 DEF Settle, Task
<1>8. ASSUME CountProgress \/ Settled \/ RequestScan \/ ScanDone \/ GivenUp PROVE task'.phase # "dropping"
  BY <1>0, <1>8 DEF CountProgress, Settled, RequestScan, ScanDone, GivenUp, Task
<1>9. ASSUME task' = Died(task) PROVE task'.phase # "dropping"
  BY <1>0, <1>9 DEF Died, Task
<1>10. ASSUME NEW kind, StartRun(kind) PROVE task'.phase # "dropping"
  BY <1>10 DEF StartRun, Fresh
<1>11. CASE StopRun
  BY <1>0, <1>3, <1>11 DEF StopRun, Task
<1>12. QED
  <2>1. ASSUME TaskStep PROVE DropInv'
    BY <2>1, <1>1, <1>2, <1>5, <1>6, <1>7, <1>8, <1>9
       DEF TaskStep, TouchFails, Finish, Close, ScanTooLong, ReadStopped, Dies, EndRun
  <2>2. CASE \/ \E kind \in {"preview", "repair", "apply"} : StartRun(kind)
             \/ \E b \in Books : ReadFails(b) \/ StepFails(b)
             \/ ScanRefused \/ StopRun \/ Crash
             \/ \E v \in DOMAIN revisions, force \in BOOLEAN : Revert(v, force)
    BY <2>2, <1>1, <1>4, <1>5, <1>6, <1>8, <1>9, <1>10, <1>11 DEF StepFails, ScanRefused, Crash, Dies
  <2>3. CASE \/ \E b \in Books : ScanBook(b) \/ RemoveDead(b)
             \/ \E b \in Books, i, j \in Ino : Renumber(b, i, j)
             \/ \E l \in Libraries : ScanEnds(l) \/ OthersScan(l)
             \/ FlipReach \/ UNCHANGED vars
    BY <2>3, <1>3 DEF ScanBook, RemoveDead, Renumber, ScanEnds, OthersScan, FlipReach, vars
  <2>4. QED
    BY <2>1, <2>2, <2>3 DEF Next

LEMMA MendInvariance == Spec => []MendInv
<1>1. MendInv /\ [Next]_vars => MendInv'
  BY TypeStep, LibStep, DropStep DEF MendInv
<1>2. QED
  BY MendInvInit, <1>1, PTL DEF Spec

\* What the server and the task keep has its type throughout (TypeOK): no undo
\* record, plan or list of books to do ever names what does not exist.
THEOREM RepairTypeCorrect == Spec => []TypeOK
<1>1. MendInv => TypeOK
  BY DEF MendInv
<1>2. QED
  BY <1>1, MendInvariance, PTL

\* Every record a run drops is in an undo record still pending:
\* DropsAreOnRecord.
THEOREM DropsOnRecord == Spec => DropsAreOnRecord
<1> DEFINE OnRecord(b) == UNION {revisions[v].before.recs : v \in {w \in DOMAIN revisions :
                                   revisions[w].book = b /\ ~revisions[w].reverted}}
<1>1. ASSUME MendInv, [Next]_vars, NEW b \in Books, task' # task
      PROVE  item[b].recs \ item'[b].recs \subseteq (Ino \ task.seen[b].recs) \cup OnRecord(b)
  <2>0. item \in [Books -> Item] /\ item[b] \in Item /\ item[b].recs \subseteq Ino
    BY <1>1 DEF MendInv, TypeOK, Item
  <2>1. ASSUME item'[b] = item[b] \/ item[b].recs \subseteq item'[b].recs
        PROVE  item[b].recs \ item'[b].recs = {}
    BY <2>1
  <2>2. ASSUME task.phase = "dropping", task.cur = b, item'[b] = Dropped(b)
        PROVE  item[b].recs \ item'[b].recs \subseteq (Ino \ task.seen[b].recs) \cup OnRecord(b)
    <3>1. task.seen[b].recs \subseteq OnRecord(b)
      BY <1>1, <2>2 DEF MendInv, DropInv
    <3>2. QED
      BY <2>0, <3>1
  <2>3. ASSUME NEW c \in Books, NEW new, item' = [item EXCEPT ![c] = new],
               c = b => item[b].recs \subseteq new.recs
        PROVE  item[b].recs \ item'[b].recs = {}
    BY <2>0, <2>1, <2>3
  <2>4. ASSUME NEW c \in Books, Drop(c) \/ StepFails(c)
        PROVE  item[b].recs \ item'[b].recs \subseteq (Ino \ task.seen[b].recs) \cup OnRecord(b)
    <3>1. CASE c # b
      BY <2>0, <2>1, <2>4, <3>1 DEF Drop, StepFails
    <3>2. CASE c = b
      <4>1. \/ item' = item
            \/ task.phase = "dropping" /\ task.cur = b /\ item' = [item EXCEPT ![b] = Dropped(b)]
            \/ item' = [item EXCEPT ![b] = Rescanned(item[b])]
            \/ item' = [item EXCEPT ![b] = [item[b] EXCEPT !.chapters = task.cut]]
        BY <2>0, <2>4, <3>2 DEF Drop, StepFails, AtFinish
      <4>2. item[b].recs \subseteq Rescanned(item[b]).recs
        BY <2>0, RescannedIsItem
      <4>3. [item[b] EXCEPT !.chapters = task.cut].recs = item[b].recs
        BY <2>0 DEF Item
      <4>4. QED
        BY <2>0, <2>1, <2>2, <4>1, <4>2, <4>3
    <3>3. QED
      BY <3>1, <3>2
  <2>5. ASSUME NEW c \in Books, Touch(c) \/ Trim(c) \/ RescanItem(c)
        PROVE  item[b].recs \ item'[b].recs = {}
    <3>1. item[c] \in Item
      BY <2>0
    <3>2. item[c].recs \subseteq Rescanned(item[c]).recs
      BY <3>1, RescannedIsItem
    <3>3. /\ [item[c] EXCEPT !.changed = TRUE].recs = item[c].recs
          /\ [item[c] EXCEPT !.chapters = task.cut].recs = item[c].recs
      BY <3>1 DEF Item
    <3>4. \/ item' = [item EXCEPT ![c] = [item[c] EXCEPT !.changed = TRUE]]
          \/ item' = [item EXCEPT ![c] = [item[c] EXCEPT !.chapters = task.cut]]
          \/ item' = [item EXCEPT ![c] = Rescanned(item[c])]
      BY <2>5 DEF Touch, Trim, RescanItem
    <3>5. QED
      BY <2>3, <3>2, <3>3, <3>4
  <2>6. ASSUME item' = item PROVE item[b].recs \ item'[b].recs = {}
    BY <2>6
  <2>7. QED
    <3>1. CASE TaskStep
      BY <3>1, <2>4, <2>5, <2>6
         DEF TaskStep, Read, Begin, TouchFails, Finish, FinishLong, Close, Settle, CountProgress, Settled,
             RequestScan, ScanDone, ScanTooLong, ReadStopped, Dies, EndRun
    <3>2. CASE \/ \E kind \in {"preview", "repair", "apply"} : StartRun(kind)
               \/ \E c \in Books : ReadFails(c) \/ StepFails(c)
               \/ ScanRefused \/ StopRun \/ Crash
      BY <3>2, <2>4, <2>6 DEF StartRun, ReadFails, ScanRefused, StopRun, Crash, Dies
    <3>3. ~ \/ \E c \in Books : ScanBook(c) \/ RemoveDead(c)
            \/ \E c \in Books, i, j \in Ino : Renumber(c, i, j)
            \/ \E l \in Libraries : ScanEnds(l) \/ OthersScan(l)
            \/ FlipReach \/ \E v \in DOMAIN revisions, force \in BOOLEAN : Revert(v, force)
            \/ UNCHANGED vars
      BY <1>1 DEF ScanBook, RemoveDead, Renumber, ScanEnds, OthersScan, FlipReach, Revert, vars
    <3>4. QED
      BY <1>1, <3>1, <3>2, <3>3 DEF Next
<1>2. MendInv /\ [Next]_vars =>
        [\A b \in Books : task' # task =>
           item[b].recs \ item'[b].recs \subseteq (Ino \ task.seen[b].recs) \cup OnRecord(b)]_vars
  BY <1>1
<1>3. QED
  BY <1>2, MendInvariance, PTL DEF Spec, DropsAreOnRecord

--------------------------------------------------------------------------------
(***************************************************************************)
(* Repair: while nothing fails and nobody interferes.                      *)
(*                                                                         *)
(* What makes a repair come out right is spread over its stages: the book  *)
(* stays as it was read until the drop; from then on its records are among *)
(* its files, and either its length is already theirs or the server has a  *)
(* reason to scan it again; and a book that waits for the library's scan   *)
(* is visited by one that began after its file was touched.                *)
(***************************************************************************)
\* The book is as it was read, and was judged fit to be repaired.
AsRead(b) ==
  LET seen == task.seen[b] IN
  /\ item[b].disk = seen.disk /\ item[b].recs = seen.recs
  /\ seen.disk \subseteq seen.recs /\ ~Ambiguous(seen)

\* The book's records are those of the files it has, and its length is theirs.
Whole(b) == item[b].disk = Live(task.seen[b]) /\ item[b].recs = Live(task.seen[b])
Right(b) == /\ Whole(b)
            /\ ~Partial(b) => item[b].length = Total(Live(task.seen[b]))

\* The server knows every file, and no undo record would make it forget one.
ShelfInv ==
  /\ \A b \in Books : \/ item[b].disk \subseteq item[b].recs
                      \/ task.phase = "rescanning" /\ task.cur = b
  /\ \A v \in DOMAIN revisions : item[revisions[v].book].disk \subseteq revisions[v].before.recs

\* No book is in two stages of a repair at once.
StageInv ==
  /\ ~task.stop
  /\ task.phase # "idle" => task.access = reach
  /\ task.phase = "idle" => task.targets = {}
  /\ task.phase \in {"idle", "reading"} => task.wait = {} /\ task.group = {}
  /\ task.phase = "reading" => task.todo \cap task.targets = {}
  /\ task.targets \cap (task.wait \cup task.group) = {}
  /\ task.phase \in {"dropping", "touching", "rescanning"} =>
       task.cur \in Books \ (task.targets \cup task.wait \cup task.group)
  /\ task.phase \in {"finishing", "trimming", "closing"} => task.cur \in Books

\* The books this install cannot mend are told apart from those it can.
Sorted == task.phase # "reading" \/ task.kind = "apply"

\* What is so of a book at each stage.
BegunInv ==
  LET b == task.cur IN
  /\ \A c \in task.targets :
       AsRead(c) /\ (Sorted => ~NeedsFileChanges(c, task.seen[c], task.access))
  /\ task.phase = "dropping" =>
       AsRead(b) /\ task.method[b] = ChooseMethod(b, task.seen[b], task.access)
  /\ task.phase = "touching" => Whole(b) /\ reach
  /\ task.phase = "rescanning" =>
       /\ item[b].disk = Live(task.seen[b]) /\ item[b].recs \subseteq item[b].disk
       /\ \/ Right(b) \/ item[b].changed
          \/ Cardinality(item[b].disk) # Cardinality(item[b].recs)
  /\ task.phase \in {"finishing", "trimming", "closing"} => Right(b)

\* A book that waits for a scan is right once a scan that began after the touch
\* has visited it.
ScanInv ==
  /\ \A b \in task.wait : Whole(b) /\ (item[b].changed \/ Right(b))
  /\ \A b \in task.group : Right(b)
  /\ task.phase \in {"requesting", "awaiting"} /\ task.lib \in scanning =>
       \A b \in OfLib : b \in left \/ Right(b)
  /\ task.phase = "awaiting" /\ task.lib \notin scanning => \A b \in OfLib : Right(b)

Quiet == ShelfInv /\ StageInv /\ BegunInv /\ ScanInv /\ \A b \in Books : outcome[b] # "failed"
QuietInv == upsets = 0 /\ ~late => Quiet

LEMMA RescannedIs ==
  ASSUME NEW it \in Item
  PROVE  LET new == Rescanned(it) IN
         /\ new.disk = it.disk
         /\ new = it \/ /\ new.recs = it.recs \cup it.disk /\ new.length = Total(it.recs \cup it.disk)
                        /\ ~new.changed
         /\ it.changed \/ Cardinality(it.disk) # Cardinality(it.recs) => 
              /\ new.recs = it.recs \cup it.disk /\ new.length = Total(it.recs \cup it.disk)
              /\ ~new.changed
<1>1. CASE ~it.changed /\ Cardinality(it.disk) = Cardinality(it.recs)
  BY <1>1 DEF Rescanned
<1>2. CASE ~(~it.changed /\ Cardinality(it.disk) = Cardinality(it.recs))
  <2> DEFINE recs == it.recs \cup it.disk
             chapters == IF Cardinality(it.disk) > 1 THEN <<Total(recs)>> ELSE it.chapters
  <2>1. Rescanned(it) = [it EXCEPT !.recs = recs, !.length = Total(recs), !.changed = FALSE,
                                   !.chapters = chapters]
    BY <1>2 DEF Rescanned
  <2> HIDE DEF chapters
  <2>2. QED
    BY <2>1 DEF Item
<1>3. QED
  BY <1>1, <1>2

\* What is so of a book stays so while nothing touches it.
LEMMA SameBook ==
  ASSUME NEW b, item'[b].disk = item[b].disk, item'[b].recs = item[b].recs,
         item'[b].length = item[b].length, task'.seen[b] = task.seen[b],
         task'.method[b] = task.method[b]
  PROVE  AsRead(b)' = AsRead(b) /\ Whole(b)' = Whole(b) /\ Right(b)' = Right(b)
<1>1. Whole(b)' = Whole(b) /\ Partial(b)' = Partial(b)
  BY DEF Whole, Partial
<1>2. AsRead(b)' = AsRead(b)
  BY DEF AsRead
<1>3. Right(b)' = Right(b)
  BY <1>1 DEF Right
<1>4. QED
  BY <1>1, <1>2, <1>3

\* A rescan leaves a book right whose records are of the files it has.
LEMMA QuietRescan ==
  ASSUME TypeOK, NEW b \in Books, item'[b] = Rescanned(item[b]),
         task'.seen[b] = task.seen[b], task'.method[b] = task.method[b]
  PROVE  /\ item'[b].disk = item[b].disk
         /\ AsRead(b) => AsRead(b)'
         /\ Whole(b) => Whole(b)'
         /\ Right(b) => Right(b)'
         /\ item[b].disk = Live(task.seen[b]) /\ item[b].recs \subseteq item[b].disk =>
              /\ item'[b].recs \subseteq item'[b].disk
              /\ item[b].changed => Right(b)'
              /\ Cardinality(item[b].disk) # Cardinality(item[b].recs) => Right(b)'
              /\ item'[b] = item[b] \/ Right(b)'
<1> DEFINE new == Rescanned(item[b])
<1>1. item[b] \in Item
  BY DEF TypeOK
<1>2. /\ new.disk = item[b].disk
      /\ new = item[b] \/ /\ new.recs = item[b].recs \cup item[b].disk
                          /\ new.length = Total(item[b].recs \cup item[b].disk)
                          /\ ~new.changed
      /\ item[b].changed \/ Cardinality(item[b].disk) # Cardinality(item[b].recs) => 
            /\ new.recs = item[b].recs \cup item[b].disk
            /\ new.length = Total(item[b].recs \cup item[b].disk)
            /\ ~new.changed
  BY <1>1, RescannedIs
<1>3. AsRead(b) => AsRead(b)'
  BY <1>2 DEF AsRead
<1>4. Whole(b) => Whole(b)'
  BY <1>2 DEF Whole
<1>5. Partial(b)' = Partial(b)
  BY DEF Partial
<1> DEFINE seen == Live(task.seen[b])
<1>6. Whole(b) <=> item[b].disk = seen /\ item[b].recs = seen
  BY DEF Whole
<1>7. Live(task.seen[b])' = seen
  OBVIOUS
<1>8. ASSUME item[b].disk = seen, item[b].recs \subseteq item[b].disk,
             new.recs = item[b].recs \cup item[b].disk,
             new.length = Total(item[b].recs \cup item[b].disk)
      PROVE  Right(b)'
  <2>1. item[b].recs \cup item[b].disk = seen
    BY <1>8
  <2>2. item'[b].disk = seen /\ item'[b].recs = seen /\ item'[b].length = Total(seen)
    BY <1>2, <1>8, <2>1
  <2>3. QED
    BY <1>7, <2>2 DEF Right, Whole
<1>9. Right(b) => Right(b)'
  <2>1. SUFFICES ASSUME Right(b) PROVE Right(b)'
    OBVIOUS
  <2>2. CASE new = item[b]
    BY <2>1, <2>2, SameBook
  <2>3. CASE new # item[b]
    BY <1>2, <1>6, <1>8, <2>1, <2>3 DEF Right
  <2>4. QED
    BY <2>2, <2>3
<1>10. QED
  BY <1>2, <1>3, <1>4, <1>8, <1>9

LEMMA FitToRepair ==
  ASSUME TypeOK, NEW b \in Books, AsRead(b)
  PROVE  LET seen == task.seen[b] IN
         /\ seen \in Item /\ Live(seen) = seen.disk /\ Live(seen) \subseteq seen.recs
         /\ Playable(seen) # {} /\ IsFiniteSet(Live(seen))
         /\ Max(Playable(seen)) \in Live(seen)
<1> DEFINE seen == task.seen[b]
<1>1. seen \in Item /\ seen.disk \subseteq seen.recs /\ Playable(seen) # {}
  BY TaskParts DEF AsRead, Ambiguous
<1>2. Live(seen) = seen.disk /\ Live(seen) \subseteq seen.recs /\ Live(seen) \in SUBSET Ino
  BY <1>1, LiveIsIno DEF Live
<1>3. IsFiniteSet(Live(seen)) /\ Playable(seen) \subseteq Live(seen)
  BY <1>2, RepairAssumption, FS_Subset DEF Playable
<1>4. IsFiniteSet(Playable(seen)) /\ Playable(seen) \in SUBSET Nat
  BY <1>2, <1>3, RepairAssumption, FS_Subset
<1>5. Max(Playable(seen)) \in Playable(seen)
  BY <1>1, <1>4, MaxOfFinite
<1>6. QED
  BY <1>1, <1>2, <1>3, <1>5

\* What a drop leaves.
LEMMA QuietDrop ==
  ASSUME TypeOK, NEW b \in Books, AsRead(b), task.method[b] \in Method,
         item'[b] = Dropped(b), task'.seen[b] = task.seen[b], task'.method[b] = task.method[b]
  PROVE  /\ item'[b].disk = item[b].disk /\ item'[b].disk = Live(task.seen[b])
         /\ item'[b].recs \subseteq item'[b].disk
         /\ task.method[b] \in {"touch", "library-scan", "records-only"} => Whole(b)'
         /\ task.method[b] \in {"rescan-one", "clear"} =>
              Cardinality(item'[b].disk) # Cardinality(item'[b].recs)
<1> DEFINE seen == task.seen[b]
           kept == Kept(seen, task.method[b])
<1>1. /\ seen \in Item /\ Live(seen) = seen.disk /\ Live(seen) \subseteq seen.recs
      /\ Playable(seen) # {} /\ IsFiniteSet(Live(seen)) /\ Max(Playable(seen)) \in Live(seen)
  BY FitToRepair
<1>2. kept \subseteq Live(seen)
  BY DEF Kept
<1>3. item[b] \in Item /\ item[b].disk = seen.disk /\ item[b].recs = seen.recs
  BY DEF TypeOK, AsRead
<1>4. item'[b].recs = kept /\ item'[b].disk = Live(seen)
  BY <1>1, <1>2, <1>3 DEF Dropped, WithTracks, Item
<1>5. ASSUME task.method[b] \in {"touch", "library-scan", "records-only"} PROVE kept = Live(seen)
  BY <1>5 DEF Kept
<1>6. ASSUME task.method[b] = "clear" PROVE Cardinality(Live(seen)) # Cardinality(kept)
  <2>1. kept = {}
    BY <1>6 DEF Kept
  <2>2. Live(seen) # {}
    BY <1>1
  <2>3. QED
    BY <1>1, <2>1, <2>2, FS_EmptySet
<1>7. ASSUME task.method[b] = "rescan-one" PROVE Cardinality(Live(seen)) # Cardinality(kept)
  <2> DEFINE m == Max(Playable(seen))
  <2>1. kept = Live(seen) \ {m}
    BY <1>7 DEF Kept
  <2>2. Cardinality(Live(seen) \ {m}) = Cardinality(Live(seen)) - 1 /\ Cardinality(Live(seen)) \in Nat
    BY <1>1, FS_RemoveElement, FS_CardinalityType
  <2> HIDE DEF m, kept
  <2>3. QED
    BY <2>1, <2>2
<1> HIDE DEF kept
<1>8. QED
  BY <1>1, <1>2, <1>3, <1>4, <1>5, <1>6, <1>7 DEF Whole

LEMMA RecordsAreOfBooks ==
  ASSUME TypeOK
  PROVE  \A v \in DOMAIN revisions : revisions[v].book \in Books
<1>1. \A v \in DOMAIN revisions : revisions[v] \in Revision
  BY DEF TypeOK
<1>2. QED
  BY <1>1 DEF Revision

LEMMA NeedsSame ==
  ASSUME NEW b, reach' = reach, task'.seen[b] = task.seen[b], task'.access = task.access
  PROVE  NeedsFileChanges(b, task.seen[b], task.access)' = NeedsFileChanges(b, task.seen[b], task.access)
BY DEF NeedsFileChanges, CanTouch

\* What is still to be repaired, once the books are sorted.
LEMMA TargetsAre ==
  ASSUME Quiet, task.phase # "reading"
  PROVE  \A c \in task.targets : AsRead(c) /\ ~NeedsFileChanges(c, task.seen[c], task.access)
BY DEF Quiet, BegunInv, Sorted

LEMMA QuietRead ==
  ASSUME TypeOK, Quiet, NEW b \in Books, Read(b)
  PROVE  Quiet'
<1> DEFINE verdict == Judged(b, item[b])
<1>1. /\ task.phase = "reading" /\ b \in task.todo
      /\ item' = item /\ reach' = reach /\ revisions' = revisions
      /\ left' = left /\ scanning' = scanning
      /\ outcome' = [outcome EXCEPT ![b] = verdict]
  BY DEF Read
<1>2. /\ task'.seen = [task.seen EXCEPT ![b] = item[b]] /\ task'.todo = task.todo \ {b}
      /\ task'.targets = (IF verdict = "none" THEN task.targets \cup {b} ELSE task.targets)
      /\ task'.phase \in {"reading", "items"} /\ (task'.phase = "items" => task.kind = "apply")
      /\ task'.access = task.access /\ task'.stop = task.stop /\ task'.method = task.method
      /\ task'.wait = task.wait /\ task'.group = task.group /\ task'.kind = task.kind
  <2>1. task.access = reach
    BY <1>1 DEF Quiet, StageInv
  <2>2. QED
    BY <2>1, ReadingOn, ReadingIs
<1>3. /\ task.wait = {} /\ task.group = {} /\ b \notin task.targets
      /\ task.todo \cap task.targets = {}
  BY <1>1 DEF Quiet, StageInv
<1>4. verdict # "failed"
  BY DEF Judged
<1>5. ASSUME verdict = "none"
      PROVE  /\ ~Ambiguous(item[b])
             /\ task.kind = "apply" => ~NeedsFileChanges(b, item[b], task.access)
  BY <1>5 DEF Judged
<1> HIDE DEF verdict
<1>6. ShelfInv'
  BY <1>1, <1>2 DEF Quiet, ShelfInv
<1>7. StageInv'
  BY <1>1, <1>2, <1>3 DEF Quiet, StageInv
<1>8. ASSUME NEW c \in task'.targets
      PROVE  AsRead(c)' /\ (task.kind = "apply" => ~NeedsFileChanges(c, task.seen[c], task.access)')
  <2>1. CASE c = b
    <3>1. verdict = "none" /\ task'.seen[b] = item[b]
      BY <1>2, <1>3, <2>1, TaskParts
    <3>2. item[b].disk \subseteq item[b].recs
      BY <1>1 DEF Quiet, ShelfInv
    <3>3. AsRead(b)'
      BY <1>1, <1>5, <3>1, <3>2 DEF AsRead
    <3>4. task.kind = "apply" => ~NeedsFileChanges(b, task.seen[b], task.access)'
      BY <1>1, <1>2, <1>5, <3>1 DEF NeedsFileChanges, CanTouch
    <3>5. QED
      BY <2>1, <3>3, <3>4
  <2>2. CASE c # b
    <3>1. c \in task.targets /\ task'.seen[c] = task.seen[c]
      BY <1>2, <1>8, <2>2, TaskParts
    <3>2. AsRead(c) /\ (task.kind = "apply" => ~NeedsFileChanges(c, task.seen[c], task.access))
      BY <3>1 DEF Quiet, BegunInv, Sorted
    <3>3. QED
      BY <1>1, <1>2, <3>1, <3>2, SameBook, NeedsSame
  <2>3. QED
    BY <2>1, <2>2
<1>9. BegunInv'
  BY <1>2, <1>8 DEF BegunInv, Sorted
<1>10. ScanInv'
  BY <1>2, <1>3 DEF ScanInv
<1>11. \A c \in Books : outcome'[c] # "failed"
  BY <1>1, <1>4 DEF Quiet, TypeOK
<1>12. QED
  BY <1>6, <1>7, <1>9, <1>10, <1>11 DEF Quiet

LEMMA QuietProgress ==
  ASSUME TypeOK, Quiet, CountProgress
  PROVE  Quiet'
<1>1. /\ UNCHANGED <<item, reach, revisions>> /\ task.phase = "reading"
      /\ outcome' = [b \in Books |-> IF b \in Blocked THEN "needs-file-changes" ELSE outcome[b]]
  BY DEF CountProgress
<1>2. /\ task'.phase = "items" /\ task'.targets = task.targets \ Blocked
      /\ task'.seen = task.seen /\ task'.method = task.method
      /\ task'.access = task.access /\ task'.stop = task.stop
      /\ task'.wait = task.wait /\ task'.group = task.group
  BY DEF CountProgress, TypeOK, Task
<1>3. task.wait = {} /\ task.group = {}
  BY <1>1 DEF Quiet, StageInv
<1>4. ASSUME NEW c \in task'.targets
      PROVE  AsRead(c)' /\ ~NeedsFileChanges(c, task.seen[c], task.access)'
  <2>1. c \in task.targets /\ ~NeedsFileChanges(c, task.seen[c], task.access)
    BY <1>2 DEF Blocked
  <2>2. AsRead(c)
    BY <2>1 DEF Quiet, BegunInv
  <2>3. QED
    BY <1>1, <1>2, <2>1, <2>2, SameBook, NeedsSame
<1>5. BegunInv'
  BY <1>2, <1>4 DEF BegunInv
<1>6. StageInv'
  BY <1>1, <1>2, <1>3 DEF Quiet, StageInv
<1>7. ScanInv'
  BY <1>2, <1>3 DEF ScanInv
<1>8. ShelfInv' /\ \A c \in Books : outcome'[c] # "failed"
  BY <1>1 DEF Quiet, ShelfInv
<1>9. QED
  BY <1>5, <1>6, <1>7, <1>8 DEF Quiet

LEMMA QuietBegin ==
  ASSUME TypeOK, Quiet, NEW b \in Books, Begin(b)
  PROVE  Quiet'
<1> DEFINE seen == task.seen[b]
           r == [book |-> b, before |-> [recs |-> seen.recs, off |-> seen.off, chapters |-> seen.chapters],
                 recs |-> Live(seen), chapters |-> <<>>, reverted |-> FALSE]
           m == ChooseMethod(b, seen, task.access)
<1>1. b \in task.targets /\ task.phase = "items" /\ task.group = {}
  BY DEF Begin, AtItems
<1>2. AsRead(b) /\ ~NeedsFileChanges(b, seen, task.access)
  BY <1>1 DEF Quiet, BegunInv, Sorted
<1>3. /\ item' = item /\ reach' = reach /\ left' = left /\ scanning' = scanning /\ outcome' = outcome
      /\ revisions' = Append(revisions, r)
      /\ task' = [task EXCEPT !.phase = "dropping", !.cur = b, !.targets = @ \ {b},
                              !.method[b] = m, !.revision[b] = Len(revisions) + 1]
  BY <1>2 DEF Begin
<1>4. /\ task'.phase = "dropping" /\ task'.cur = b /\ task'.targets = task.targets \ {b}
      /\ task'.method = [task.method EXCEPT ![b] = m]
      /\ task'.seen = task.seen /\ task'.access = task.access /\ task'.stop = task.stop
      /\ task'.wait = task.wait /\ task'.group = task.group
  BY <1>3 DEF TypeOK, Task
<1>5. r.book = b /\ r.before.recs = seen.recs
  OBVIOUS
<1> HIDE DEF r
<1>6. ShelfInv'
  <2>1. \A c \in Books : item'[c].disk \subseteq item'[c].recs
    BY <1>1, <1>3 DEF Quiet, ShelfInv
  <2>2. revisions \in Seq(Revision)
    BY DEF TypeOK
  <2>3. ASSUME NEW v \in DOMAIN revisions'
        PROVE  item'[revisions'[v].book].disk \subseteq revisions'[v].before.recs
    <3>1. CASE v \in DOMAIN revisions
      BY <1>3, <2>2, <3>1 DEF Quiet, ShelfInv
    <3>2. CASE v \notin DOMAIN revisions
      <4>1. revisions'[v] = r
        BY <1>3, <2>2, <2>3, <3>2
      <4>2. QED
        BY <1>2, <1>3, <1>5, <4>1 DEF AsRead
    <3>3. QED
      BY <3>1, <3>2
  <2>4. QED
    BY <2>1, <2>3 DEF ShelfInv
<1>7. StageInv'
  BY <1>1, <1>3, <1>4 DEF Quiet, StageInv
<1>8. ASSUME NEW c, c # b PROVE /\ AsRead(c)' = AsRead(c) /\ Whole(c)' = Whole(c) /\ Right(c)' = Right(c)
  <2>1. task'.method[c] = task.method[c]
    BY <1>4, <1>8, TaskParts
  <2>2. QED
    BY <1>3, <1>4, <2>1, SameBook
<1>9. BegunInv'
  <2>1. \A c \in task'.targets : AsRead(c)' /\ ~NeedsFileChanges(c, task.seen[c], task.access)'
    BY <1>1, <1>3, <1>4, <1>8, NeedsSame, TargetsAre
  <2>2. AsRead(b)'
    BY <1>2, <1>3, <1>4 DEF AsRead
  <2>3. task'.method[b] = ChooseMethod(b, task.seen[b], task.access)'
    <3>1. task'.method[b] = m
      BY <1>4, TaskParts
    <3>2. QED
      BY <1>3, <1>4, <3>1 DEF ChooseMethod, CanTouch
  <2>4. QED
    BY <1>4, <2>1, <2>2, <2>3 DEF BegunInv, Sorted
<1>10. ScanInv'
  <2>1. b \notin task.wait
    BY <1>1 DEF Quiet, StageInv
  <2>2. ASSUME NEW c \in task.wait PROVE Whole(c)' /\ (item'[c].changed \/ Right(c)')
    BY <1>3, <1>8, <2>1 DEF Quiet, ScanInv
  <2>3. QED
    BY <1>1, <1>4, <2>2 DEF ScanInv
<1>11. QED
  BY <1>3, <1>6, <1>7, <1>9, <1>10 DEF Quiet

LEMMA QuietDrops ==
  ASSUME TypeOK, Quiet, NEW b \in Books, Drop(b)
  PROVE  Quiet'
<1>1. task.phase = "dropping" /\ task.cur = b
  BY DEF Drop
<1>2. AsRead(b) /\ task.method[b] = ChooseMethod(b, task.seen[b], task.access)
  BY <1>1 DEF Quiet, BegunInv, Sorted
<1>3. /\ item' = [item EXCEPT ![b] = Dropped(b)]
      /\ reach' = reach /\ revisions' = revisions
      /\ left' = left /\ scanning' = scanning /\ outcome' = outcome
  BY DEF Drop
<1> DEFINE next == CASE task.method[b] \in {"rescan-one", "clear"} -> "rescanning"
                     [] task.method[b] = "records-only" -> "finishing"
                     [] OTHER -> "touching"
<1>4. /\ task'.phase = next /\ task'.cur = b /\ task'.targets = task.targets
      /\ task'.seen = task.seen /\ task'.method = task.method
      /\ task'.access = task.access /\ task'.stop = task.stop
      /\ task'.wait = task.wait /\ task'.group = task.group
  BY <1>1 DEF Drop, TypeOK, Task
<1>5. item'[b] = Dropped(b) /\ \A c \in Books : c # b => item'[c] = item[c]
  BY <1>3 DEF TypeOK
<1>6. task.method[b] \in Method
  BY TaskParts
<1>7. /\ item'[b].disk = item[b].disk /\ item'[b].disk = Live(task.seen[b])
      /\ item'[b].recs \subseteq item'[b].disk
      /\ task.method[b] \in {"touch", "library-scan", "records-only"} => Whole(b)'
      /\ task.method[b] \in {"rescan-one", "clear"} =>
           Cardinality(item'[b].disk) # Cardinality(item'[b].recs)
  BY <1>2, <1>4, <1>5, <1>6, QuietDrop
<1>8. next \in {"rescanning", "finishing", "touching"} /\ b \in Books \ (task.targets \cup task.wait \cup task.group)
  BY <1>1 DEF Quiet, StageInv
<1>9. Whole(b)' => item'[b].disk \subseteq item'[b].recs
  BY <1>4 DEF Whole
<1>10. ShelfInv'
  <2>1. ASSUME NEW c \in Books
        PROVE  item'[c].disk \subseteq item'[c].recs \/ (next = "rescanning" /\ c = b)
    <3>1. CASE c = b
      BY <1>6, <1>7, <1>9, <3>1 DEF Method
    <3>2. CASE c # b
      BY <1>1, <1>5, <3>2 DEF Quiet, ShelfInv
    <3>3. QED
      BY <3>1, <3>2
  <2>2. \A c \in Books : item'[c].disk = item[c].disk
    BY <1>5, <1>7
  <2>3. \A v \in DOMAIN revisions : revisions[v].book \in Books
    BY RecordsAreOfBooks
  <2>4. QED
    BY <1>3, <1>4, <2>1, <2>2, <2>3 DEF Quiet, ShelfInv
<1>11. StageInv'
  BY <1>1, <1>3, <1>4, <1>8 DEF Quiet, StageInv
<1>12. ASSUME NEW c \in Books, c # b
       PROVE  AsRead(c)' = AsRead(c) /\ Whole(c)' = Whole(c) /\ Right(c)' = Right(c)
  BY <1>4, <1>5, <1>12, SameBook
<1>13. BegunInv'
  <2>1. \A c \in task'.targets : AsRead(c)' /\ ~NeedsFileChanges(c, task.seen[c], task.access)'
    BY <1>1, <1>3, <1>4, <1>8, <1>12, NeedsSame, TaskParts, TargetsAre
  <2>2. CASE next = "touching"
    <3>1. task.method[b] \in {"touch", "library-scan"}
      BY <1>6, <2>2 DEF Method
    <3>2. reach
      BY <1>2, <3>1 DEF ChooseMethod, CanTouch
    <3>3. QED
      BY <1>3, <1>4, <1>7, <2>1, <2>2, <3>1, <3>2 DEF BegunInv, Sorted
  <2>3. CASE next = "rescanning"
    <3>1. task.method[b] \in {"rescan-one", "clear"}
      BY <2>3
    <3>2. QED
      BY <1>4, <1>7, <2>1, <2>3, <3>1 DEF BegunInv, Sorted
  <2>4. CASE next = "finishing"
    <3>1. task.method[b] = "records-only"
      BY <2>4
    <3>2. Right(b)'
      BY <1>4, <1>7, <3>1 DEF Right, Partial
    <3>3. QED
      BY <1>4, <2>1, <2>4, <3>2 DEF BegunInv, Sorted
  <2>5. QED
    BY <1>8, <2>2, <2>3, <2>4
<1>14. ScanInv'
  <2>1. \A c \in task.wait : Whole(c)' /\ (item'[c].changed \/ Right(c)')
    BY <1>5, <1>8, <1>12, TaskParts DEF Quiet, ScanInv
  <2>2. \A c \in task.group : Right(c)'
    BY <1>8, <1>12, TaskParts DEF Quiet, ScanInv
  <2> HIDE DEF next
  <2>3. QED
    BY <1>4, <1>8, <2>1, <2>2 DEF ScanInv
<1>15. QED
  BY <1>3, <1>10, <1>11, <1>13, <1>14 DEF Quiet

LEMMA QuietTouch ==
  ASSUME TypeOK, Quiet, NEW b \in Books, Touch(b)
  PROVE  Quiet'
<1>1. task.phase = "touching" /\ task.cur = b
  BY DEF Touch
<1>2. /\ item' = [item EXCEPT ![b] = [item[b] EXCEPT !.changed = TRUE]]
      /\ reach' = reach /\ revisions' = revisions
      /\ left' = left /\ scanning' = scanning /\ outcome' = outcome
  BY DEF Touch
<1>3. /\ task'.targets = task.targets \ {b}
      /\ task'.seen = task.seen /\ task'.method = task.method
      /\ task'.access = task.access /\ task'.stop = task.stop
      /\ task'.group = task.group
      /\ \/ task'.phase = "rescanning" /\ task'.cur = b /\ task'.wait = task.wait
         \/ task'.phase = "items" /\ task'.wait = task.wait \cup {b}
  <2>1. b \notin task.targets
    BY <1>1 DEF Quiet, StageInv
  <2>2. CASE task.method[b] = "touch"
    BY <1>1, <2>1, <2>2 DEF Touch, TypeOK, Task
  <2>3. CASE task.method[b] # "touch"
    <3>1. task' = [Over(task, b) EXCEPT !.wait = Over(task, b).wait \cup {b}]
      BY <2>3 DEF Touch
    <3>2. QED
      BY <2>1, <3>1 DEF Over, TypeOK, Task
  <2>4. QED
    BY <2>2, <2>3
<1>4. /\ item'[b].changed /\ item'[b].disk = item[b].disk /\ item'[b].recs = item[b].recs
      /\ item'[b].length = item[b].length
      /\ \A c \in Books : c # b => item'[c] = item[c]
  BY <1>2 DEF TypeOK, Item
<1>5. /\ b \in Books \ (task.targets \cup task.wait \cup task.group)
      /\ Whole(b)
  BY <1>1 DEF Quiet, StageInv, BegunInv, Sorted
<1>6. ASSUME NEW c \in Books
      PROVE  AsRead(c)' = AsRead(c) /\ Whole(c)' = Whole(c) /\ Right(c)' = Right(c)
  <2>1. item'[c].disk = item[c].disk /\ item'[c].recs = item[c].recs /\ item'[c].length = item[c].length
    BY <1>4
  <2>2. QED
    BY <1>3, <2>1, SameBook
<1>7. ShelfInv'
  <2>1. \A c \in Books : item'[c].disk = item[c].disk /\ item'[c].recs = item[c].recs
    BY <1>4
  <2>2. \A v \in DOMAIN revisions : revisions[v].book \in Books
    BY RecordsAreOfBooks
  <2>3. QED
    BY <1>1, <1>2, <2>1, <2>2 DEF Quiet, ShelfInv
<1>8. StageInv'
  BY <1>1, <1>2, <1>3, <1>5 DEF Quiet, StageInv
<1>9. BegunInv'
  <2>1. \A c \in task'.targets : AsRead(c)' /\ ~NeedsFileChanges(c, task.seen[c], task.access)'
    BY <1>1, <1>2, <1>3, <1>6, NeedsSame, TaskParts, TargetsAre
  <2>2. item'[b].disk = Live(task'.seen[b]) /\ item'[b].recs \subseteq item'[b].disk
    BY <1>3, <1>4, <1>5 DEF Whole
  <2>3. QED
    BY <1>3, <1>4, <2>1, <2>2 DEF BegunInv, Sorted
<1>10. ScanInv'
  <2>1. ASSUME NEW c \in task'.wait PROVE Whole(c)' /\ (item'[c].changed \/ Right(c)')
    <3>1. CASE c = b
      BY <1>4, <1>5, <1>6, <3>1
    <3>2. CASE c # b
      BY <1>3, <1>4, <1>6, <2>1, <3>2, TaskParts DEF Quiet, ScanInv
    <3>3. QED
      BY <3>1, <3>2
  <2>2. \A c \in task'.group : Right(c)'
    BY <1>3, <1>6, TaskParts DEF Quiet, ScanInv
  <2>3. QED
    BY <1>3, <2>1, <2>2 DEF ScanInv
<1>11. QED
  BY <1>2, <1>7, <1>8, <1>9, <1>10 DEF Quiet

LEMMA QuietRescanItem ==
  ASSUME TypeOK, Quiet, NEW b \in Books, RescanItem(b)
  PROVE  Quiet'
<1>1. task.phase = "rescanning" /\ task.cur = b
  BY DEF RescanItem
<1>2. /\ item' = [item EXCEPT ![b] = Rescanned(item[b])]
      /\ reach' = reach /\ revisions' = revisions
      /\ left' = left /\ scanning' = scanning /\ outcome' = outcome
  BY DEF RescanItem
<1>3. /\ task'.phase = "finishing" /\ task'.cur = b /\ task'.targets = task.targets
      /\ task'.seen = task.seen /\ task'.method = task.method
      /\ task'.access = task.access /\ task'.stop = task.stop
      /\ task'.group = task.group /\ task'.wait = task.wait
  BY <1>1 DEF RescanItem, TypeOK, Task
<1>4. item'[b] = Rescanned(item[b]) /\ \A c \in Books : c # b => item'[c] = item[c]
  BY <1>2 DEF TypeOK
<1>5. /\ b \in Books \ (task.targets \cup task.wait \cup task.group)
      /\ item[b].disk = Live(task.seen[b]) /\ item[b].recs \subseteq item[b].disk
      /\ \/ Right(b) \/ item[b].changed
         \/ Cardinality(item[b].disk) # Cardinality(item[b].recs)
  BY <1>1 DEF Quiet, StageInv, BegunInv, Sorted
<1>6. Right(b)' /\ item'[b].disk = item[b].disk
  BY <1>3, <1>4, <1>5, QuietRescan
<1>7. ASSUME NEW c \in Books, c # b
      PROVE  AsRead(c)' = AsRead(c) /\ Whole(c)' = Whole(c) /\ Right(c)' = Right(c)
  BY <1>3, <1>4, <1>7, SameBook
<1>8. ShelfInv'
  <2>1. \A c \in Books : item'[c].disk = item[c].disk /\ (c # b => item'[c].recs = item[c].recs)
    BY <1>4, <1>6
  <2>2. \A v \in DOMAIN revisions : revisions[v].book \in Books
    BY RecordsAreOfBooks
  <2>3. item'[b].disk \subseteq item'[b].recs
    BY <1>6 DEF Right, Whole
  <2>4. QED
    BY <1>1, <1>2, <2>1, <2>2, <2>3 DEF Quiet, ShelfInv
<1>9. StageInv'
  BY <1>1, <1>2, <1>3, <1>5 DEF Quiet, StageInv
<1>10. BegunInv'
  <2>1. \A c \in task'.targets : AsRead(c)' /\ ~NeedsFileChanges(c, task.seen[c], task.access)'
    BY <1>1, <1>2, <1>3, <1>5, <1>7, NeedsSame, TaskParts, TargetsAre
  <2>2. QED
    BY <1>3, <1>6, <2>1 DEF BegunInv, Sorted
<1>11. ScanInv'
  <2>1. \A c \in task.wait : Whole(c)' /\ (item'[c].changed \/ Right(c)')
    BY <1>4, <1>5, <1>7, TaskParts DEF Quiet, ScanInv
  <2>2. \A c \in task.group : Right(c)'
    BY <1>5, <1>7, TaskParts DEF Quiet, ScanInv
  <2>3. QED
    BY <1>3, <2>1, <2>2 DEF ScanInv
<1>12. QED
  BY <1>2, <1>8, <1>9, <1>10, <1>11 DEF Quiet

LEMMA QuietScanBook ==
  ASSUME TypeOK, Quiet, NEW b \in Books, ScanBook(b)
  PROVE  Quiet'
<1>1. /\ b \in left /\ left' = left \ {b}
      /\ task' = task /\ reach' = reach /\ revisions' = revisions
      /\ scanning' = scanning /\ outcome' = outcome
      /\ item' = [item EXCEPT ![b] = IF item[b].changed THEN Rescanned(item[b]) ELSE item[b]]
  BY DEF ScanBook
<1>2. \A c \in Books : item'[c] = IF c = b /\ item[b].changed THEN Rescanned(item[b]) ELSE item[c]
  BY <1>1 DEF TypeOK
<1>3. ASSUME NEW c \in Books
      PROVE  /\ item'[c].disk = item[c].disk
             /\ item[c].disk \subseteq item[c].recs => item'[c].disk \subseteq item'[c].recs
             /\ AsRead(c) => AsRead(c)'
             /\ Whole(c) => Whole(c)'
             /\ Right(c) => Right(c)'
             /\ item'[c] # item[c] => c = b
             /\ item[c].disk = Live(task.seen[c]) /\ item[c].recs \subseteq item[c].disk =>
                  /\ item'[c].recs \subseteq item'[c].disk
                  /\ c = b /\ item[c].changed => Right(c)'
                  /\ item'[c] = item[c] \/ Right(c)'
  <2>1. CASE c = b /\ item[b].changed
    <3>1. item'[c] = Rescanned(item[c])
      BY <1>2, <2>1
    <3>2. item[c] \in Item
      BY DEF TypeOK
    <3>3. item[c].recs \subseteq item'[c].recs
      BY <3>1, <3>2, RescannedIsItem
    <3>4. QED
      BY <1>1, <2>1, <3>1, <3>3, QuietRescan
  <2>2. CASE ~(c = b /\ item[b].changed)
    <3>1. item'[c] = item[c]
      BY <1>2, <2>2
    <3>2. AsRead(c)' = AsRead(c) /\ Whole(c)' = Whole(c) /\ Right(c)' = Right(c)
      BY <1>1, <3>1, SameBook
    <3>3. QED
      BY <2>2, <3>1, <3>2
  <2>3. QED
    BY <2>1, <2>2
<1>4. ShelfInv'
  <2>1. \A v \in DOMAIN revisions : revisions[v].book \in Books
    BY RecordsAreOfBooks
  <2>2. QED
    BY <1>1, <1>3, <2>1 DEF Quiet, ShelfInv
<1>5. StageInv'
  BY <1>1 DEF Quiet, StageInv
<1>6. BegunInv'
  <2>1. \A c \in task.targets :
          AsRead(c)' /\ (Sorted => ~NeedsFileChanges(c, task.seen[c], task.access)')
    BY <1>1, <1>3, NeedsSame, TaskParts DEF Quiet, BegunInv, Sorted
  <2>a. PICK c : c = task.cur
    OBVIOUS
  <2>2. CASE task.phase = "dropping"
    <3>1. c \in Books /\ AsRead(c) /\ task.method[c] = ChooseMethod(c, task.seen[c], task.access)
      BY <2>a, <2>2 DEF Quiet, StageInv, BegunInv, Sorted
    <3>2. AsRead(c)'
      BY <2>a, <1>3, <3>1
    <3>3. ChooseMethod(c, task.seen[c], task.access)' = ChooseMethod(c, task.seen[c], task.access)
      BY <2>a, <1>1 DEF ChooseMethod, CanTouch
    <3>4. QED
      BY <2>a, <1>1, <2>1, <2>2, <3>1, <3>2, <3>3 DEF BegunInv, Sorted
  <2>3. CASE task.phase = "touching"
    <3>1. c \in Books /\ Whole(c) /\ reach
      BY <2>a, <2>3 DEF Quiet, StageInv, BegunInv, Sorted
    <3>2. Whole(c)'
      BY <2>a, <1>3, <3>1
    <3>3. QED
      BY <2>a, <1>1, <2>1, <2>3, <3>1, <3>2 DEF BegunInv, Sorted
  <2>4. CASE task.phase = "rescanning"
    <3>1. /\ c \in Books
          /\ item[c].disk = Live(task.seen[c]) /\ item[c].recs \subseteq item[c].disk
          /\ \/ Right(c) \/ item[c].changed
             \/ Cardinality(item[c].disk) # Cardinality(item[c].recs)
      BY <2>a, <2>4 DEF Quiet, StageInv, BegunInv, Sorted
    <3>2. /\ item'[c].disk = item[c].disk /\ item'[c].recs \subseteq item'[c].disk
          /\ item'[c] = item[c] \/ Right(c)'
          /\ Right(c) => Right(c)'
      BY <2>a, <1>3, <3>1
    <3>3. \/ Right(c)' \/ item'[c].changed
          \/ Cardinality(item'[c].disk) # Cardinality(item'[c].recs)
      BY <3>1, <3>2
    <3>4. QED
      BY <2>a, <1>1, <2>1, <2>4, <3>1, <3>2, <3>3 DEF BegunInv, Sorted
  <2>5. CASE task.phase \in {"finishing", "trimming", "closing"}
    <3>1. Right(c) /\ c \in Books
      BY <2>a, <2>5 DEF Quiet, BegunInv, Sorted, StageInv
    <3>2. QED
      BY <2>a, <1>1, <1>3, <2>1, <2>5, <3>1, TaskParts DEF BegunInv, Sorted
  <2>6. CASE task.phase \notin {"dropping", "touching", "rescanning", "finishing", "trimming", "closing"}
    BY <2>a, <1>1, <2>1, <2>6 DEF BegunInv, Sorted
  <2>7. QED
    BY <2>a, <2>2, <2>3, <2>4, <2>5, <2>6
<1>7. ScanInv'
  <2>1. ASSUME NEW c \in task.wait
        PROVE  /\ Whole(c)' /\ (item'[c].changed \/ Right(c)')
               /\ c = b => Right(c)'
    <3>1. c \in Books /\ Whole(c) /\ (item[c].changed \/ Right(c))
      BY TaskParts DEF Quiet, ScanInv
    <3>2. item[c].disk = Live(task.seen[c]) /\ item[c].recs \subseteq item[c].disk
      BY <3>1 DEF Whole
    <3>3. QED
      BY <1>3, <3>1, <3>2
  <2>2. \A c \in task.group : Right(c)'
    BY <1>3, TaskParts DEF Quiet, ScanInv
  <2>3. OfLib' = OfLib /\ OfLib \subseteq task.wait /\ task.wait \subseteq Books
    BY <1>1, TaskParts DEF OfLib
  <2>4. \A c \in OfLib : Right(c) => Right(c)'
    BY <1>3, <2>3
  <2>5. QED
    BY <1>1, <2>1, <2>2, <2>3, <2>4 DEF Quiet, ScanInv
<1>8. QED
  BY <1>1, <1>4, <1>5, <1>6, <1>7 DEF Quiet

\* What a step that leaves the server's books and the undo records alone keeps.
LEMMA QuietServer ==
  ASSUME Quiet, item' = item, revisions' = revisions, task.phase # "rescanning"
  PROVE  ShelfInv'
BY DEF Quiet, ShelfInv

\* What a step that leaves the server and what was read and chosen alone keeps.
LEMMA QuietTargets ==
  ASSUME TypeOK, Quiet, item' = item, reach' = reach, task'.seen = task.seen,
         task'.method = task.method, task'.access = task.access
  PROVE  /\ \A c \in Books : Whole(c)' = Whole(c) /\ Right(c)' = Right(c)
         /\ \A c \in task.targets :
              AsRead(c)' /\ (Sorted => ~NeedsFileChanges(c, task.seen[c], task.access)')
<1>1. ASSUME NEW c \in Books
      PROVE  AsRead(c)' = AsRead(c) /\ Whole(c)' = Whole(c) /\ Right(c)' = Right(c)
  BY SameBook
<1>2. \A c \in task.targets :
        AsRead(c)' /\ (Sorted => ~NeedsFileChanges(c, task.seen[c], task.access)')
  BY <1>1, NeedsSame, TaskParts DEF Quiet, BegunInv, Sorted
<1>3. QED
  BY <1>1, <1>2

LEMMA QuietClosed ==
  ASSUME TypeOK, Quiet, NEW b \in Books, Closed(b), Right(b),
         task.phase \notin {"idle", "reading", "rescanning"},
         UNCHANGED <<item, left, scanning, reach>>
  PROVE  Quiet'
<1>1. /\ task'.phase = "items" /\ task'.targets = task.targets \ {b}
      /\ task'.seen = task.seen /\ task'.method = task.method
      /\ task'.access = task.access /\ task'.stop = task.stop
      /\ task'.wait = task.wait /\ task'.group = task.group \ {b}
  <2>1. task' = [Over(task, b) EXCEPT !.group = Over(task, b).group \ {b}]
    BY DEF Closed
  <2>2. QED
    BY <2>1 DEF Over, TypeOK, Task
<1>2. outcome'[b] # "failed" /\ \A c \in Books : c # b => outcome'[c] = outcome[c]
  <2>1. /\ Dead(item[b]) = {} /\ Live(task.seen[b]) \subseteq item[b].recs
        /\ ~Partial(b) => item[b].length = Total(Live(task.seen[b]))
    BY DEF Right, Whole, Dead
  <2>2. Verified(item[b], task.seen[b], ~Partial(b))
    BY <2>1 DEF Verified
  <2>3. QED
    BY <2>2 DEF Closed, TypeOK
<1>3. \A v \in DOMAIN revisions' : /\ v \in DOMAIN revisions
                                   /\ revisions'[v].book = revisions[v].book
                                   /\ revisions'[v].before = revisions[v].before
  <2> DEFINE w == task.revision[b]
  <2>1. revisions' = [revisions EXCEPT ![w] =
          [revisions[w] EXCEPT !.recs = item[b].recs, !.chapters = <<item[b].chapters>>]]
    BY DEF Closed
  <2>2. \A v \in DOMAIN revisions : revisions[v] \in Revision
    BY DEF TypeOK
  <2> HIDE DEF w
  <2>3. QED
    BY <2>1, <2>2 DEF Revision
<1>4. ShelfInv'
  BY <1>3 DEF Quiet, ShelfInv
<1>5. StageInv'
  BY <1>1 DEF Quiet, StageInv
<1>6. BegunInv'
  BY <1>1, QuietTargets DEF BegunInv, Sorted
<1>7. ScanInv'
  BY <1>1, QuietTargets, TaskParts DEF Quiet, ScanInv
<1>8. \A c \in Books : outcome'[c] # "failed"
  BY <1>2 DEF Quiet
<1>9. QED
  BY <1>4, <1>5, <1>6, <1>7, <1>8 DEF Quiet

LEMMA QuietFinish ==
  ASSUME TypeOK, Quiet, NEW b \in Books, Finish(b) \/ Close(b)
  PROVE  Quiet'
<1>1. Closed(b) /\ UNCHANGED <<item, left, scanning, reach>>
  BY DEF Finish, Close
<1>2. Right(b) /\ task.phase \notin {"idle", "reading", "rescanning"}
  BY DEF Finish, Close, AtFinish, Quiet, BegunInv, Sorted, ScanInv
<1>3. QED
  BY <1>1, <1>2, QuietClosed

LEMMA QuietFinishLong ==
  ASSUME TypeOK, Quiet, NEW b \in Books, FinishLong(b)
  PROVE  Quiet'
<1>1. /\ Right(b) /\ task.phase \notin {"idle", "reading", "rescanning"}
      /\ UNCHANGED <<item, left, scanning, reach, revisions, outcome>>
  BY DEF FinishLong, AtFinish, Quiet, BegunInv, Sorted, ScanInv
<1>2. /\ task'.phase = "trimming" /\ task'.cur = b /\ task'.targets = task.targets
      /\ task'.seen = task.seen /\ task'.method = task.method
      /\ task'.access = task.access /\ task'.stop = task.stop
      /\ task'.wait = task.wait /\ task'.group = task.group
  BY DEF FinishLong, TypeOK, Task
<1>3. StageInv'
  BY <1>1, <1>2 DEF Quiet, StageInv
<1>4. BegunInv'
  BY <1>1, <1>2, QuietTargets DEF BegunInv, Sorted
<1>5. ScanInv'
  BY <1>1, <1>2, QuietTargets, TaskParts DEF Quiet, ScanInv
<1>6. QED
  BY <1>1, <1>3, <1>4, <1>5, QuietServer DEF Quiet

LEMMA QuietTrim ==
  ASSUME TypeOK, Quiet, NEW b \in Books, Trim(b)
  PROVE  Quiet'
<1>1. /\ Right(b) /\ task.phase = "trimming" /\ task.cur = b
      /\ UNCHANGED <<left, scanning, reach, revisions, outcome>>
      /\ item' = [item EXCEPT ![b] = [item[b] EXCEPT !.chapters = task.cut]]
  BY DEF Trim, Quiet, BegunInv, Sorted
<1>2. /\ task'.phase = "closing" /\ task'.cur = b /\ task'.targets = task.targets
      /\ task'.seen = task.seen /\ task'.method = task.method
      /\ task'.access = task.access /\ task'.stop = task.stop
      /\ task'.wait = task.wait /\ task'.group = task.group
  BY <1>1 DEF Trim, TypeOK, Task
<1>3. \A c \in Books : /\ item'[c].disk = item[c].disk /\ item'[c].recs = item[c].recs
                       /\ item'[c].length = item[c].length /\ item'[c].changed = item[c].changed
  BY <1>1 DEF TypeOK, Item
<1>4. ASSUME NEW c \in Books
      PROVE  AsRead(c)' = AsRead(c) /\ Whole(c)' = Whole(c) /\ Right(c)' = Right(c)
  BY <1>2, <1>3, SameBook
<1>5. ShelfInv'
  BY <1>1, <1>3, RecordsAreOfBooks DEF Quiet, ShelfInv
<1>6. StageInv'
  BY <1>1, <1>2 DEF Quiet, StageInv
<1>7. BegunInv'
  <2>1. \A c \in task.targets : AsRead(c)' /\ ~NeedsFileChanges(c, task.seen[c], task.access)'
    BY <1>1, <1>2, <1>4, NeedsSame, TaskParts DEF Quiet, BegunInv, Sorted
  <2>2. QED
    BY <1>1, <1>2, <1>4, <2>1 DEF BegunInv, Sorted
<1>8. ScanInv'
  BY <1>2, <1>3, <1>4, TaskParts DEF Quiet, ScanInv
<1>9. QED
  BY <1>1, <1>5, <1>6, <1>7, <1>8 DEF Quiet

\* The steps between a touch and the scan that sees it.
LEMMA QuietSettle ==
  ASSUME TypeOK, LibInv, Quiet,
         (\E l \in Libraries : Settle(l)) \/ Settled \/ RequestScan \/ ScanDone
  PROVE  Quiet'
<1>1. /\ UNCHANGED <<item, reach, revisions, outcome>>
      /\ task.phase \in {"items", "settling", "requesting", "awaiting"}
  BY DEF Settle, LoopOver, AtItems, Settled, RequestScan, ScanDone
<1>2. /\ task'.phase \in {"items", "settling", "requesting", "awaiting"}
      /\ task'.targets = task.targets
      /\ task'.seen = task.seen /\ task'.method = task.method
      /\ task'.access = task.access /\ task'.stop = task.stop
  BY DEF Settle, Settled, RequestScan, ScanDone, TypeOK, Task
<1>3. OfLib \subseteq task.wait /\ task.wait \subseteq Books /\ task.group \subseteq Books
  BY TaskParts DEF OfLib
<1>4. BegunInv'
  BY <1>1, <1>2, QuietTargets DEF BegunInv, Sorted
<1>5. /\ \A c \in task.wait : Whole(c)' /\ (item'[c].changed \/ Right(c)')
      /\ \A c \in task.group : Right(c)'
      /\ \A c \in Books : Right(c)' = Right(c)
  BY <1>1, <1>2, <1>3, QuietTargets DEF Quiet, ScanInv
<1>6. CASE \E l \in Libraries : Settle(l)
  <2>1. task'.phase = "settling" /\ task'.wait = task.wait /\ task'.group = task.group
    BY <1>6 DEF Settle, TypeOK, Task
  <2>2. StageInv'
    BY <1>1, <1>2, <2>1 DEF Quiet, StageInv
  <2>3. ScanInv'
    BY <1>5, <2>1 DEF ScanInv
  <2>4. QED
    BY <1>1, <1>4, <2>2, <2>3, QuietServer DEF Quiet
<1>7. CASE Settled
  <2>1. /\ task'.phase = "requesting" /\ task'.wait = task.wait /\ task'.group = task.group
        /\ task'.lib = task.lib /\ task.lib \notin scanning /\ scanning' = scanning
    BY <1>7 DEF Settled, TypeOK, Task
  <2>2. StageInv'
    BY <1>1, <1>2, <2>1 DEF Quiet, StageInv
  <2>3. ScanInv'
    BY <1>5, <2>1 DEF ScanInv
  <2>4. QED
    BY <1>1, <1>4, <2>2, <2>3, QuietServer DEF Quiet
<1>8. CASE RequestScan
  <2>1. /\ task.phase = "requesting"
        /\ task'.phase = "awaiting" /\ task'.wait = task.wait /\ task'.group = task.group
        /\ task'.lib = task.lib /\ ScanStarts(task.lib)
    BY <1>8 DEF RequestScan, TypeOK, Task
  <2>2. StageInv'
    BY <1>1, <1>2, <2>1 DEF Quiet, StageInv
  <2>3. OfLib' = OfLib /\ task'.lib \in scanning'
    BY <2>1 DEF OfLib, ScanStarts
  <2>4. ASSUME NEW c \in OfLib PROVE c \in left' \/ Right(c)'
    <3>1. CASE task.lib \in scanning
      BY <1>3, <1>5, <2>1, <3>1 DEF Quiet, ScanInv, ScanStarts
    <3>2. CASE task.lib \notin scanning
      <4>1. c \in Books /\ LibraryOf[c] = task.lib
        BY <1>3 DEF OfLib
      <4>2. QED
        BY <2>1, <3>2, <4>1 DEF ScanStarts
    <3>3. QED
      BY <3>1, <3>2
  <2>5. ScanInv'
    BY <1>5, <2>1, <2>3, <2>4 DEF ScanInv
  <2>6. QED
    BY <1>1, <1>4, <2>2, <2>5, QuietServer DEF Quiet
<1>9. CASE ScanDone
  <2>1. /\ task.phase = "awaiting" /\ task.lib \notin scanning
        /\ task'.phase = "items" /\ task'.wait = task.wait \ OfLib /\ task'.group = OfLib
    BY <1>9 DEF ScanDone, TypeOK, Task
  <2>2. StageInv'
    BY <1>1, <1>2, <1>3, <2>1 DEF Quiet, StageInv
  <2>3. \A c \in OfLib : Right(c)'
    BY <1>3, <1>5, <2>1 DEF Quiet, ScanInv
  <2>4. ScanInv'
    BY <1>5, <2>1, <2>3 DEF ScanInv
  <2>5. QED
    BY <1>1, <1>4, <2>2, <2>4, QuietServer DEF Quiet
<1>10. QED
  BY <1>6, <1>7, <1>8, <1>9

\* Scans that others ask for, and those that come to their end.
LEMMA QuietOthers ==
  ASSUME TypeOK, Quiet, NEW l \in Libraries, ScanEnds(l) \/ OthersScan(l)
  PROVE  Quiet'
<1>1. UNCHANGED <<item, reach, revisions, outcome, task>>
  BY DEF ScanEnds, OthersScan
<1>2. OfLib' = OfLib /\ OfLib \subseteq Books /\ OfLib \subseteq task.wait
  BY <1>1, TaskParts DEF OfLib
<1>3. \A c \in Books : AsRead(c)' = AsRead(c) /\ Whole(c)' = Whole(c) /\ Right(c)' = Right(c)
  BY <1>1, SameBook
<1>4. ShelfInv' /\ StageInv'
  BY <1>1 DEF Quiet, ShelfInv, StageInv
<1>5. BegunInv'
  <2>1. \A c \in task.targets :
          AsRead(c)' /\ (Sorted => ~NeedsFileChanges(c, task.seen[c], task.access)')
    BY <1>1, QuietTargets
  <2>2. PICK c : c = task.cur
    OBVIOUS
  <2>3. task.phase \in {"dropping", "touching", "rescanning", "finishing", "trimming", "closing"} => c \in Books
    BY <2>2 DEF Quiet, StageInv
  <2>4. ChooseMethod(c, task.seen[c], task.access)' = ChooseMethod(c, task.seen[c], task.access)
    BY <1>1 DEF ChooseMethod, CanTouch
  <2>5. QED
    BY <1>1, <1>3, <2>1, <2>2, <2>3, <2>4 DEF Quiet, BegunInv, Sorted
<1>6. ASSUME task.phase \in {"requesting", "awaiting"}, task.lib \in scanning'
      PROVE  \A c \in OfLib : c \in left' \/ Right(c)
  <2>1. CASE ScanEnds(l)
    BY <1>6, <2>1 DEF ScanEnds, Quiet, ScanInv
  <2>2. CASE OthersScan(l)
    <3>1. l \notin scanning /\ scanning' = scanning \cup {l}
          /\ left' = left \cup {b \in Books : LibraryOf[b] = l}
      BY <2>2 DEF OthersScan, ScanStarts
    <3>2. CASE task.lib = l
      BY <1>2, <3>1, <3>2 DEF OfLib
    <3>3. CASE task.lib # l
      BY <1>6, <3>1, <3>3 DEF Quiet, ScanInv
    <3>4. QED
      BY <3>2, <3>3
  <2>3. QED
    BY <2>1, <2>2
<1>7. ASSUME task.phase = "awaiting", task.lib \notin scanning'
      PROVE  \A c \in OfLib : Right(c)
  <2>1. CASE task.lib \notin scanning
    BY <1>7, <2>1 DEF Quiet, ScanInv
  <2>2. CASE task.lib \in scanning
    <3>1. task.lib = l /\ \A b \in left : LibraryOf[b] # l
      BY <1>7, <2>2 DEF ScanEnds, OthersScan, ScanStarts
    <3>2. \A c \in OfLib : LibraryOf[c] = l /\ (c \in left \/ Right(c))
      BY <1>7, <2>2, <3>1 DEF Quiet, ScanInv, OfLib
    <3>3. QED
      BY <3>1, <3>2
  <2>3. QED
    BY <2>1, <2>2
<1>8. ScanInv'
  <2>1. /\ \A c \in task.wait : Whole(c)' /\ (item'[c].changed \/ Right(c)')
        /\ \A c \in task.group : Right(c)'
    BY <1>1, <1>3, TaskParts DEF Quiet, ScanInv
  <2>2. QED
    BY <1>1, <1>2, <1>3, <1>6, <1>7, <2>1 DEF ScanInv
<1>9. QED
  BY <1>1, <1>4, <1>5, <1>8 DEF Quiet

\* A run begins, or ends with or without a report.
LEMMA QuietRun ==
  ASSUME TypeOK, Quiet, EndRun \/ \E kind \in {"preview", "repair", "apply"} : StartRun(kind)
  PROVE  Quiet'
<1>1. /\ UNCHANGED <<item, reach, revisions>> /\ task.phase # "rescanning"
      /\ task'.targets = {} /\ task'.wait = {} /\ task'.group = {} /\ ~task'.stop
      /\ task'.phase = "idle" \/ (task'.phase = "reading" /\ task'.access = reach)
  <2>1. CASE EndRun
    <3>1. task' = Died(task) /\ UNCHANGED <<item, reach, revisions>> /\ task.phase # "rescanning"
      BY <2>1 DEF EndRun, LoopOver, AtItems
    <3>2. /\ task'.targets = {} /\ task'.wait = {} /\ task'.group = {} /\ task'.phase = "idle"
          /\ task'.stop = task.stop
      BY <3>1 DEF Died, TypeOK, Task
    <3>3. QED
      BY <3>1, <3>2 DEF Quiet, StageInv
  <2>2. CASE \E kind \in {"preview", "repair", "apply"} : StartRun(kind)
    BY <2>2 DEF StartRun, Fresh
  <2>3. QED
    BY <2>1, <2>2
<1>2. StageInv'
  BY <1>1 DEF StageInv
<1>3. BegunInv' /\ ScanInv'
  BY <1>1 DEF BegunInv, Sorted, ScanInv
<1>4. \A b \in Books : outcome'[b] # "failed"
  <2>1. CASE EndRun
    BY <2>1 DEF EndRun, Quiet
  <2>2. CASE \E kind \in {"preview", "repair", "apply"} : StartRun(kind)
    BY <2>2 DEF StartRun
  <2>3. QED
    BY <2>1, <2>2
<1>5. QED
  BY <1>1, <1>2, <1>3, <1>4, QuietServer DEF Quiet

LEMMA QuietRevert ==
  ASSUME TypeOK, Quiet, NEW v \in DOMAIN revisions, NEW force, Revert(v, force)
  PROVE  Quiet'
<1> DEFINE r == revisions[v]
           new == [item[r.book] EXCEPT !.recs = r.before.recs, !.off = r.before.off,
                                       !.chapters = r.before.chapters]
<1>1. /\ task.phase = "idle" /\ UNCHANGED <<task, reach, outcome>>
      /\ item' = [item EXCEPT ![r.book] = new]
      /\ revisions' = [revisions EXCEPT ![v] = [revisions[v] EXCEPT !.reverted = TRUE]]
  BY DEF Revert
<1>2. r.book \in Books /\ item[r.book] \in Item
  BY RecordsAreOfBooks DEF TypeOK
<1>3. new.disk = item[r.book].disk /\ new.recs = r.before.recs
  BY <1>2 DEF Item
<1> HIDE DEF new
<1>4. \A b \in Books : /\ item'[b].disk = item[b].disk
                       /\ item'[b].recs = item[b].recs \/ (b = r.book /\ item'[b].recs = r.before.recs)
  BY <1>1, <1>2, <1>3 DEF TypeOK
<1>5. \A w \in DOMAIN revisions' : /\ w \in DOMAIN revisions
                                   /\ revisions'[w].book = revisions[w].book
                                   /\ revisions'[w].before = revisions[w].before
  <2>1. \A w \in DOMAIN revisions : revisions[w] \in Revision
    BY DEF TypeOK
  <2>2. QED
    BY <1>1, <2>1 DEF Revision
<1>6. ShelfInv'
  <2>1. \A b \in Books : item'[b].disk \subseteq item'[b].recs
    BY <1>1, <1>4 DEF Quiet, ShelfInv
  <2>2. QED
    BY <1>4, <1>5, <2>1, RecordsAreOfBooks DEF Quiet, ShelfInv
<1>7. StageInv' /\ BegunInv' /\ ScanInv'
  BY <1>1 DEF Quiet, StageInv, BegunInv, Sorted, ScanInv
<1>8. QED
  BY <1>1, <1>6, <1>7 DEF Quiet

LEMMA QuietStutter ==
  ASSUME TypeOK, Quiet, UNCHANGED vars
  PROVE  Quiet'
<1>1. UNCHANGED <<item, left, scanning, reach, plan, revisions, task, outcome>>
  BY DEF vars
<1>2. ShelfInv' /\ StageInv'
  BY <1>1 DEF Quiet, ShelfInv, StageInv
<1>3. BegunInv' /\ ScanInv'
  BY <1>1 DEF Quiet, BegunInv, Sorted, ScanInv, AsRead, Whole, Right, Partial, OfLib, NeedsFileChanges,
              CanTouch, ChooseMethod
<1>4. QED
  BY <1>1, <1>2, <1>3 DEF Quiet

LEMMA QuietInit == Listed /\ Init => QuietInv
<1>1. SUFFICES ASSUME Listed, Init PROVE Quiet
  BY DEF QuietInv
<1>2. /\ task.phase = "idle" /\ task.targets = {} /\ task.wait = {} /\ task.group = {} /\ ~task.stop
  BY <1>1 DEF Init, Fresh
<1>3. ShelfInv
  <2>1. \A b \in Books : item[b].disk \subseteq item[b].recs
    BY <1>1 DEF Init, Listed
  <2>2. DOMAIN revisions = {}
    BY <1>1 DEF Init
  <2>3. QED
    BY <2>1, <2>2 DEF ShelfInv
<1>4. StageInv /\ BegunInv /\ ScanInv
  BY <1>2 DEF StageInv, BegunInv, Sorted, ScanInv
<1>5. QED
  BY <1>1, <1>3, <1>4 DEF Quiet, Init

LEMMA QuietStep ==
  ASSUME MendInv, QuietInv, [Next]_vars
  PROVE  QuietInv'
<1>1. SUFFICES ASSUME upsets' = 0, ~late' PROVE Quiet'
  BY DEF QuietInv
<1>2. TypeOK /\ LibInv
  BY DEF MendInv
<1>3. ~Upset
  BY <1>1, <1>2 DEF Upset, TypeOK
<1>4. CASE TaskStep
  <2>a. ~ScanTooLong
    BY <1>1 DEF ScanTooLong
  <2>b. ASSUME NEW b \in Books, \/ Read(b) \/ Begin(b) \/ Drop(b) \/ Touch(b) \/ RescanItem(b)
               \/ TouchFails(b) \/ Finish(b) \/ FinishLong(b) \/ Trim(b) \/ Close(b)
        PROVE  UNCHANGED <<upsets, late>>
    BY <2>b DEF Read, Begin, Drop, Touch, RescanItem, TouchFails, Finish, FinishLong, Trim, Close
  <2>c. ASSUME NEW l, Settle(l) PROVE UNCHANGED <<upsets, late>>
    BY <2>c DEF Settle
  <2>d. ASSUME CountProgress \/ Settled \/ RequestScan \/ ScanDone \/ ReadStopped \/ EndRun
        PROVE  UNCHANGED <<upsets, late>>
    BY <2>d DEF CountProgress, Settled, RequestScan, ScanDone, ReadStopped, Dies, EndRun
  <2>1. UNCHANGED <<upsets, late>>
    BY <1>4, <2>a, <2>b, <2>c, <2>d DEF TaskStep
  <2>2. Quiet
    BY <1>1, <2>1 DEF QuietInv
  <2>4. ~ReadStopped
    BY <2>2 DEF ReadStopped, Quiet, StageInv
  <2>5. ASSUME NEW b \in Books PROVE ~TouchFails(b)
    BY <2>2 DEF TouchFails, Quiet, BegunInv, Sorted
  <2>6. QED
    BY <1>2, <1>4, <2>2, <2>a, <2>4, <2>5, QuietRead, QuietBegin, QuietDrops, QuietTouch, QuietRescanItem,
       QuietFinish, QuietFinishLong, QuietTrim, QuietProgress, QuietSettle, QuietRun DEF TaskStep
<1>5. CASE \/ \E kind \in {"preview", "repair", "apply"} : StartRun(kind)
           \/ \E b \in Books : ScanBook(b)
           \/ \E l \in Libraries : ScanEnds(l) \/ OthersScan(l)
           \/ \E v \in DOMAIN revisions, force \in BOOLEAN : Revert(v, force)
           \/ UNCHANGED vars
  <2>1. upsets' = upsets /\ late' = late
    BY <1>5 DEF StartRun, ScanBook, ScanEnds, OthersScan, Revert, vars
  <2>2. Quiet
    BY <1>1, <2>1 DEF QuietInv
  <2>3. QED
    BY <1>2, <1>5, <2>2, QuietRun, QuietScanBook, QuietOthers, QuietRevert, QuietStutter
<1>6. ~ \/ \E b \in Books : ReadFails(b) \/ StepFails(b) \/ RemoveDead(b)
        \/ \E b \in Books, i, j \in Ino : Renumber(b, i, j)
        \/ ScanRefused \/ StopRun \/ Crash \/ FlipReach
  BY <1>3 DEF ReadFails, StepFails, RemoveDead, Renumber, ScanRefused, StopRun, Crash, FlipReach
<1>7. QED
  BY <1>4, <1>5, <1>6 DEF Next

\* Where the server has a record of every file, a repair takes: while nothing
\* fails, nobody edits, stops or gives up, no repair ends in failure, however the
\* library's scans fall: QuietRepairsTake.
THEOREM QuietRepairsTakeHolds == Listed /\ Spec => []QuietRepairsTake
<1>1. MendInv /\ QuietInv /\ [Next]_vars => QuietInv'
  BY QuietStep
<1>2. Listed /\ Spec => []QuietInv
  BY QuietInit, <1>1, MendInvariance, PTL DEF Spec
<1>3. QuietInv => QuietRepairsTake
  BY DEF QuietInv, Quiet, QuietRepairsTake
<1>4. QED
  BY <1>2, <1>3, PTL

--------------------------------------------------------------------------------
(***************************************************************************)
(* Repair: what is reported repaired is whole.                             *)
(*                                                                         *)
(* The check at the end of a repair looks at records and length only.      *)
(* That the exclusions stand and the chapters end within the book is due   *)
(* to what happened before it, and to nothing having happened since: a     *)
(* book that is about to be closed has been scanned after its touch, so    *)
(* that no scan of others changes it any more.                             *)
(***************************************************************************)
\* The last steps of a book's repair.
Ending == {"finishing", "trimming", "closing"}

\* Where a book is in its repair.
AwaitsDrop(b) == \/ b \in task.targets
                 \/ task.phase = "dropping" /\ task.cur = b
HasDropped(b) == \/ b \in task.wait \cup task.group
                 \/ task.phase \in ({"touching", "rescanning"} \cup Ending) /\ task.cur = b
Visited(b) == \/ b \in task.group
              \/ task.phase \in Ending /\ task.cur = b

\* No book is in two stages of a repair at once, stopped runs included.
OrderInv ==
  /\ task.phase = "idle" => task.targets = {}
  /\ task.phase \in {"idle", "reading"} => task.wait = {} /\ task.group = {}
  /\ task.phase = "reading" => task.todo \cap task.targets = {} /\ task.cur = NoBook
  /\ task.targets \cap (task.wait \cup task.group) = {}
  /\ task.phase \in {"dropping", "touching", "rescanning"} =>
       task.cur \in Books \ (task.targets \cup task.wait \cup task.group)
  /\ task.phase \in Ending => task.cur \in Books \ task.targets

\* Only a bare book is repaired by its records alone, and it has one file.
ShapeInv ==
  /\ \A b \in Books : Partial(b) => b \in Bare
  /\ \A b \in Bare : \E i \in Ino : item[b].disk = {i}

\* A book that waits for a scan is visited by one that began after its touch.
VisitInv ==
  /\ \A b \in left : LibraryOf[b] \in scanning
  /\ task.phase = "requesting" /\ task.lib \in scanning =>
       \A b \in OfLib : b \in left \/ ~item[b].changed
  /\ task.phase = "awaiting" => \A b \in OfLib : b \in left \/ ~item[b].changed

\* What is so of a book, wherever it is.
Fit(b) == Playable(task.seen[b]) # {}
AllThere(b) == Live(task.seen[b]) \subseteq item[b].recs
Excluded(b) == task.method[b] # "clear" =>
                 Live(task.seen[b]) \cap task.seen[b].off \subseteq item[b].off
Calm(b) == Partial(b) \/ ~item[b].changed
Limit(b) == IF Partial(b) THEN Total(Live(task.seen[b])) ELSE item[b].length
Within(b, chapters) == \A k \in DOMAIN chapters : chapters[k] <= Limit(b)

\* What is so of a book at each stage.
PlacesInv ==
  /\ \A b \in Books : /\ AwaitsDrop(b) => Fit(b) /\ AllThere(b)
                      /\ HasDropped(b) => Fit(b) /\ Excluded(b)
                      /\ Visited(b) => Calm(b)
  /\ task.phase = "trimming" => Within(task.cur, task.cut)
  /\ task.phase = "closing" => Within(task.cur, item[task.cur].chapters)

WholeInv == OrderInv /\ ShapeInv /\ VisitInv /\ PlacesInv

LEMMA RescanKeeps ==
  ASSUME NEW it \in Item
  PROVE  LET new == Rescanned(it) IN
         /\ new.disk = it.disk /\ new.off = it.off /\ it.recs \subseteq new.recs /\ ~new.changed
         /\ Cardinality(it.disk) = 1 => new.chapters = it.chapters
<1>1. CASE ~it.changed /\ Cardinality(it.disk) = Cardinality(it.recs)
  BY <1>1 DEF Rescanned
<1>2. CASE ~(~it.changed /\ Cardinality(it.disk) = Cardinality(it.recs))
  <2> DEFINE recs == it.recs \cup it.disk
             chapters == IF Cardinality(it.disk) > 1 THEN <<Total(recs)>> ELSE it.chapters
  <2>1. Rescanned(it) = [it EXCEPT !.recs = recs, !.length = Total(recs), !.changed = FALSE,
                                   !.chapters = chapters]
    BY <1>2 DEF Rescanned
  <2>2. Cardinality(it.disk) = 1 => chapters = it.chapters
    OBVIOUS
  <2> HIDE DEF chapters
  <2>3. QED
    BY <2>1, <2>2 DEF Item
<1>3. QED
  BY <1>1, <1>2

\* A book goes through the stages of its repair in their order.
LEMMA OrderStep ==
  ASSUME TypeOK, OrderInv, [Next]_vars
  PROVE  OrderInv'
<1> USE DEF OrderInv, Ending
<1>0. task \in Task
  BY DEF TypeOK
<1>1. ASSUME NEW b \in Books, Read(b) \/ ReadFails(b) PROVE OrderInv'
  BY <1>1, ReadingOn
<1>e. CASE CountProgress
  <2>1. task.phase = "reading" /\ task'.phase = "items" /\ task'.targets \subseteq task.targets
    BY <1>0, <1>e DEF CountProgress, Task
  <2>2. task'.wait = task.wait /\ task'.group = task.group
    BY <1>0, <1>e DEF CountProgress, Task
  <2>3. QED
    BY <2>1, <2>2
<1>2. ASSUME NEW b \in Books, Begin(b) PROVE OrderInv'
  <2> DEFINE m == ChooseMethod(b, task.seen[b], task.access)
  <2>1. /\ task.phase = "items" /\ task.group = {} /\ b \in task.targets
        /\ \/ task' = Over(task, b)
           \/ task' = [task EXCEPT !.phase = "dropping", !.cur = b, !.targets = @ \ {b},
                                   !.method[b] = m, !.revision[b] = Len(revisions) + 1]
    BY <1>2 DEF Begin, AtItems
  <2> HIDE DEF m
  <2>2. /\ task'.phase = "items" \/ (task'.phase = "dropping" /\ task'.cur = b)
        /\ task'.targets = task.targets \ {b}
        /\ task'.wait = task.wait /\ task'.group = task.group
    BY <1>0, <2>1 DEF Over, Task
  <2>3. QED
    BY <2>1, <2>2
<1>3. ASSUME NEW b \in Books, Drop(b) \/ RescanItem(b) PROVE OrderInv'
  BY <1>0, <1>3 DEF Drop, RescanItem, Task
<1>4. ASSUME NEW b \in Books, Touch(b) PROVE OrderInv'
  BY <1>0, <1>4 DEF Touch, Over, Task
<1>5. ASSUME NEW b \in Books, FinishLong(b) PROVE OrderInv'
  BY <1>0, <1>5 DEF FinishLong, AtFinish, Task
<1>6. ASSUME NEW b \in Books, Trim(b) PROVE OrderInv'
  BY <1>0, <1>6 DEF Trim, Task
<1>7. ASSUME NEW b \in Books, Closed(b), task.phase # "idle" PROVE OrderInv'
  BY <1>0, <1>7 DEF Closed, Over, Task
<1>8. ASSUME task' = Died(task) PROVE OrderInv'
  BY <1>0, <1>8 DEF Died, Task
<1>9. ASSUME NEW b \in Books, Failed(b), task.phase # "idle" PROVE OrderInv'
  <2>1. CASE task.stop
    BY <1>8, <1>9, <2>1 DEF Failed
  <2>2. CASE ~task.stop
    <3>1. task' = [Over(task, b) EXCEPT !.group = Over(task, b).group \ {b}]
      BY <1>9, <2>2 DEF Failed
    <3>2. /\ task'.phase = "items" /\ task'.targets = task.targets \ {b}
          /\ task'.wait = task.wait /\ task'.group = task.group \ {b}
      BY <1>0, <3>1 DEF Over, Task
    <3>3. QED
      BY <1>9, <3>2
  <2>3. QED
    BY <2>1, <2>2
<1>10. ASSUME NEW l \in Libraries, Settle(l) PROVE OrderInv'
  BY <1>0, <1>10 DEF Settle, LoopOver, AtItems, Task
<1>11. CASE Settled \/ RequestScan \/ StopRun
  BY <1>0, <1>11 DEF Settled, RequestScan, StopRun, Task
<1>12. CASE ScanDone
  BY <1>0, <1>12 DEF ScanDone, OfLib, Task
<1>13. ASSUME GivenUp, task.phase \in {"settling", "requesting", "awaiting"} PROVE OrderInv'
  BY <1>0, <1>13 DEF GivenUp, Task
<1>14. ASSUME NEW kind, StartRun(kind) PROVE OrderInv'
  BY <1>14 DEF StartRun, Fresh
<1>15. ASSUME task' = task PROVE OrderInv'
  BY <1>15
<1>16. QED
  <2>1. ASSUME TaskStep PROVE OrderInv'
    BY <2>1, <1>1, <1>2, <1>3, <1>4, <1>5, <1>6, <1>7, <1>8, <1>9, <1>10, <1>11, <1>12, <1>13, <1>e
       DEF TaskStep, TouchFails, Finish, Close, AtFinish, ScanTooLong, ReadStopped, Dies, EndRun
  <2>2. CASE \/ \E kind \in {"preview", "repair", "apply"} : StartRun(kind)
             \/ \E b \in Books : ReadFails(b) \/ StepFails(b)
             \/ ScanRefused \/ StopRun \/ Crash
    BY <2>2, <1>1, <1>8, <1>9, <1>11, <1>13, <1>14 DEF StepFails, AtFinish, ScanRefused, Crash, Dies
  <2>3. CASE \/ \E b \in Books : ScanBook(b) \/ RemoveDead(b)
             \/ \E b \in Books, i, j \in Ino : Renumber(b, i, j)
             \/ \E l \in Libraries : ScanEnds(l) \/ OthersScan(l)
             \/ FlipReach \/ \E v \in DOMAIN revisions, force \in BOOLEAN : Revert(v, force)
             \/ UNCHANGED vars
    BY <2>3, <1>15 DEF ScanBook, RemoveDead, Renumber, ScanEnds, OthersScan, FlipReach, Revert, vars
  <2>4. QED
    BY <2>1, <2>2, <2>3 DEF Next

LEMMA ShapeStep ==
  ASSUME TypeOK, ShapeInv, [Next]_vars
  PROVE  ShapeInv'
<1>0. task \in Task /\ item \in [Books -> Item] /\ task.method \in [Books -> Method]
  BY TaskParts DEF TypeOK
<1> DEFINE SameMethod == task'.method = task.method
           SameFiles == \A b \in Books : item'[b].disk = item[b].disk
<1>2. ASSUME SameMethod, SameFiles PROVE ShapeInv'
  BY <1>2, RepairAssumption DEF ShapeInv, Partial
<1>3. ASSUME item' = item PROVE SameFiles
  BY <1>3
<1>4. ASSUME task' = task PROVE SameMethod
  BY <1>4
<1>5. ASSUME NEW b \in Books, NEW new, new.disk = item[b].disk, item' = [item EXCEPT ![b] = new]
      PROVE  SameFiles
  BY <1>0, <1>5
<1>6. ASSUME NEW b \in Books, NEW chapters
      PROVE  /\ Dropped(b).disk = item[b].disk /\ Rescanned(item[b]).disk = item[b].disk
             /\ [item[b] EXCEPT !.changed = TRUE].disk = item[b].disk
             /\ [item[b] EXCEPT !.chapters = chapters].disk = item[b].disk
             /\ WithTracks(item[b], Live(item[b]), item[b].off).disk = item[b].disk
  <2>1. item[b] \in Item
    BY <1>0
  <2>2. QED
    BY <2>1, RescanKeeps DEF Dropped, WithTracks, Item
<1>7. ASSUME NEW b \in Books, Drop(b) \/ Touch(b) \/ RescanItem(b) \/ Trim(b)
      PROVE  SameFiles /\ SameMethod
  <2>1. SameMethod
    BY <1>0, <1>7 DEF Drop, Touch, RescanItem, Trim, Over, Task
  <2>2. SameFiles
    <3>1. CASE Drop(b)
      BY <3>1, <1>5, <1>6 DEF Drop
    <3>2. CASE Touch(b)
      <4>1. item' = [item EXCEPT ![b] = [item[b] EXCEPT !.changed = TRUE]]
        BY <3>2 DEF Touch
      <4>2. QED
        BY <4>1, <1>5, <1>6
    <3>3. CASE RescanItem(b)
      <4>1. item' = [item EXCEPT ![b] = Rescanned(item[b])]
        BY <3>3 DEF RescanItem
      <4>2. QED
        BY <4>1, <1>5, <1>6
    <3>4. CASE Trim(b)
      <4>1. item' = [item EXCEPT ![b] = [item[b] EXCEPT !.chapters = task.cut]]
        BY <3>4 DEF Trim
      <4>2. QED
        BY <4>1, <1>5, <1>6
    <3>5. QED
      BY <1>7, <3>1, <3>2, <3>3, <3>4
  <2>3. QED
    BY <2>1, <2>2
<1>8. ASSUME NEW b \in Books, Begin(b) PROVE ShapeInv'
  <2> DEFINE m == ChooseMethod(b, task.seen[b], task.access)
  <2> HIDE DEF m
  <2>a. item' = item
    BY <1>8 DEF Begin
  <2>b. \/ task' = Over(task, b)
        \/ task' = [task EXCEPT !.phase = "dropping", !.cur = b, !.targets = @ \ {b},
                                !.method[b] = m, !.revision[b] = Len(revisions) + 1]
    BY <1>8 DEF Begin, m
  <2>c. task'.method = task.method \/ task'.method = [task.method EXCEPT ![b] = m]
    BY <1>0, <2>b DEF Over, Task
  <2>1. /\ item' = item /\ task'.method[b] \in {task.method[b], m}
        /\ \A c \in Books \ {b} : task'.method[c] = task.method[c]
    BY <1>0, <2>a, <2>c
  <2>2. m = "records-only" => b \in Bare
    BY DEF ChooseMethod, m
  <2>3. \A c \in Books : Partial(c)' => c \in Bare
    BY <2>1, <2>2 DEF ShapeInv, Partial
  <2>4. QED
    BY <2>1, <2>3 DEF ShapeInv
<1>a. ASSUME NEW b \in Books, Read(b) \/ ReadFails(b) PROVE SameMethod
  BY <1>a, ReadingOn
<1>b. ASSUME NEW b \in Books, FinishLong(b) \/ Closed(b) \/ Failed(b) PROVE SameMethod
  BY <1>0, <1>b DEF FinishLong, Closed, Failed, Over, Died, Task
<1>9. ASSUME NEW b \in Books, \/ Read(b) \/ ReadFails(b) \/ FinishLong(b) \/ Closed(b) \/ Failed(b)
      PROVE  SameMethod
  BY <1>9, <1>a, <1>b
<1>10. ASSUME NEW l \in Libraries, Settle(l) PROVE SameMethod
  BY <1>0, <1>10 DEF Settle, Task
<1>11. ASSUME CountProgress \/ Settled \/ RequestScan \/ ScanDone \/ GivenUp \/ StopRun PROVE SameMethod
  BY <1>0, <1>11 DEF CountProgress, Settled, RequestScan, ScanDone, GivenUp, StopRun, Task
<1>12. ASSUME task' = Died(task) PROVE SameMethod
  BY <1>0, <1>12 DEF Died, Task
<1>13. ASSUME NEW kind, StartRun(kind) PROVE ShapeInv'
  <2>1. item' = item /\ \A b \in Books : task'.method[b] = "clear"
    BY <1>13 DEF StartRun, Fresh
  <2>2. QED
    BY <2>1 DEF ShapeInv, Partial
<1>14. ASSUME NEW b \in Books, StepFails(b) PROVE SameFiles
  <2>1. CASE item' = item
    BY <2>1
  <2>2. CASE item' = [item EXCEPT ![b] = CASE task.phase = "dropping" -> Dropped(b)
                             [] task.phase = "rescanning" -> Rescanned(item[b])
                             [] task.phase = "trimming" -> [item[b] EXCEPT !.chapters = task.cut]
                             [] OTHER -> item[b]]
    BY <2>2, <1>5, <1>6
  <2>3. QED
    BY <1>14, <2>1, <2>2 DEF StepFails
<1>15. ASSUME NEW b \in Books, ScanBook(b) \/ RemoveDead(b) PROVE SameFiles
  <2>1. CASE ScanBook(b)
    <3>1. item' = [item EXCEPT ![b] = IF item[b].changed THEN Rescanned(item[b]) ELSE item[b]]
      BY <2>1 DEF ScanBook
    <3>2. QED
      BY <3>1, <1>5, <1>6
  <2>2. CASE RemoveDead(b)
    <3>1. item' = [item EXCEPT ![b] = WithTracks(item[b], Live(item[b]), item[b].off)]
      BY <2>2 DEF RemoveDead
    <3>2. QED
      BY <3>1, <1>5, <1>6
  <2>3. QED
    BY <1>15, <2>1, <2>2
<1>16. ASSUME NEW b \in Books, NEW i \in Ino, NEW j \in Ino, Renumber(b, i, j) PROVE ShapeInv'
  <2>1. /\ item' = [item EXCEPT ![b] = Renumbered(item[b], i, j)] /\ task' = task
        /\ i \in item[b].disk
    BY <1>16 DEF Renumber, Live
  <2>2. Renumbered(item[b], i, j).disk = (item[b].disk \ {i}) \cup {j}
    BY <1>0 DEF Renumbered, Item
  <2>3. \A c \in Books : item'[c].disk = IF c = b THEN (item[b].disk \ {i}) \cup {j} ELSE item[c].disk
    BY <1>0, <2>1, <2>2
  <2>4. ASSUME NEW c \in Bare PROVE \E k \in Ino : item'[c].disk = {k}
    <3>1. c \in Books /\ \E k \in Ino : item[c].disk = {k}
      BY RepairAssumption DEF ShapeInv
    <3>2. CASE c = b
      BY <2>1, <2>3, <3>1, <3>2
    <3>3. CASE c # b
      BY <2>3, <3>1, <3>3
    <3>4. QED
      BY <3>2, <3>3
  <2>5. QED
    BY <2>1, <2>4 DEF ShapeInv, Partial
<1>17. ASSUME NEW v \in DOMAIN revisions, NEW force, Revert(v, force) PROVE SameFiles /\ SameMethod
  <2> DEFINE r == revisions[v]
             new == [item[r.book] EXCEPT !.recs = r.before.recs, !.off = r.before.off,
                                         !.chapters = r.before.chapters]
  <2>1. item' = [item EXCEPT ![r.book] = new] /\ task' = task
    BY <1>17 DEF Revert
  <2>2. r.book \in Books /\ item[r.book] \in Item
    BY <1>0, RecordsAreOfBooks
  <2>3. new.disk = item[r.book].disk
    BY <2>2 DEF Item
  <2> HIDE DEF new, r
  <2>4. QED
    BY <1>4, <1>5, <2>1, <2>2, <2>3
<1> HIDE DEF SameMethod, SameFiles
<1>18. QED
  <2>1. ASSUME TaskStep PROVE ShapeInv'
    BY <2>1, <1>2, <1>3, <1>7, <1>8, <1>9, <1>10, <1>11, <1>12
       DEF TaskStep, Read, TouchFails, Finish, FinishLong, Close, Settle, CountProgress, Settled, RequestScan,
           ScanDone, ScanTooLong, ReadStopped, Dies, EndRun
  <2>2. CASE \/ \E kind \in {"preview", "repair", "apply"} : StartRun(kind)
             \/ \E b \in Books : ReadFails(b) \/ StepFails(b)
             \/ ScanRefused \/ StopRun \/ Crash
    BY <2>2, <1>2, <1>3, <1>9, <1>11, <1>12, <1>13, <1>14
       DEF ReadFails, StepFails, ScanRefused, StopRun, Crash, Dies
  <2>3. CASE \/ \E b \in Books : ScanBook(b) \/ RemoveDead(b)
             \/ \E b \in Books, i, j \in Ino : Renumber(b, i, j)
             \/ \E l \in Libraries : ScanEnds(l) \/ OthersScan(l)
             \/ FlipReach \/ \E v \in DOMAIN revisions, force \in BOOLEAN : Revert(v, force)
             \/ UNCHANGED vars
    <3>1. CASE \E b \in Books : ScanBook(b) \/ RemoveDead(b)
      BY <3>1, <1>2, <1>4, <1>15 DEF ScanBook, RemoveDead
    <3>2. CASE \/ \E l \in Libraries : ScanEnds(l) \/ OthersScan(l)
               \/ FlipReach \/ UNCHANGED vars
      BY <3>2, <1>2, <1>3, <1>4 DEF ScanEnds, OthersScan, FlipReach, vars
    <3>3. QED
      BY <2>3, <1>2, <1>16, <1>17, <3>1, <3>2
  <2>4. QED
    BY <2>1, <2>2, <2>3 DEF Next

LEMMA ScanStarting ==
  ASSUME NEW l \in Libraries, ScanStarts(l), \A b \in left : LibraryOf[b] \in scanning
  PROVE  /\ \A b \in left' : LibraryOf[b] \in scanning'
         /\ left \subseteq left' /\ scanning' = scanning \cup {l}
         /\ l \notin scanning => \A b \in Books : LibraryOf[b] = l => b \in left'
BY DEF ScanStarts

LEMMA VisitStep ==
  ASSUME TypeOK, LibInv, VisitInv, [Next]_vars
  PROVE  VisitInv'
<1> USE DEF VisitInv
<1>0. task \in Task /\ item \in [Books -> Item] /\ OfLib \subseteq Books
  BY TaskParts DEF TypeOK, OfLib
<1>1. ASSUME UNCHANGED <<left, scanning>>, task'.phase \notin {"requesting", "awaiting"}
      PROVE  VisitInv'
  BY <1>1
<1>a. ASSUME NEW b \in Books, Read(b) \/ ReadFails(b)
      PROVE  task'.phase \notin {"requesting", "awaiting"}
  BY <1>a, ReadingOn
<1>b. ASSUME NEW b \in Books, \/ Begin(b) \/ Drop(b) \/ Touch(b)
             \/ RescanItem(b) \/ FinishLong(b) \/ Trim(b) \/ Closed(b) \/ Failed(b)
      PROVE  task'.phase \notin {"requesting", "awaiting"}
  BY <1>0, <1>b DEF Begin, Drop, Touch, RescanItem, FinishLong, Trim, Closed, Failed,
                    AtItems, Over, Died, Task
<1>2. ASSUME NEW b \in Books, \/ Read(b) \/ ReadFails(b) \/ Begin(b) \/ Drop(b) \/ Touch(b)
             \/ RescanItem(b) \/ FinishLong(b) \/ Trim(b) \/ Closed(b) \/ Failed(b)
      PROVE  task'.phase \notin {"requesting", "awaiting"}
  BY <1>2, <1>a, <1>b
<1>3. ASSUME NEW l \in Libraries, Settle(l) PROVE task'.phase \notin {"requesting", "awaiting"}
  BY <1>0, <1>3 DEF Settle, Task
<1>4. ASSUME CountProgress \/ ScanDone \/ GivenUp \/ task' = Died(task)
      PROVE  task'.phase \notin {"requesting", "awaiting"}
  BY <1>0, <1>4 DEF CountProgress, ScanDone, GivenUp, Died, Task
<1>5. ASSUME NEW kind, StartRun(kind) PROVE task'.phase \notin {"requesting", "awaiting"}
  BY <1>5 DEF StartRun, Fresh
<1>6. CASE Settled
  BY <1>0, <1>6 DEF Settled, Task
<1>7. CASE RequestScan
  <2>1. /\ ScanStarts(task.lib) /\ task.lib \in Libraries /\ item' = item
        /\ task.phase = "requesting" /\ task'.phase = "awaiting"
        /\ task'.wait = task.wait /\ task'.lib = task.lib
    BY <1>0, <1>7 DEF RequestScan, LibInv, Task
  <2>2. OfLib' = OfLib
    BY <2>1 DEF OfLib
  <2>3. /\ \A b \in left' : LibraryOf[b] \in scanning'
        /\ left \subseteq left'
        /\ task.lib \notin scanning => \A b \in Books : LibraryOf[b] = task.lib => b \in left'
    BY <2>1, ScanStarting
  <2>4. \A b \in OfLib : b \in left' \/ ~item'[b].changed
    BY <1>0, <2>1, <2>3 DEF OfLib
  <2>5. QED
    BY <2>1, <2>2, <2>3, <2>4
<1>8. ASSUME UNCHANGED <<left, scanning>>, task'.phase = task.phase, task'.wait = task.wait,
             task'.lib = task.lib, \A b \in Books : item'[b].changed = item[b].changed
      PROVE  VisitInv'
  <2>1. OfLib' = OfLib
    BY <1>8 DEF OfLib
  <2>2. QED
    BY <1>0, <1>8, <2>1
<1>9. CASE StopRun \/ FlipReach \/ UNCHANGED vars
  BY <1>0, <1>8, <1>9 DEF StopRun, FlipReach, vars, Task
<1>10. ASSUME NEW b \in Books, ScanBook(b) PROVE VisitInv'
  <2>1. /\ left' = left \ {b} /\ task' = task /\ scanning' = scanning
        /\ item' = [item EXCEPT ![b] = IF item[b].changed THEN Rescanned(item[b]) ELSE item[b]]
    BY <1>10 DEF ScanBook
  <2>2. item[b] \in Item
    BY <1>0
  <2>3. ~item'[b].changed /\ \A c \in Books \ {b} : item'[c] = item[c]
    BY <1>0, <2>1, <2>2, RescanKeeps
  <2>4. OfLib' = OfLib
    BY <2>1 DEF OfLib
  <2>5. QED
    BY <1>0, <2>1, <2>3, <2>4
<1>11. ASSUME NEW l \in Libraries, ScanEnds(l) PROVE VisitInv'
  <2>1. OfLib' = OfLib
    BY <1>11 DEF ScanEnds, OfLib
  <2>2. QED
    BY <1>11, <2>1 DEF ScanEnds
<1>12. ASSUME NEW l \in Libraries, OthersScan(l) PROVE VisitInv'
  <2>1. OfLib' = OfLib /\ ScanStarts(l) /\ UNCHANGED <<task, item>>
    BY <1>12 DEF OthersScan, OfLib
  <2>2. /\ \A b \in left' : LibraryOf[b] \in scanning'
        /\ left \subseteq left' /\ scanning' = scanning \cup {l}
        /\ l \notin scanning => \A b \in Books : LibraryOf[b] = l => b \in left'
    BY <2>1, ScanStarting
  <2>3. \A b \in OfLib : LibraryOf[b] = task.lib
    BY DEF OfLib
  <2>4. l \notin scanning
    BY <1>12 DEF OthersScan
  <2>5. QED
    BY <1>0, <2>1, <2>2, <2>3, <2>4
<1>13. ASSUME NEW b \in Books, RemoveDead(b) \/ \E i, j \in Ino : Renumber(b, i, j)
       PROVE  VisitInv'
  <2>1. \A c \in Books : item'[c].changed = item[c].changed
    <3>1. item[b] \in Item
      BY <1>0
    <3>2. CASE RemoveDead(b)
      <4>1. WithTracks(item[b], Live(item[b]), item[b].off).changed = item[b].changed
        BY <3>1 DEF WithTracks, Item
      <4>2. QED
        BY <1>0, <3>2, <4>1 DEF RemoveDead
    <3>3. ASSUME NEW i \in Ino, NEW j \in Ino, Renumber(b, i, j)
          PROVE  \A c \in Books : item'[c].changed = item[c].changed
      <4>1. Renumbered(item[b], i, j).changed = item[b].changed
        BY <3>1 DEF Renumbered, Item
      <4>2. QED
        BY <1>0, <3>3, <4>1 DEF Renumber
    <3>4. QED
      BY <1>13, <3>2, <3>3
  <2>2. UNCHANGED <<left, scanning, task>>
    BY <1>13 DEF RemoveDead, Renumber
  <2>3. QED
    BY <1>8, <2>1, <2>2
<1>14. CASE ScanRefused
  <2>1. \A b \in left' : LibraryOf[b] \in scanning'
    <3>1. CASE ScanStarts(task.lib) /\ task.phase = "requesting"
      BY <3>1, ScanStarting DEF LibInv
    <3>2. CASE UNCHANGED <<scanning, left>>
      BY <3>2
    <3>3. QED
      BY <1>14, <3>1, <3>2 DEF ScanRefused
  <2>2. task'.phase \notin {"requesting", "awaiting"}
    BY <1>4, <1>14 DEF ScanRefused
  <2>3. QED
    BY <2>1, <2>2
<1>15. ASSUME NEW v \in DOMAIN revisions, NEW force, Revert(v, force) PROVE VisitInv'
  BY <1>1, <1>15 DEF Revert
<1>16. QED
  <2>1. ASSUME TaskStep PROVE VisitInv'
    <3>1. ASSUME NEW b \in Books, \/ Read(b) \/ Begin(b) \/ Drop(b) \/ Touch(b)
                 \/ RescanItem(b) \/ TouchFails(b) \/ Finish(b) \/ FinishLong(b) \/ Trim(b) \/ Close(b)
          PROVE  VisitInv'
      <4>1. UNCHANGED <<left, scanning>>
        BY <3>1 DEF Read, Begin, Drop, Touch, RescanItem, TouchFails, Finish, FinishLong, Trim, Close
      <4>2. task'.phase \notin {"requesting", "awaiting"}
        BY <1>2, <3>1 DEF TouchFails, Finish, Close
      <4>3. QED
        BY <1>1, <4>1, <4>2
    <3>2. ASSUME NEW l \in Libraries, Settle(l) PROVE VisitInv'
      BY <1>1, <1>3, <3>2 DEF Settle
    <3>3. CASE CountProgress \/ ScanDone \/ ScanTooLong \/ ReadStopped \/ EndRun
      BY <1>1, <1>4, <3>3 DEF CountProgress, ScanDone, ScanTooLong, ReadStopped, Dies, EndRun
    <3>4. QED
      BY <2>1, <1>6, <1>7, <3>1, <3>2, <3>3 DEF TaskStep
  <2>2. ASSUME NEW b \in Books, ReadFails(b) \/ StepFails(b) PROVE VisitInv'
    BY <1>1, <1>2, <2>2 DEF ReadFails, StepFails
  <2>3. CASE Crash
    BY <1>1, <1>4, <2>3 DEF Crash, Dies
  <2>4. ASSUME NEW kind, StartRun(kind) PROVE VisitInv'
    BY <1>1, <1>5, <2>4 DEF StartRun
  <2>5. QED
    BY <2>1, <2>2, <2>3, <2>4, <1>9, <1>10, <1>11, <1>12, <1>13, <1>14, <1>15 DEF Next

LEMMA SameFacts ==
  ASSUME NEW b, item'[b] = item[b], task'.seen[b] = task.seen[b], task'.method[b] = task.method[b]
  PROVE  /\ Fit(b)' = Fit(b) /\ AllThere(b)' = AllThere(b) /\ Excluded(b)' = Excluded(b)
         /\ Calm(b)' = Calm(b) /\ Limit(b)' = Limit(b)
<1>1. Partial(b)' = Partial(b)
  BY DEF Partial
<1>2. Calm(b)' = Calm(b) /\ Limit(b)' = Limit(b)
  BY <1>1 DEF Calm, Limit
<1>3. QED
  BY <1>2 DEF Fit, AllThere, Excluded

\* A step that concerns one book at most.
LEMMA PlacesFrom ==
  ASSUME PlacesInv, NEW b,
         \A c \in Books \ {b} : /\ item'[c] = item[c] /\ task'.seen[c] = task.seen[c]
                                /\ task'.method[c] = task.method[c]
                                /\ AwaitsDrop(c)' => AwaitsDrop(c)
                                /\ HasDropped(c)' => HasDropped(c)
                                /\ Visited(c)' => Visited(c),
         AwaitsDrop(b)' => Fit(b)' /\ AllThere(b)',
         HasDropped(b)' => Fit(b)' /\ Excluded(b)',
         Visited(b)' => Calm(b)',
         task'.phase = "trimming" => Within(task.cur, task.cut)',
         task'.phase = "closing" => Within(task.cur, item[task.cur].chapters)'
  PROVE  PlacesInv'
<1>1. ASSUME NEW c \in Books
      PROVE  /\ AwaitsDrop(c)' => Fit(c)' /\ AllThere(c)'
             /\ HasDropped(c)' => Fit(c)' /\ Excluded(c)'
             /\ Visited(c)' => Calm(c)'
  <2>1. CASE c = b
    BY <2>1
  <2>2. CASE c # b
    <3>1. /\ AwaitsDrop(c) => Fit(c) /\ AllThere(c)
          /\ HasDropped(c) => Fit(c) /\ Excluded(c)
          /\ Visited(c) => Calm(c)
      BY DEF PlacesInv
    <3>2. QED
      BY <2>2, <3>1, SameFacts
  <2>3. QED
    BY <2>1, <2>2
<1>2. QED
  BY <1>1 DEF PlacesInv

\* A step of the task that leaves the books alone and takes none further.
LEMMA PlacesMove ==
  ASSUME TypeOK, OrderInv, PlacesInv, item' = item,
         task'.seen = task.seen, task'.method = task.method,
         task'.targets \subseteq task.targets, task'.wait \subseteq task.wait,
         task'.group \subseteq task.group,
         \/ task'.phase \notin {"dropping", "touching", "rescanning"} \cup Ending
         \/ task'.phase = task.phase /\ task'.cur = task.cur /\ task'.cut = task.cut
  PROVE  PlacesInv'
<1>1. ASSUME NEW c \in Books
      PROVE  /\ AwaitsDrop(c)' => AwaitsDrop(c)
             /\ HasDropped(c)' => HasDropped(c)
             /\ Visited(c)' => Visited(c)
  BY DEF AwaitsDrop, HasDropped, Visited, Ending
<1>2. ASSUME NEW c \in Books
      PROVE  /\ AwaitsDrop(c)' => Fit(c)' /\ AllThere(c)'
             /\ HasDropped(c)' => Fit(c)' /\ Excluded(c)'
             /\ Visited(c)' => Calm(c)'
             /\ Limit(c)' = Limit(c)
  <2>1. /\ AwaitsDrop(c) => Fit(c) /\ AllThere(c)
        /\ HasDropped(c) => Fit(c) /\ Excluded(c)
        /\ Visited(c) => Calm(c)
    BY DEF PlacesInv
  <2>2. QED
    BY <1>1, <2>1, SameFacts
<1>3. ASSUME task'.phase \in {"trimming", "closing"}
      PROVE  /\ task'.phase = task.phase /\ task'.cur = task.cur /\ task'.cut = task.cut
             /\ task.cur \in Books
  BY <1>3 DEF OrderInv, Ending
<1>4. ASSUME task'.phase = "trimming" PROVE Within(task.cur, task.cut)'
  BY <1>2, <1>3, <1>4 DEF PlacesInv, Within
<1>5. ASSUME task'.phase = "closing" PROVE Within(task.cur, item[task.cur].chapters)'
  BY <1>2, <1>3, <1>5 DEF PlacesInv, Within
<1>6. QED
  BY <1>2, <1>4, <1>5 DEF PlacesInv

LEMMA PlacesRead ==
  ASSUME TypeOK, OrderInv, PlacesInv, NEW b \in Books, Read(b)
  PROVE  PlacesInv'
<1> DEFINE verdict == Judged(b, item[b])
<1>1. task.phase = "reading" /\ b \in task.todo /\ item' = item
  BY DEF Read
<1>2. verdict = "none" => ~Ambiguous(item[b])
  BY DEF Judged
<1>3. /\ task'.seen = [task.seen EXCEPT ![b] = item[b]] /\ task'.method = task.method
      /\ task'.targets = (IF verdict = "none" THEN task.targets \cup {b} ELSE task.targets)
      /\ task'.phase \in {"reading", "items"}
      /\ task'.wait = task.wait /\ task'.group = task.group
  BY ReadingOn, ReadingIs
<1> HIDE DEF verdict
<1>4. task.wait = {} /\ task.group = {} /\ b \notin task.targets
  BY <1>1 DEF OrderInv
<1>5. \A c \in Books : /\ AwaitsDrop(c)' => AwaitsDrop(c) \/ (c = b /\ verdict = "none")
                       /\ ~HasDropped(c)' /\ ~Visited(c)'
  BY <1>3, <1>4 DEF AwaitsDrop, HasDropped, Visited, Ending
<1>6. ~AwaitsDrop(b)
  BY <1>1, <1>4 DEF AwaitsDrop
<1>7. task'.seen[b] = item[b] /\ \A c \in Books \ {b} : task'.seen[c] = task.seen[c]
  BY <1>3, TaskParts
<1>8. AwaitsDrop(b)' => Fit(b)' /\ AllThere(b)'
  BY <1>1, <1>2, <1>5, <1>6, <1>7 DEF Fit, AllThere, Ambiguous, Live
<1>9. QED
  BY <1>1, <1>3, <1>5, <1>7, <1>8, PlacesFrom

LEMMA PlacesBegin ==
  ASSUME TypeOK, OrderInv, PlacesInv, NEW b \in Books, Begin(b)
  PROVE  PlacesInv'
<1> DEFINE m == ChooseMethod(b, task.seen[b], task.access)
<1>1. /\ task.phase = "items" /\ task.group = {} /\ b \in task.targets /\ item' = item
      /\ \/ task' = Over(task, b)
         \/ task' = [task EXCEPT !.phase = "dropping", !.cur = b, !.targets = @ \ {b},
                                 !.method[b] = m, !.revision[b] = Len(revisions) + 1]
  BY DEF Begin, AtItems
<1> HIDE DEF m
<1>2. CASE task' = Over(task, b)
  <2>1. /\ task'.phase = "items" /\ task'.targets = task.targets \ {b}
        /\ task'.wait = task.wait /\ task'.group = task.group
        /\ task'.seen = task.seen /\ task'.method = task.method
    BY <1>2 DEF Over, TypeOK, Task
  <2>2. QED
    BY <1>1, <2>1, PlacesMove DEF Ending
<1>3. CASE task' = [task EXCEPT !.phase = "dropping", !.cur = b, !.targets = @ \ {b},
                                !.method[b] = m, !.revision[b] = Len(revisions) + 1]
  <2>1. /\ task'.phase = "dropping" /\ task'.cur = b /\ task'.targets = task.targets \ {b}
        /\ task'.method = [task.method EXCEPT ![b] = m] /\ task'.seen = task.seen
        /\ task'.wait = task.wait /\ task'.group = task.group
    BY <1>3 DEF TypeOK, Task
  <2>2. b \notin task.wait \cup task.group
    BY <1>1 DEF OrderInv
  <2>3. ~HasDropped(b)' /\ ~Visited(b)'
    BY <2>1, <2>2 DEF HasDropped, Visited, Ending
  <2>4. Fit(b)' /\ AllThere(b)'
    <3>1. Fit(b) /\ AllThere(b)
      BY <1>1 DEF PlacesInv, AwaitsDrop
    <3>2. QED
      BY <1>1, <2>1, <3>1 DEF Fit, AllThere
  <2>5. ASSUME NEW c \in Books \ {b}
        PROVE  /\ AwaitsDrop(c)' => AwaitsDrop(c)
               /\ HasDropped(c)' => HasDropped(c)
               /\ Visited(c)' => Visited(c)
               /\ task'.method[c] = task.method[c]
    BY <2>1, TaskParts DEF AwaitsDrop, HasDropped, Visited, Ending
  <2>6. QED
    BY <1>1, <2>1, <2>3, <2>4, <2>5, PlacesFrom
<1>4. QED
  BY <1>1, <1>2, <1>3

\* What a drop leaves out is not excluded.
LEMMA DropKeepsOff ==
  ASSUME TypeOK, NEW b \in Books, Fit(b), AllThere(b), task.method[b] # "clear"
  PROVE  Live(task.seen[b]) \cap task.seen[b].off \subseteq Dropped(b).off
<1> DEFINE seen == task.seen[b]
           kept == Kept(seen, task.method[b])
<1>1. seen \in Item /\ item[b] \in Item
  BY TaskParts DEF TypeOK
<1>2. Live(seen) \in SUBSET Ino /\ Playable(seen) \subseteq Live(seen) /\ Playable(seen) # {}
  BY <1>1, LiveIsIno DEF Fit, Playable
<1>3. IsFiniteSet(Playable(seen)) /\ Playable(seen) \in SUBSET Nat
  BY <1>2, RepairAssumption, FS_Subset
<1>4. Max(Playable(seen)) \in Playable(seen)
  BY <1>2, <1>3, MaxOfFinite
<1>5. Max(Playable(seen)) \notin seen.off
  BY <1>4 DEF Playable
<1>6. Live(seen) \cap seen.off \subseteq kept
  BY <1>5 DEF Kept
<1> HIDE DEF kept
<1>7. Dropped(b).off = seen.off \cap kept \cap item[b].recs
  BY <1>1 DEF Dropped, WithTracks, Item, kept
<1>8. QED
  BY <1>6, <1>7 DEF AllThere

LEMMA PlacesDrop ==
  ASSUME TypeOK, OrderInv, PlacesInv, NEW b \in Books, Drop(b)
  PROVE  PlacesInv'
<1>1. /\ task.phase = "dropping" /\ task.cur = b
      /\ item' = [item EXCEPT ![b] = Dropped(b)]
  BY DEF Drop
<1>2. /\ task'.phase \in {"rescanning", "touching", "finishing"} /\ task'.cur = b
      /\ task'.phase = "finishing" => Partial(b)
      /\ task'.targets = task.targets /\ task'.wait = task.wait /\ task'.group = task.group
      /\ task'.seen = task.seen /\ task'.method = task.method
  BY <1>1 DEF Drop, Partial, TypeOK, Task
<1>3. b \notin task.targets \cup task.wait \cup task.group
  BY <1>1 DEF OrderInv
<1>4. ~AwaitsDrop(b)'
  BY <1>2, <1>3 DEF AwaitsDrop
<1>5. Fit(b) /\ AllThere(b)
  BY <1>1 DEF PlacesInv, AwaitsDrop
<1>6. Fit(b)' /\ Excluded(b)'
  <2>1. item'[b] = Dropped(b)
    BY <1>1 DEF TypeOK
  <2>2. QED
    BY <1>2, <1>5, <2>1, DropKeepsOff DEF Fit, Excluded
<1>7. Visited(b)' => Calm(b)'
  BY <1>2, <1>3 DEF Visited, Calm, Partial, Ending
<1>8. ASSUME NEW c \in Books \ {b}
      PROVE  /\ AwaitsDrop(c)' => AwaitsDrop(c)
             /\ HasDropped(c)' => HasDropped(c)
             /\ Visited(c)' => Visited(c)
             /\ item'[c] = item[c]
  BY <1>1, <1>2 DEF AwaitsDrop, HasDropped, Visited, Ending, TypeOK
<1>9. QED
  BY <1>2, <1>4, <1>6, <1>7, <1>8, PlacesFrom

LEMMA PlacesTouch ==
  ASSUME TypeOK, OrderInv, PlacesInv, NEW b \in Books, Touch(b) \/ RescanItem(b)
  PROVE  PlacesInv'
<1>1. /\ task.phase \in {"touching", "rescanning"} /\ task.cur = b
      /\ \A c \in Books \ {b} : item'[c] = item[c]
  BY DEF Touch, RescanItem, TypeOK
<1>2. item'[b].off = item[b].off /\ (RescanItem(b) => ~item'[b].changed)
  <2>1. item[b] \in Item
    BY DEF TypeOK
  <2>2. CASE Touch(b)
    <3>1. item'[b] = [item[b] EXCEPT !.changed = TRUE] /\ ~RescanItem(b)
      BY <2>2 DEF Touch, RescanItem, TypeOK
    <3>2. QED
      BY <2>1, <3>1 DEF Item
  <2>3. CASE RescanItem(b)
    <3>1. item'[b] = Rescanned(item[b])
      BY <2>3 DEF RescanItem, TypeOK
    <3>2. QED
      BY <2>1, <3>1, RescanKeeps
  <2>4. QED
    BY <2>2, <2>3
<1>3. /\ \/ Touch(b) /\ task'.phase = "rescanning" /\ task'.cur = b /\ task'.wait = task.wait
         \/ Touch(b) /\ task'.phase = "items" /\ task'.wait = task.wait \cup {b}
         \/ RescanItem(b) /\ task'.phase = "finishing" /\ task'.cur = b /\ task'.wait = task.wait
      /\ task'.targets \subseteq task.targets /\ task'.group = task.group
      /\ task'.seen = task.seen /\ task'.method = task.method
  <2>1. CASE RescanItem(b)
    BY <2>1 DEF RescanItem, TypeOK, Task
  <2>2. CASE Touch(b) /\ task.method[b] = "touch"
    BY <2>2 DEF Touch, TypeOK, Task
  <2>3. CASE Touch(b) /\ task.method[b] # "touch"
    <3>1. task' = [Over(task, b) EXCEPT !.wait = Over(task, b).wait \cup {b}]
      BY <2>3 DEF Touch
    <3>2. QED
      BY <2>3, <3>1 DEF Over, TypeOK, Task
  <2>4. QED
    BY <2>1, <2>2, <2>3
<1>4. b \notin task.targets \cup task.wait \cup task.group
  BY <1>1 DEF OrderInv
<1>5. ~AwaitsDrop(b)' /\ (Visited(b)' => RescanItem(b))
  BY <1>3, <1>4 DEF AwaitsDrop, Visited, Ending
<1>6. Fit(b)' /\ Excluded(b)'
  <2>1. Fit(b) /\ Excluded(b)
    BY <1>1 DEF PlacesInv, HasDropped
  <2>2. QED
    BY <1>2, <1>3, <2>1 DEF Fit, Excluded
<1>7. Visited(b)' => Calm(b)'
  BY <1>2, <1>5 DEF Calm
<1>8. ASSUME NEW c \in Books \ {b}
      PROVE  /\ AwaitsDrop(c)' => AwaitsDrop(c)
             /\ HasDropped(c)' => HasDropped(c)
             /\ Visited(c)' => Visited(c)
  <2>1. task'.phase \in {"items", "rescanning", "finishing"} /\ (task'.phase # "items" => task'.cur = b)
    BY <1>3
  <2>2. c \in task'.wait => c \in task.wait
    BY <1>3
  <2>3. QED
    BY <1>3, <2>1, <2>2 DEF AwaitsDrop, HasDropped, Visited, Ending
<1>9. task'.phase \notin {"trimming", "closing"}
  BY <1>3
<1>10. QED
  BY <1>1, <1>3, <1>5, <1>6, <1>7, <1>8, <1>9, PlacesFrom

LEMMA PlacesClosed ==
  ASSUME TypeOK, OrderInv, PlacesInv, NEW b \in Books, item' = item,
         \/ Closed(b) \/ Failed(b) \/ GivenUp \/ task' = Died(task)
         \/ \E l \in Libraries : Settle(l)
         \/ CountProgress \/ Settled \/ RequestScan \/ StopRun \/ ReadFails(b)
  PROVE  PlacesInv'
<1> DEFINE Moves ==
             /\ task'.seen = task.seen /\ task'.method = task.method
             /\ task'.targets \subseteq task.targets /\ task'.wait \subseteq task.wait
             /\ task'.group \subseteq task.group
             /\ \/ task'.phase \notin {"dropping", "touching", "rescanning"} \cup Ending
                \/ task'.phase = task.phase /\ task'.cur = task.cur /\ task'.cut = task.cut
<1>0. task \in Task
  BY DEF TypeOK
<1>1. ASSUME task' = [Over(task, b) EXCEPT !.group = Over(task, b).group \ {b}] PROVE Moves
  BY <1>0, <1>1 DEF Over, Task, Ending
<1>2. CASE Closed(b)
  BY <1>1, <1>2, PlacesMove DEF Closed
<1>3. ASSUME task' = Died(task) PROVE Moves
  BY <1>0, <1>3 DEF Died, Task, Ending
<1>4. CASE Failed(b)
  BY <1>1, <1>3, <1>4, PlacesMove DEF Failed
<1>5. ASSUME GivenUp PROVE Moves
  BY <1>0, <1>5 DEF GivenUp, Task, Ending
<1>6. ASSUME NEW l \in Libraries, Settle(l) PROVE Moves
  BY <1>0, <1>6 DEF Settle, Task, Ending
<1>7. ASSUME Settled \/ RequestScan PROVE Moves
  BY <1>0, <1>7 DEF Settled, RequestScan, Task, Ending
<1>8. ASSUME StopRun PROVE Moves
  BY <1>0, <1>8 DEF StopRun, Task
<1>9. ASSUME ReadFails(b) PROVE Moves
  <2>1. task.phase = "reading" /\ task'.phase \in {"reading", "items"}
    BY <1>9, ReadingOn
  <2>2. /\ task'.seen = task.seen /\ task'.method = task.method
        /\ task'.targets = task.targets /\ task'.wait = task.wait /\ task'.group = task.group
    BY <1>0, <1>9 DEF ReadFails, Onwards, Task
  <2>3. QED
    BY <2>1, <2>2 DEF Ending
<1>e. ASSUME CountProgress PROVE Moves
  BY <1>0, <1>e DEF CountProgress, Task, Ending
<1>10. QED
  BY <1>2, <1>e, <1>3, <1>4, <1>5, <1>6, <1>7, <1>8, <1>9, PlacesMove

LEMMA PlacesFails ==
  ASSUME TypeOK, OrderInv, PlacesInv, NEW b \in Books, StepFails(b)
  PROVE  PlacesInv'
<1> DEFINE new == CASE task.phase = "dropping" -> Dropped(b)
                    [] task.phase = "rescanning" -> Rescanned(item[b])
                    [] task.phase = "trimming" -> [item[b] EXCEPT !.chapters = task.cut]
                    [] OTHER -> item[b]
<1>1. /\ item' = item \/ item' = [item EXCEPT ![b] = new]
      /\ Failed(b)
      /\ \/ task.phase \in {"dropping", "rescanning"} \cup Ending /\ task.cur = b
         \/ task.phase = "items"
  BY DEF StepFails, AtFinish, Ending
<1>2. CASE item' = item
  BY <1>1, <1>2, PlacesClosed
<1>5. CASE task.phase = "items"
  <2>1. new = item[b] /\ item \in [Books -> Item]
    BY <1>5 DEF TypeOK
  <2> HIDE DEF new
  <2>2. item' = item
    BY <1>1, <2>1
  <2>3. QED
    BY <1>2, <2>2
<1>3. CASE item' = [item EXCEPT ![b] = new] /\ task.phase # "items"
  <2>1. item'[b] = new /\ \A c \in Books \ {b} : item'[c] = item[c]
    BY <1>3 DEF TypeOK
  <2>2. task.phase \in Ending => new.off = item[b].off
    <3>1. item[b] \in Item
      BY DEF TypeOK
    <3>2. QED
      BY <3>1 DEF Ending, Item
  <2> HIDE DEF new
  <2>3. /\ task'.phase \in {"items", "idle"}
        /\ task'.targets \subseteq task.targets /\ task'.wait \subseteq task.wait
        /\ task'.group \subseteq task.group \ {b}
        /\ task'.seen = task.seen /\ task'.method = task.method
    <3>1. CASE task' = Died(task)
      BY <3>1 DEF Died, TypeOK, Task
    <3>2. CASE task' = [Over(task, b) EXCEPT !.group = Over(task, b).group \ {b}]
      BY <3>2 DEF Over, TypeOK, Task
    <3>3. QED
      BY <1>1, <3>1, <3>2 DEF Failed
  <2>4. b \notin task.targets /\ (b \in task.wait => task.phase \in Ending)
    BY <1>1, <1>3 DEF OrderInv
  <2>5. ~AwaitsDrop(b)' /\ ~Visited(b)' /\ (HasDropped(b)' => task.phase \in Ending)
    BY <2>3, <2>4 DEF AwaitsDrop, HasDropped, Visited, Ending
  <2>6. ASSUME task.phase \in Ending PROVE Fit(b)' /\ Excluded(b)'
    <3>1. Fit(b) /\ Excluded(b)
      BY <1>1, <1>3, <2>6 DEF PlacesInv, HasDropped
    <3>2. QED
      BY <2>1, <2>2, <2>3, <2>6, <3>1 DEF Fit, Excluded
  <2>7. ASSUME NEW c \in Books \ {b}
        PROVE  /\ AwaitsDrop(c)' => AwaitsDrop(c)
               /\ HasDropped(c)' => HasDropped(c)
               /\ Visited(c)' => Visited(c)
    BY <2>3 DEF AwaitsDrop, HasDropped, Visited, Ending
  <2>8. QED
    BY <2>1, <2>3, <2>5, <2>6, <2>7, PlacesFrom
<1>4. QED
  BY <1>1, <1>2, <1>3, <1>5

LEMMA LimitIsNat == ASSUME TypeOK, NEW b \in Books PROVE Limit(b) \in Nat
<1>1. task.seen[b] \in Item /\ item[b].length \in Nat
  BY TaskParts DEF TypeOK, Item
<1>2. Total(Live(task.seen[b])) \in Nat
  BY <1>1, LiveIsIno, TotalIsNat
<1>3. QED
  BY <1>1, <1>2 DEF Limit

\* Chapters that need no cut end within the book.
LEMMA UntrimmedFits ==
  ASSUME NEW chapters \in Seq(Nat), NEW length \in Nat, length > 0, Trimmed(chapters, length) = {}
  PROVE  \A k \in DOMAIN chapters : chapters[k] <= length
<1> DEFINE kept == {k \in DOMAIN chapters : Starts(chapters, k) < length}
<1>1. kept = {} \/ \A k \in DOMAIN chapters : chapters[k] <= length
  BY DEF Trimmed
<1>2. ASSUME NEW k \in DOMAIN chapters PROVE 1 \in kept
  BY DEF Starts
<1>3. QED
  BY <1>1, <1>2

LEMMA PlacesFinishLong ==
  ASSUME TypeOK, OrderInv, PlacesInv, NEW b \in Books, FinishLong(b)
  PROVE  PlacesInv'
<1> DEFINE c == CHOOSE x \in Cut(b, item[b]) : TRUE
<1>1. Cut(b, item[b]) # {} /\ item' = item /\ AtFinish(b)
  BY DEF FinishLong
<1>2. /\ task'.phase = "trimming" /\ task'.cur = b /\ task'.cut = c
      /\ task'.targets = task.targets /\ task'.wait = task.wait /\ task'.group = task.group
      /\ task'.seen = task.seen /\ task'.method = task.method
  BY DEF FinishLong, TypeOK, Task
<1>3. Cut(b, item[b]) = Trimmed(item[b].chapters, Limit(b))
  BY DEF Cut, Limit
<1>4. c \in Cut(b, item[b])
  BY <1>1
<1> HIDE DEF c
<1>5. item[b].chapters \in Seq(Nat) /\ Limit(b) \in Nat
  BY LimitIsNat DEF TypeOK, Item
<1>6. Within(b, c)
  BY <1>3, <1>4, <1>5, CutIsSeq DEF Within
<1>7. /\ Fit(b)' = Fit(b) /\ Excluded(b)' = Excluded(b) /\ Calm(b)' = Calm(b) /\ Limit(b)' = Limit(b)
  BY <1>1, <1>2, SameFacts
<1>8. Within(task.cur, task.cut)'
  BY <1>2, <1>6, <1>7 DEF Within
<1>9. Visited(b) /\ HasDropped(b)
  BY <1>1 DEF AtFinish, Visited, HasDropped, Ending
<1>10. Fit(b)' /\ Excluded(b)' /\ Calm(b)'
  BY <1>7, <1>9 DEF PlacesInv
<1>11. b \notin task.targets
  BY <1>1 DEF AtFinish, OrderInv, Ending
<1>12. ~AwaitsDrop(b)'
  BY <1>2, <1>11 DEF AwaitsDrop
<1>13. ASSUME NEW d \in Books \ {b}
       PROVE  /\ AwaitsDrop(d)' => AwaitsDrop(d)
              /\ HasDropped(d)' => HasDropped(d)
              /\ Visited(d)' => Visited(d)
  BY <1>2 DEF AwaitsDrop, HasDropped, Visited, Ending
<1>14. QED
  BY <1>1, <1>2, <1>8, <1>10, <1>12, <1>13, PlacesFrom

LEMMA PlacesTrim ==
  ASSUME TypeOK, OrderInv, PlacesInv, NEW b \in Books, Trim(b)
  PROVE  PlacesInv'
<1>1. /\ task.phase = "trimming" /\ task.cur = b
      /\ item' = [item EXCEPT ![b] = [item[b] EXCEPT !.chapters = task.cut]]
  BY DEF Trim
<1>2. /\ task'.phase = "closing" /\ task'.cur = b
      /\ task'.targets = task.targets /\ task'.wait = task.wait /\ task'.group = task.group
      /\ task'.seen = task.seen /\ task'.method = task.method
  BY DEF Trim, TypeOK, Task
<1>3. /\ item'[b].off = item[b].off /\ item'[b].changed = item[b].changed
      /\ item'[b].length = item[b].length /\ item'[b].chapters = task.cut
      /\ \A c \in Books \ {b} : item'[c] = item[c]
  BY <1>1 DEF TypeOK, Item
<1>4. Visited(b) /\ HasDropped(b)
  BY <1>1 DEF Visited, HasDropped, Ending
<1>5. Fit(b) /\ Excluded(b) /\ Calm(b) /\ Within(b, task.cut)
  BY <1>1, <1>4 DEF PlacesInv
<1>6. Partial(b)' = Partial(b)
  BY <1>2 DEF Partial
<1>7. Fit(b)' /\ Excluded(b)' /\ Calm(b)' /\ Limit(b)' = Limit(b)
  BY <1>2, <1>3, <1>5, <1>6 DEF Fit, Excluded, Calm, Limit
<1>8. Within(task.cur, item[task.cur].chapters)'
  BY <1>2, <1>3, <1>5, <1>7 DEF Within
<1>9. b \notin task.targets
  BY <1>1 DEF OrderInv, Ending
<1>10. ~AwaitsDrop(b)'
  BY <1>2, <1>9 DEF AwaitsDrop
<1>11. ASSUME NEW d \in Books \ {b}
       PROVE  /\ AwaitsDrop(d)' => AwaitsDrop(d)
              /\ HasDropped(d)' => HasDropped(d)
              /\ Visited(d)' => Visited(d)
  BY <1>2 DEF AwaitsDrop, HasDropped, Visited, Ending
<1>12. QED
  BY <1>2, <1>3, <1>7, <1>8, <1>10, <1>11, PlacesFrom

LEMMA PlacesScanDone ==
  ASSUME TypeOK, OrderInv, VisitInv, PlacesInv, ScanDone
  PROVE  PlacesInv'
<1>1. /\ task.phase = "awaiting" /\ task.lib \notin scanning /\ item' = item
      /\ OfLib \subseteq task.wait /\ task.wait \subseteq Books
  BY TaskParts DEF ScanDone, OfLib
<1>2. /\ task'.phase = "items" /\ task'.targets = task.targets
      /\ task'.group = OfLib /\ task'.wait = task.wait \ OfLib
      /\ task'.seen = task.seen /\ task'.method = task.method
  BY DEF ScanDone, TypeOK, Task
<1>3. \A b \in OfLib : ~item[b].changed
  <2>1. \A b \in OfLib : b \in Books /\ LibraryOf[b] = task.lib
    BY <1>1 DEF OfLib
  <2>2. QED
    BY <1>1, <2>1 DEF VisitInv
<1>4. ASSUME NEW b \in Books
      PROVE  /\ AwaitsDrop(b)' => Fit(b)' /\ AllThere(b)'
             /\ HasDropped(b)' => Fit(b)' /\ Excluded(b)'
             /\ Visited(b)' => Calm(b)'
  <2>1. /\ AwaitsDrop(b)' => AwaitsDrop(b)
        /\ HasDropped(b)' => HasDropped(b)
        /\ Visited(b)' => b \in OfLib
    BY <1>1, <1>2 DEF AwaitsDrop, HasDropped, Visited, Ending
  <2>2. /\ AwaitsDrop(b) => Fit(b) /\ AllThere(b)
        /\ HasDropped(b) => Fit(b) /\ Excluded(b)
        /\ b \in OfLib => Calm(b)
    BY <1>3 DEF PlacesInv, Calm
  <2>3. QED
    BY <1>1, <1>2, <2>1, <2>2, SameFacts
<1>5. QED
  BY <1>2, <1>4 DEF PlacesInv

\* A scan of others: it does not change a book that has been visited, but for a
\* bare one's length.
LEMMA PlacesScanBook ==
  ASSUME TypeOK, OrderInv, ShapeInv, PlacesInv, NEW b \in Books, ScanBook(b)
  PROVE  PlacesInv'
<1>1. /\ task' = task
      /\ item' = [item EXCEPT ![b] = IF item[b].changed THEN Rescanned(item[b]) ELSE item[b]]
  BY DEF ScanBook
<1>2. item[b] \in Item
  BY DEF TypeOK
<1>3. /\ item'[b] = (IF item[b].changed THEN Rescanned(item[b]) ELSE item[b])
      /\ \A c \in Books \ {b} : item'[c] = item[c]
  BY <1>1 DEF TypeOK
<1>4. /\ item'[b].off = item[b].off /\ item[b].recs \subseteq item'[b].recs
      /\ item'[b].changed => item[b].changed
      /\ Cardinality(item[b].disk) = 1 => item'[b].chapters = item[b].chapters
  BY <1>2, <1>3, RescanKeeps
<1>5. Fit(b)' = Fit(b) /\ (AllThere(b) => AllThere(b)') /\ (Excluded(b) => Excluded(b)')
  BY <1>1, <1>4 DEF Fit, AllThere, Excluded
<1>6. Partial(b)' = Partial(b) /\ (Calm(b) => Calm(b)')
  BY <1>1, <1>4 DEF Partial, Calm
<1>7. \A c \in Books : /\ AwaitsDrop(c)' = AwaitsDrop(c) /\ HasDropped(c)' = HasDropped(c)
                       /\ Visited(c)' = Visited(c)
  BY <1>1 DEF AwaitsDrop, HasDropped, Visited
<1>8. ASSUME task.phase \in {"trimming", "closing"}
      PROVE  /\ task.cur \in Books /\ Limit(task.cur)' = Limit(task.cur)
             /\ item'[task.cur].chapters = item[task.cur].chapters
  <2>1. task.cur \in Books
    BY <1>8 DEF OrderInv, Ending
  <2>2. CASE task.cur # b
    BY <1>1, <1>3, <2>1, <2>2, SameFacts
  <2>3. CASE task.cur = b /\ Partial(b)
    <3>1. \E i \in Ino : item[b].disk = {i}
      BY <2>3 DEF ShapeInv
    <3>2. Cardinality(item[b].disk) = 1
      BY <3>1, FS_Singleton
    <3>3. QED
      BY <1>1, <1>4, <1>6, <2>1, <2>3, <3>2 DEF Limit
  <2>4. CASE task.cur = b /\ ~Partial(b)
    <3>1. ~item[b].changed
      BY <1>8, <2>1, <2>4 DEF PlacesInv, Visited, Ending, Calm
    <3>2. item'[b] = item[b]
      BY <1>3, <3>1
    <3>3. QED
      BY <1>1, <2>1, <2>4, <3>2, SameFacts
  <2>5. QED
    BY <2>2, <2>3, <2>4
<1>9. /\ task'.phase = "trimming" => Within(task.cur, task.cut)'
      /\ task'.phase = "closing" => Within(task.cur, item[task.cur].chapters)'
  BY <1>1, <1>8 DEF PlacesInv, Within
<1>10. /\ AwaitsDrop(b)' => Fit(b)' /\ AllThere(b)'
       /\ HasDropped(b)' => Fit(b)' /\ Excluded(b)'
       /\ Visited(b)' => Calm(b)'
  BY <1>5, <1>6, <1>7 DEF PlacesInv
<1>11. QED
  BY <1>1, <1>3, <1>7, <1>9, <1>10, PlacesFrom

\* What happens to a book that is not being repaired.
LEMMA PlacesEdit ==
  ASSUME TypeOK, OrderInv, PlacesInv, NEW b \in Books, task' = task, ~InRepair(b),
         \A c \in Books \ {b} : item'[c] = item[c]
  PROVE  PlacesInv'
<1>1. ~AwaitsDrop(b)' /\ ~HasDropped(b)' /\ ~Visited(b)'
  BY DEF InRepair, AwaitsDrop, HasDropped, Visited
<1>2. \A c \in Books : /\ AwaitsDrop(c)' = AwaitsDrop(c) /\ HasDropped(c)' = HasDropped(c)
                       /\ Visited(c)' = Visited(c)
  BY DEF AwaitsDrop, HasDropped, Visited
<1>3. ASSUME task.phase \in {"trimming", "closing"}
      PROVE  Limit(task.cur)' = Limit(task.cur) /\ item'[task.cur] = item[task.cur]
  <2>1. task.cur \in Books \ {b}
    BY <1>3 DEF OrderInv, Ending, InRepair
  <2>2. QED
    BY <2>1, SameFacts
<1>4. /\ task'.phase = "trimming" => Within(task.cur, task.cut)'
      /\ task'.phase = "closing" => Within(task.cur, item[task.cur].chapters)'
  BY <1>3 DEF PlacesInv, Within
<1>5. QED
  BY <1>1, <1>2, <1>4, PlacesFrom

\* Nothing is so of books while no run is under way.
LEMMA PlacesIdle ==
  ASSUME task'.targets = {}, task'.wait = {}, task'.group = {}, task'.phase \in {"idle", "reading"}
  PROVE  PlacesInv'
<1>1. \A c \in Books : ~AwaitsDrop(c)' /\ ~HasDropped(c)' /\ ~Visited(c)'
  BY DEF AwaitsDrop, HasDropped, Visited, Ending
<1>2. QED
  BY <1>1 DEF PlacesInv

\* Nobody moves a file of a book under repair, or edits its tracks.
Spared == \A b \in Books : RemoveDead(b) \/ (\E i, j \in Ino : Renumber(b, i, j)) => ~InRepair(b)

LEMMA PlacesStep ==
  ASSUME TypeOK, OrderInv, ShapeInv, VisitInv, PlacesInv, [Next]_vars, [Spared]_vars
  PROVE  PlacesInv'
<1>1. ASSUME NEW b \in Books, \/ Read(b) \/ Begin(b) \/ Drop(b) \/ Touch(b) \/ RescanItem(b)
             \/ FinishLong(b) \/ Trim(b)
      PROVE  PlacesInv'
  BY <1>1, PlacesRead, PlacesBegin, PlacesDrop, PlacesTouch, PlacesFinishLong, PlacesTrim
<1>2. ASSUME NEW b \in Books, TouchFails(b) \/ Finish(b) \/ Close(b) \/ ReadFails(b) PROVE PlacesInv'
  BY <1>2, PlacesClosed DEF TouchFails, Finish, Close, ReadFails
<1>3. ASSUME item' = item, \/ GivenUp \/ task' = Died(task) \/ \E l \in Libraries : Settle(l)
                           \/ CountProgress \/ Settled \/ RequestScan \/ StopRun
      PROVE  PlacesInv'
  <2>1. CASE Books = {}
    <3>1. task'.phase \notin {"trimming", "closing"}
      BY <1>3, <2>1, OrderStep DEF OrderInv, Ending
    <3>2. QED
      BY <2>1, <3>1 DEF PlacesInv
  <2>2. CASE Books # {}
    BY <1>3, <2>2, PlacesClosed
  <2>3. QED
    BY <2>1, <2>2
<1>4. ASSUME TaskStep PROVE PlacesInv'
  <2>1. ASSUME NEW l \in Libraries, Settle(l) PROVE PlacesInv'
    BY <1>3, <2>1 DEF Settle
  <2>2. CASE CountProgress \/ Settled \/ RequestScan \/ ScanTooLong \/ ReadStopped \/ EndRun
    BY <1>3, <2>2 DEF CountProgress, Settled, RequestScan, ScanTooLong, ReadStopped, Dies, EndRun
  <2>3. QED
    BY <1>1, <1>2, <1>4, <2>1, <2>2, PlacesScanDone DEF TaskStep
<1>5. CASE ScanRefused \/ StopRun \/ Crash
  BY <1>3, <1>5 DEF ScanRefused, StopRun, Crash, Dies
<1>6. ASSUME NEW kind, StartRun(kind) PROVE PlacesInv'
  BY <1>6, PlacesIdle DEF StartRun, Fresh
<1>7. ASSUME NEW b \in Books, RemoveDead(b) \/ \E i, j \in Ino : Renumber(b, i, j)
      PROVE  PlacesInv'
  <2>1. upsets' = upsets + 1 /\ upsets \in Nat
    BY <1>7 DEF RemoveDead, Renumber, Upset, TypeOK
  <2>2. ~InRepair(b)
    BY <1>7, <2>1 DEF Spared, vars
  <2>3. task' = task /\ \A c \in Books \ {b} : item'[c] = item[c]
    BY <1>7 DEF RemoveDead, Renumber, TypeOK
  <2>4. QED
    BY <2>2, <2>3, PlacesEdit
<1>8. ASSUME NEW v \in DOMAIN revisions, NEW force, Revert(v, force) PROVE PlacesInv'
  BY <1>8, PlacesIdle DEF Revert, OrderInv
<1>9. CASE \/ \E l \in Libraries : ScanEnds(l) \/ OthersScan(l)
           \/ FlipReach \/ UNCHANGED vars
  <2>1. item' = item /\ task' = task
    BY <1>9 DEF ScanEnds, OthersScan, FlipReach, vars
  <2>2. QED
    BY <2>1, PlacesMove
<1>10. QED
  BY <1>1, <1>2, <1>4, <1>5, <1>6, <1>7, <1>8, <1>9, PlacesScanBook, PlacesFails DEF Next

LEMMA WholeInit == OneFile /\ Init => WholeInv
<1>1. SUFFICES ASSUME OneFile, Init PROVE WholeInv
  OBVIOUS
<1>2. /\ task.phase = "idle" /\ task.targets = {} /\ task.wait = {} /\ task.group = {}
      /\ left = {} /\ \A b \in Books : task.method[b] = "clear" /\ item[b] \in Shelf[b]
  BY <1>1 DEF Init, Fresh
<1>3. OrderInv /\ VisitInv
  BY <1>2 DEF OrderInv, VisitInv, Ending
<1>4. ShapeInv
  BY <1>1, <1>2, RepairAssumption DEF ShapeInv, Partial, OneFile
<1>5. PlacesInv
  BY <1>2 DEF PlacesInv, AwaitsDrop, HasDropped, Visited, Ending
<1>6. QED
  BY <1>3, <1>4, <1>5 DEF WholeInv

\* Only the end of a repair reports a success.
LEMMA SuccessIsClosed ==
  ASSUME TypeOK, [Next]_vars, NEW b \in Books, outcome[b] # outcome'[b],
         outcome'[b] \in {"repaired", "partly"}
  PROVE  Finish(b) \/ Close(b)
<1>0. outcome \in [Books -> Outcome]
  BY DEF TypeOK
<1>1. ASSUME NEW c \in Books, Read(c) PROVE FALSE
  <2>1. outcome'[b] = outcome[b] \/ outcome'[b] = Judged(c, item[c])
    BY <1>0, <1>1 DEF Read
  <2>2. Judged(c, item[c]) \notin {"repaired", "partly"}
    BY DEF Judged
  <2>3. QED
    BY <2>1, <2>2
<1>2. ASSUME NEW c \in Books, Begin(c) \/ ReadFails(c) PROVE FALSE
  BY <1>0, <1>2 DEF Begin, ReadFails
<1>3. ASSUME NEW c \in Books, Failed(c) PROVE FALSE
  BY <1>0, <1>3 DEF Failed
<1>4. ASSUME NEW c \in Books, Closed(c) PROVE c = b
  BY <1>0, <1>4 DEF Closed
<1>5. ASSUME GivenUp PROVE FALSE
  BY <1>5 DEF GivenUp
<1>6. ASSUME EndRun PROVE FALSE
  BY <1>6 DEF EndRun
<1>7. ASSUME Dies \/ \E kind \in {"preview", "repair", "apply"} : StartRun(kind) PROVE FALSE
  BY <1>7 DEF Dies, StartRun
<1>8. ASSUME NEW c \in Books, \/ Drop(c) \/ Touch(c) \/ RescanItem(c) \/ FinishLong(c) \/ Trim(c)
             \/ ScanBook(c) \/ RemoveDead(c)
      PROVE  FALSE
  BY <1>8 DEF Drop, Touch, RescanItem, FinishLong, Trim, ScanBook, RemoveDead
<1>9. ASSUME NEW l \in Libraries, Settle(l) \/ ScanEnds(l) \/ OthersScan(l) PROVE FALSE
  BY <1>9 DEF Settle, ScanEnds, OthersScan
<1>12. ASSUME CountProgress PROVE FALSE
  BY <1>12 DEF CountProgress
<1>10. ASSUME \/ Settled \/ RequestScan \/ ScanDone \/ StopRun \/ FlipReach \/ UNCHANGED vars
              \/ \E c \in Books, i, j \in Ino : Renumber(c, i, j)
              \/ \E v \in DOMAIN revisions, force \in BOOLEAN : Revert(v, force)
       PROVE  FALSE
  BY <1>10 DEF Settled, RequestScan, ScanDone, StopRun, FlipReach, vars, Renumber, Revert
<1>11. QED
  <2>1. ASSUME TaskStep PROVE Finish(b) \/ Close(b)
    <3>1. ASSUME NEW c \in Books, TouchFails(c) PROVE FALSE
      BY <1>3, <3>1 DEF TouchFails
    <3>2. ASSUME NEW c \in Books, Finish(c) \/ Close(c) PROVE c = b
      BY <1>4, <3>2 DEF Finish, Close
    <3>3. ~ScanTooLong /\ ~ReadStopped
      BY <1>5, <1>7 DEF ScanTooLong, ReadStopped
    <3>4. QED
      BY <2>1, <1>1, <1>2, <1>6, <1>8, <1>9, <1>10, <1>12, <3>1, <3>2, <3>3 DEF TaskStep
  <2>2. ASSUME NEW c \in Books, StepFails(c) PROVE FALSE
    BY <1>3, <2>2 DEF StepFails
  <2>3. ~ScanRefused /\ ~Crash
    BY <1>5, <1>7 DEF ScanRefused, Crash
  <2>4. QED
    BY <2>1, <2>2, <2>3, <1>2, <1>7, <1>8, <1>9, <1>10 DEF Next

LEMMA TotalIsPositive ==
  ASSUME Audible, NEW recs \in SUBSET Ino, recs # {}
  PROVE  Total(recs) \in Nat /\ Total(recs) > 0
<1>1. Total(recs) = SumFunctionOnSet(Length, recs)
  BY Zenon DEF Total, MapThenSumSet, SumFunctionOnSet, FoldFunctionOnSet, MapThenFoldSet
<1>2. IsFiniteSet(recs) /\ \A i \in recs : Length[i] \in Nat
  BY RepairAssumption, FS_Subset
<1>3. /\ SumFunctionOnSet(Length, recs) \in Nat
      /\ \A i \in recs : Length[i] <= SumFunctionOnSet(Length, recs)
  BY <1>2, SumHasTerms
<1>4. PICK i \in recs : Length[i] > 0 /\ Length[i] <= Total(recs)
  BY <1>1, <1>3 DEF Audible
<1>5. QED
  BY <1>1, <1>2, <1>3, <1>4

\* What a success says of the book it closes.
LEMMA ClosedIsWhole ==
  ASSUME Audible, TypeOK, OrderInv, PlacesInv, NEW b \in Books, Finish(b) \/ Close(b),
         outcome'[b] \in {"repaired", "partly"}
  PROVE  LET seen == task.seen[b]
             now == item'[b]
             total == Total(Live(seen))
         IN
         /\ Dead(now) = {} /\ Live(seen) \subseteq now.recs
         /\ task.method[b] # "clear" => Live(seen) \cap seen.off \subseteq now.off
         /\ outcome'[b] = "repaired" => now.length = total
         /\ \A k \in DOMAIN now.chapters : now.chapters[k] <= total
<1> DEFINE total == Total(Live(task.seen[b]))
<1>1. Closed(b) /\ item' = item
  BY DEF Finish, Close
<1>2. /\ Verified(item[b], task.seen[b], ~Partial(b))
      /\ outcome'[b] = "repaired" => ~Partial(b)
  BY <1>1 DEF Closed, TypeOK
<1>3. /\ Dead(item[b]) = {} /\ Live(task.seen[b]) \subseteq item[b].recs
      /\ ~Partial(b) => item[b].length = total
  BY <1>2 DEF Verified
<1>4. HasDropped(b)
  BY DEF Finish, Close, AtFinish, HasDropped, Ending
<1>5. Fit(b) /\ Excluded(b)
  BY <1>4 DEF PlacesInv
<1>6. total \in Nat /\ total > 0
  <2>1. task.seen[b] \in Item
    BY TaskParts
  <2>2. Live(task.seen[b]) \in SUBSET Ino /\ Live(task.seen[b]) # {}
    BY <1>5, <2>1, LiveIsIno DEF Fit, Playable
  <2>3. QED
    BY <2>2, TotalIsPositive
<1>7. Limit(b) = total
  BY <1>3 DEF Limit
<1>8. Within(b, item[b].chapters)
  <2>1. CASE Finish(b)
    <3>1. Trimmed(item[b].chapters, Limit(b)) = {}
      BY <2>1 DEF Finish, Cut, Limit
    <3>2. item[b].chapters \in Seq(Nat)
      BY DEF TypeOK, Item
    <3> HIDE DEF total
    <3>3. QED
      BY <1>6, <1>7, <3>1, <3>2, UntrimmedFits DEF Within
  <2>2. CASE Close(b)
    BY <2>2 DEF Close, PlacesInv
  <2>3. QED
    BY <2>1, <2>2
<1> HIDE DEF total
<1>9. \A k \in DOMAIN item[b].chapters : item[b].chapters[k] <= total
  BY <1>7, <1>8 DEF Within
<1>10. QED
  BY <1>1, <1>2, <1>3, <1>5, <1>9 DEF Excluded, total

\* While nobody moves a file of a book under repair, or edits its tracks
\* (Undisturbed), and where every file plays (Audible) and a bare book is one
\* file (OneFile): a repair reports success only of a book with no dead record,
\* its live tracks back, its exclusions standing and its chapters ending within
\* it, through failures, stops, crashes, scans of others and reverts:
\* RepairedIsWhole.
THEOREM RepairedIsWholeHolds ==
  ASSUME Audible, OneFile
  PROVE  Spec /\ Undisturbed => RepairedIsWhole
<1>1. MendInv /\ WholeInv /\ [Next]_vars /\ [Spared]_vars => WholeInv'
  BY OrderStep, ShapeStep, VisitStep, PlacesStep DEF MendInv, WholeInv
<1>2. Undisturbed => [][Spared]_vars
  BY PTL DEF Undisturbed, Spared
<1>3. Spec /\ Undisturbed => []WholeInv
  BY WholeInit, <1>1, <1>2, MendInvariance, PTL DEF Spec
<1> DEFINE WholeStep == \A b \in Books :
       outcome[b] # outcome'[b] /\ outcome'[b] \in {"repaired", "partly"} =>
         LET seen == task.seen[b]
             now == item'[b]
             total == Total(Live(seen))
         IN
         /\ Dead(now) = {} /\ Live(seen) \subseteq now.recs
         /\ task.method[b] # "clear" => Live(seen) \cap seen.off \subseteq now.off
         /\ outcome'[b] = "repaired" => now.length = total
         /\ \A k \in DOMAIN now.chapters : now.chapters[k] <= total
<1>4. MendInv /\ WholeInv /\ [Next]_vars => [WholeStep]_vars
  <2>1. SUFFICES ASSUME MendInv, WholeInv, [Next]_vars, NEW b \in Books, outcome[b] # outcome'[b],
                        outcome'[b] \in {"repaired", "partly"}
                 PROVE  LET seen == task.seen[b]
                            now == item'[b]
                            total == Total(Live(seen))
                        IN
                        /\ Dead(now) = {} /\ Live(seen) \subseteq now.recs
                        /\ task.method[b] # "clear" => Live(seen) \cap seen.off \subseteq now.off
                        /\ outcome'[b] = "repaired" => now.length = total
                        /\ \A k \in DOMAIN now.chapters : now.chapters[k] <= total
    OBVIOUS
  <2>2. TypeOK /\ OrderInv /\ PlacesInv
    BY <2>1 DEF MendInv, WholeInv
  <2>3. Finish(b) \/ Close(b)
    BY <2>1, <2>2, SuccessIsClosed
  <2>4. QED
    BY <2>1, <2>2, <2>3, ClosedIsWhole
<1> HIDE DEF WholeStep
<1>5. RepairedIsWhole <=> [][WholeStep]_vars
  BY PTL DEF RepairedIsWhole, WholeStep
<1>6. QED
  BY <1>3, <1>4, <1>5, MendInvariance, PTL DEF Spec

================================================================================
